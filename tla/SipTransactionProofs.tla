------------------------ MODULE SipTransactionProofs ------------------------
(***************************************************************************)
(* What every operator of SipTransaction keeps: the type of the record,    *)
(* the references somebody else holds on the transaction, the states of    *)
(* its role, that it does not end without a final status; and what it does *)
(* while a handler is at work: the edges of the state machine it takes,    *)
(* the user it tells, the timers and the marks it leaves for what is to    *)
(* come.                                                                   *)
(***************************************************************************)
EXTENDS SipTransaction, TLAPS

(* The states a transaction of a role can be in.                           *)
Allowed(r) == IF r = "UAC" THEN (NULL .. DESTROYED) \ {TRYING, CONFIRMED}
              ELSE (NULL .. DESTROYED) \ {CALLING}

(* A transaction that is well typed, holds its own references, and is in   *)
(* the hash table only while the layer's reference is not yet dropped.     *)
Good(t) == /\ t \in Transactions
           /\ Own(t) <= t.refs
           /\ t.reg => t.live
           /\ t.state \in Allowed(t.role)

(* An operation neither takes nor drops a reference that is not its own.   *)
Kept(t, u) == /\ Good(u)
              /\ u.refs - Own(u) = t.refs - Own(t)
              /\ u.role = t.role

(* Keeping is reflexive and transitive.                                    *)
LEMMA KeptRefl == ASSUME NEW t, Good(t) PROVE Kept(t, t)
  BY DEF Kept, Good

(* Keeping composes along the calls a handler makes.                       *)
LEMMA KeptTrans ==
  ASSUME NEW t, NEW u, NEW v, Kept(t, u), Kept(u, v)
  PROVE  Kept(t, v)
  BY DEF Kept

(* The references a transaction holds on itself are a number.              *)
LEMMA OwnType == ASSUME NEW t \in Transactions PROVE Own(t) \in Nat
  BY DEF Transactions, Own, One

(* A change that leaves the references, the heap and the registration      *)
(* alone is kept, in any state of the role.                                *)
LEMMA SameRefs ==
  ASSUME NEW t, Good(t), NEW u \in Transactions,
         u.refs = t.refs, u.heap = t.heap, u.out = t.out,
         u.live = t.live, u.reg = t.reg, u.role = t.role,
         u.state \in Allowed(t.role)
  PROVE  Kept(t, u)
  BY DEF Kept, Good, Own

(* A change of references that balances.                                   *)
LEMMA Balanced ==
  ASSUME NEW t, Good(t), NEW u \in Transactions,
         u.refs - Own(u) = t.refs - Own(t),
         u.role = t.role, u.state = t.state, u.reg => u.live
  PROVE  Kept(t, u)
<1>1. Own(t) \in Nat /\ Own(u) \in Nat /\ t.refs \in Nat /\ u.refs \in Nat
  BY OwnType DEF Good, Transactions
<1> QED BY <1>1 DEF Kept, Good

(* Cancelling a timer gives back exactly the reference of its entry.       *)
LEMMA CancelKept ==
  ASSUME NEW t, Good(t), NEW e \in Entries
  PROVE  /\ Kept(t, CancelTimer(t, e))
         /\ CancelTimer(t, e).heap = t.heap \ {e}
<1> DEFINE u == CancelTimer(t, e)
<1>1. t \in Transactions /\ Own(t) <= t.refs
  BY DEF Good
<1>2. e \in t.heap => t.refs > 0
  BY <1>1 DEF Transactions, Own, One, Entries
<1>3. /\ u.refs = IF e \in t.heap THEN t.refs - 1 ELSE t.refs
      /\ u.heap = t.heap \ {e} /\ u.out = t.out /\ u.live = t.live
      /\ u.role = t.role /\ u.reg = t.reg /\ u.state = t.state
      /\ u.id = [t.id EXCEPT ![e] = 0]
  BY <1>1 DEF Transactions, CancelTimer, TIMER_INACTIVE
<1>4. u.id \in [Entries -> 0 .. 3] /\ u.refs \in Nat
  BY <1>1, <1>2, <1>3 DEF Transactions
<1>5. u \in Transactions
  BY <1>1, <1>3, <1>4 DEF Transactions, CancelTimer
<1>6. u.refs - Own(u) = t.refs - Own(t)
  BY <1>1, <1>3 DEF Transactions, Own, One, Entries
<1>7. u.reg => u.live
  BY <1>3 DEF Good
<1> QED BY <1>3, <1>5, <1>6, <1>7, Balanced

(* Arming a timer takes one reference, and none when it is armed already.  *)
LEMMA ScheduleKept ==
  ASSUME NEW t, Good(t), NEW e \in Entries, NEW i \in 0 .. 3, NEW w \in Waits
  PROVE  Kept(t, ScheduleTimer(t, e, i, w))
<1> DEFINE u == ScheduleTimer(t, e, i, w)
<1>1. t \in Transactions
  BY DEF Good
<1>2. CASE e \in t.heap
  BY <1>2, KeptRefl DEF ScheduleTimer
<1>3. CASE e \notin t.heap
  <2>1. /\ u.refs = t.refs + 1
        /\ u.heap = t.heap \cup {e} /\ u.out = t.out /\ u.live = t.live
        /\ u.role = t.role /\ u.reg = t.reg /\ u.state = t.state
        /\ u.id = [t.id EXCEPT ![e] = i]
        /\ u.wait \in Waits
    BY <1>1, <1>3 DEF Transactions, ScheduleTimer
  <2>2. u \in Transactions
    <3>1. u.id \in [Entries -> 0 .. 3] /\ u.refs \in Nat /\ u.heap \subseteq Entries
      BY <1>1, <2>1 DEF Transactions
    <3> QED BY <1>1, <1>3, <2>1, <3>1 DEF Transactions, ScheduleTimer
  <2>3. u.refs - Own(u) = t.refs - Own(t)
    BY <1>1, <1>3, <2>1 DEF Transactions, Own, One, Entries
  <2>4. u.reg => u.live
    BY <2>1 DEF Good
  <2> QED BY <2>1, <2>2, <2>3, <2>4, Balanced
<1> QED BY <1>2, <1>3

(* Cancel and schedule under mutex_b: the references follow the heap.      *)
LEMMA ResetKept ==
  ASSUME NEW t, Good(t), NEW i \in 0 .. 3, NEW w \in Waits
  PROVE  Kept(t, ResetTimeout(t, i, w))
<1>1. Kept(t, CancelTimer(t, "to"))
  BY CancelKept DEF Entries
<1>2. Kept(CancelTimer(t, "to"), ResetTimeout(t, i, w))
  BY <1>1, ScheduleKept DEF Kept, ResetTimeout, Entries
<1> QED BY <1>1, <1>2, KeptTrans

(* tsx_shutdown() drops the layer's reference once, whatever it finds.     *)
LEMMA ShutdownKept ==
  ASSUME NEW t, Good(t), ~t.reg
  PROVE  Kept(t, Shutdown(t))
<1> DEFINE c == CancelTimer(CancelTimer(t, "to"), "rt")
           u == Shutdown(t)
<1>1. Kept(t, CancelTimer(t, "to")) /\ Kept(CancelTimer(t, "to"), c)
  BY CancelKept DEF Kept, Entries
<1>2. Good(c) /\ Kept(t, c)
  BY <1>1, KeptTrans DEF Kept
<1>3. /\ c.live = t.live /\ c.reg = t.reg /\ c.state = t.state
      /\ c.flags = t.flags /\ c.user = t.user
  BY DEF Good, Transactions, CancelTimer
<1>4. c \in Transactions /\ Own(c) <= c.refs
  BY <1>2 DEF Good
<1>5. t.live => c.refs > 0
  <2>1. One(c.live) <= Own(c)
    BY <1>4 DEF Transactions, Own, One
  <2>2. t.live => One(c.live) = 1
    BY <1>3 DEF One
  <2> QED BY <1>4, <2>1, <2>2, OwnType DEF Transactions
<1>6. /\ u.refs = IF t.live THEN c.refs - 1 ELSE c.refs
      /\ u.live = FALSE /\ u.heap = c.heap /\ u.out = c.out /\ u.role = c.role
      /\ u.reg = c.reg /\ u.state = c.state
  BY <1>4 DEF Shutdown, Transactions
<1>7. u \in Transactions
  <2>1. u.refs \in Nat
    BY <1>4, <1>5, <1>6 DEF Transactions
  <2>2. u.flags \subseteq Flags /\ u.user \in BOOLEAN
    BY <1>4, <1>3 DEF Shutdown, Transactions, Flags
  <2> QED BY <1>4, <2>1, <2>2, <1>6 DEF Shutdown, Transactions, NoMsg
<1>8. u.refs - Own(u) = c.refs - Own(c)
  BY <1>3, <1>4, <1>6 DEF Transactions, Own, One
<1>9. Kept(c, u)
  BY <1>2, <1>3, <1>6, <1>7, <1>8, Balanced
<1> QED BY <1>2, <1>9, KeptTrans

(* Arming the retransmit timer.                                            *)
LEMMA RetransmissionKept ==
  ASSUME NEW t, Good(t)
  PROVE  Kept(t, Retransmission(t))
  BY ScheduleKept DEF Retransmission, Entries, RETRANSMIT_TIMER, Waits

(* Posting a transport error through the timeout timer.                    *)
LEMMA PostKept ==
  ASSUME NEW t, Good(t)
  PROVE  Kept(t, PostTransportError(t))
  BY ResetKept DEF PostTransportError, TRANSPORT_ERR_TIMER, Waits

(* Flags come and go without touching a reference.                         *)
LEMMA FlagsKept ==
  ASSUME NEW t, Good(t), NEW f \in SUBSET Flags
  PROVE  Kept(t, [t EXCEPT !.flags = f])
<1> DEFINE u == [t EXCEPT !.flags = f]
<1>1. t \in Transactions
  BY DEF Good
<1>2. u \in Transactions
  BY <1>1 DEF Transactions
<1>3. /\ u.refs = t.refs /\ u.heap = t.heap /\ u.out = t.out /\ u.live = t.live
      /\ u.reg = t.reg /\ u.role = t.role /\ u.state = t.state
  BY <1>1 DEF Transactions
<1> QED BY <1>2, <1>3, SameRefs DEF Good

(* Clearing transport flags.                                               *)
LEMMA DropKept ==
  ASSUME NEW t, Good(t), NEW fs
  PROVE  Kept(t, Drop(t, fs))
<1>1. t.flags \ fs \in SUBSET Flags
  BY DEF Good, Transactions
<1> QED BY <1>1, FlagsKept DEF Drop

(* Arming the retransmit timer, or marking it to be armed later.           *)
LEMMA StartRetransmissionKept ==
  ASSUME NEW t, Good(t)
  PROVE  Kept(t, StartRetransmission(t))
<1>1. t.flags \cup {"resched"} \in SUBSET Flags
  BY DEF Good, Transactions, Flags
<1> QED BY <1>1, FlagsKept, RetransmissionKept DEF StartRetransmission

(* The user's view is not the transaction's business.                      *)
LEMMA NotifyKept ==
  ASSUME NEW t, Good(t)
  PROVE  Kept(t, Notify(t)) /\ Notify(t).reg = t.reg
<1> DEFINE u == Notify(t)
<1>1. t \in Transactions
  BY DEF Good
<1>2. CASE ~t.user
  BY <1>2, KeptRefl DEF Notify
<1>3. CASE t.user
  <2>1. /\ u.refs = t.refs /\ u.heap = t.heap /\ u.out = t.out /\ u.live = t.live
        /\ u.reg = t.reg /\ u.role = t.role /\ u.state = t.state
    BY <1>1, <1>3 DEF Notify, Transactions
  <2>2. (IF t.state = TERMINATED /\ t.terms < 2 THEN t.terms + 1 ELSE t.terms) \in 0 .. 2
    BY <1>1 DEF Transactions
  <2>3. u \in Transactions
    BY <1>1, <1>3, <2>2 DEF Notify, Transactions
  <2> QED BY <2>1, <2>3, SameRefs DEF Good
<1> QED BY <1>2, <1>3

(* The TERMINATED branch of tsx_set_state(): it swaps the timeout timer.   *)
LEMMA EnterTerminatedKept ==
  ASSUME NEW t, Good(t)
  PROVE  Kept(t, EnterTerminated(t))
<1> DEFINE u == [t EXCEPT !.tx = @ /\ "transport" \notin t.flags,
                          !.flags = @ \ {"transport"}]
<1>1. t \in Transactions
  BY DEF Good
<1>2. u \in Transactions
  <2>1. ASSUME NEW b \in BOOLEAN, NEW f \in SUBSET Flags
        PROVE  [t EXCEPT !.tx = b, !.flags = f] \in Transactions
    BY <1>1 DEF Transactions
  <2>2. (t.tx /\ "transport" \notin t.flags) \in BOOLEAN
    OBVIOUS
  <2>3. t.flags \ {"transport"} \in SUBSET Flags
    BY <1>1 DEF Transactions
  <2> QED BY <2>1, <2>2, <2>3, Zenon
<1>3. /\ u.refs = t.refs /\ u.heap = t.heap /\ u.out = t.out /\ u.live = t.live
      /\ u.reg = t.reg /\ u.role = t.role /\ u.state = t.state
  BY <1>1 DEF Transactions
<1>4. Kept(t, u)
  BY <1>2, <1>3, SameRefs DEF Good
<1>5. Kept(u, EnterTerminated(t))
  <2>1. EnterTerminated(t) = ResetTimeout(u, 2, "zero")
    BY DEF EnterTerminated, TIMEOUT_TIMER
  <2>2. Good(u) /\ 2 \in 0 .. 3 /\ "zero" \in Waits
    BY <1>4 DEF Kept, Waits
  <2> QED BY <2>1, <2>2, ResetKept
<1> QED BY <1>4, <1>5, KeptTrans

(* Destroying takes the transaction out of the hash table first, so that   *)
(* nobody finds it once the layer's reference is gone.                     *)
LEMMA EnterDestroyedKept ==
  ASSUME NEW t, Good(t)
  PROVE  Kept(t, EnterDestroyed(t))
<1> DEFINE u == [t EXCEPT !.reg = FALSE]
<1>1. t \in Transactions
  BY DEF Good
<1>2. u \in Transactions /\ ~u.reg
  BY <1>1 DEF Transactions
<1>3. /\ u.refs = t.refs /\ u.heap = t.heap /\ u.out = t.out /\ u.live = t.live
      /\ u.role = t.role /\ u.state = t.state
  BY <1>1 DEF Transactions
<1>4. u.refs - Own(u) = t.refs - Own(t)
  BY <1>3 DEF Own
<1>5. Kept(t, u)
  BY <1>2, <1>3, <1>4, Balanced
<1>6. Kept(u, EnterDestroyed(t))
  BY <1>2, <1>5, ShutdownKept DEF EnterDestroyed, Kept
<1> QED BY <1>5, <1>6, KeptTrans

(* tsx_set_state() to any state of the role above NULL.                    *)
LEMMA SetStateKept ==
  ASSUME NEW t, Good(t), NEW s \in Allowed(t.role)
  PROVE  Kept(t, SetState(t, s))
<1> DEFINE u == [t EXCEPT !.state = s]
           n == Notify(u)
<1>1. t \in Transactions /\ s \in NULL .. DESTROYED
  BY DEF Good, Allowed
<1>2. u \in Transactions
  BY <1>1 DEF Transactions
<1>3. /\ u.refs = t.refs /\ u.heap = t.heap /\ u.out = t.out /\ u.live = t.live
      /\ u.reg = t.reg /\ u.role = t.role /\ u.state = s
  BY <1>1 DEF Transactions
<1>4. Kept(t, u)
  BY <1>2, <1>3, SameRefs
<1>5. Kept(u, n) /\ Good(n)
  BY <1>4, NotifyKept DEF Kept
<1>6. Kept(n, SetState(t, s))
  BY <1>5, EnterTerminatedKept, EnterDestroyedKept, KeptRefl DEF SetState
<1> QED BY <1>4, <1>5, <1>6, KeptTrans

(* Single fields that carry no reference.                                  *)
LEMMA CodeKept ==
  ASSUME NEW t, Good(t), NEW c \in Codes
  PROVE  Kept(t, [t EXCEPT !.code = c])
<1> DEFINE u == [t EXCEPT !.code = c]
<1>1. t \in Transactions
  BY DEF Good
<1>2. u \in Transactions
  BY <1>1 DEF Transactions
<1>3. /\ u.refs = t.refs /\ u.heap = t.heap /\ u.out = t.out /\ u.live = t.live
      /\ u.reg = t.reg /\ u.role = t.role /\ u.state = t.state
  BY <1>1 DEF Transactions
<1> QED BY <1>2, <1>3, SameRefs DEF Good

(* Assigning last_tx.                                                      *)
LEMMA LastKept ==
  ASSUME NEW t, Good(t), NEW m \in Msgs \cup {NoMsg}
  PROVE  Kept(t, [t EXCEPT !.last = m])
<1> DEFINE u == [t EXCEPT !.last = m]
<1>1. t \in Transactions
  BY DEF Good
<1>2. u \in Transactions
  BY <1>1 DEF Transactions
<1>3. /\ u.refs = t.refs /\ u.heap = t.heap /\ u.out = t.out /\ u.live = t.live
      /\ u.reg = t.reg /\ u.role = t.role /\ u.state = t.state
  BY <1>1 DEF Transactions
<1> QED BY <1>2, <1>3, SameRefs DEF Good

(* Assigning tsx_user.                                                     *)
LEMMA UserKept ==
  ASSUME NEW t, Good(t), NEW b \in BOOLEAN
  PROVE  Kept(t, [t EXCEPT !.user = b])
<1> DEFINE u == [t EXCEPT !.user = b]
<1>1. t \in Transactions
  BY DEF Good
<1>2. u \in Transactions
  BY <1>1 DEF Transactions
<1>3. /\ u.refs = t.refs /\ u.heap = t.heap /\ u.out = t.out /\ u.live = t.live
      /\ u.reg = t.reg /\ u.role = t.role /\ u.state = t.state
  BY <1>1 DEF Transactions
<1> QED BY <1>2, <1>3, SameRefs DEF Good

(* Attaching or letting go of a transport.                                 *)
LEMMA TpKept ==
  ASSUME NEW t, Good(t), NEW b \in BOOLEAN
  PROVE  Kept(t, [t EXCEPT !.tp = b])
<1> DEFINE u == [t EXCEPT !.tp = b]
<1>1. t \in Transactions
  BY DEF Good
<1>2. u \in Transactions
  BY <1>1 DEF Transactions
<1>3. /\ u.refs = t.refs /\ u.heap = t.heap /\ u.out = t.out /\ u.live = t.live
      /\ u.reg = t.reg /\ u.role = t.role /\ u.state = t.state
  BY <1>1 DEF Transactions
<1> QED BY <1>2, <1>3, SameRefs DEF Good

(* Assigning pending_tx together with the flags.                           *)
LEMMA TxKept ==
  ASSUME NEW t, Good(t), NEW b \in BOOLEAN, NEW f \in SUBSET Flags
  PROVE  Kept(t, [t EXCEPT !.tx = b, !.flags = f])
<1> DEFINE u == [t EXCEPT !.tx = b, !.flags = f]
<1>1. t \in Transactions
  BY DEF Good
<1>2. u \in Transactions
  BY <1>1 DEF Transactions
<1>3. /\ u.refs = t.refs /\ u.heap = t.heap /\ u.out = t.out /\ u.live = t.live
      /\ u.reg = t.reg /\ u.role = t.role /\ u.state = t.state
  BY <1>1 DEF Transactions
<1> QED BY <1>2, <1>3, SameRefs DEF Good

(* Giving a message to the transport.                                      *)
LEMMA EmitKept ==
  ASSUME NEW t, Good(t), NEW m \in Msgs
  PROVE  Kept(t, Emit(t, m))
<1> DEFINE u == Emit(t, m)
<1>1. t \in Transactions
  BY DEF Good
<1>2. u \in Transactions
  BY <1>1 DEF Transactions, Emit
<1>3. /\ u.refs = t.refs /\ u.heap = t.heap /\ u.out = t.out /\ u.live = t.live
      /\ u.reg = t.reg /\ u.role = t.role /\ u.state = t.state
  BY <1>1 DEF Transactions, Emit
<1> QED BY <1>2, <1>3, SameRefs DEF Good

(* A status code and TERMINATED.                                           *)
LEMMA TerminateKept ==
  ASSUME NEW t, Good(t), NEW c \in Codes
  PROVE  Kept(t, Terminate(t, c))
<1>1. Kept(t, [t EXCEPT !.code = c])
  BY CodeKept
<1>2. TERMINATED \in Allowed(t.role) /\ [t EXCEPT !.code = c].role = t.role
  BY <1>1 DEF Allowed, TERMINATED, NULL, DESTROYED, CALLING, TRYING, CONFIRMED, Kept
<1>3. Kept([t EXCEPT !.code = c], Terminate(t, c))
  BY <1>1, <1>2, SetStateKept DEF Kept, Terminate
<1> QED BY <1>1, <1>3, KeptTrans

(* tsx_set_state_no_notify().                                              *)
LEMMA SetStateNoNotifyKept ==
  ASSUME NEW t, Good(t), NEW s \in Allowed(t.role)
  PROVE  Kept(t, SetStateNoNotify(t, s))
<1> DEFINE u == [t EXCEPT !.user = FALSE]
           v == SetState(u, s)
<1>1. Kept(t, u)
  BY UserKept
<1>2. Kept(u, v)
  BY <1>1, SetStateKept DEF Kept
<1>3. Good(v) /\ t.user \in BOOLEAN
  BY <1>2 DEF Kept, Good, Transactions
<1>4. Kept(v, [v EXCEPT !.user = t.user])
  BY <1>3, UserKept
<1> QED BY <1>1, <1>2, <1>4, KeptTrans DEF SetStateNoNotify

(* A send the transport answers later holds one reference until then.      *)
LEMMA SendOnTransportKept ==
  ASSUME NEW t, Good(t), NEW m \in Msgs, NEW o \in SendOnTransport(t, m)
  PROVE  Kept(t, o.t)
<1> DEFINE a == [t EXCEPT !.flags = @ \cup {"transport"}, !.out = @ + 1, !.refs = @ + 1]
<1>1. t \in Transactions
  BY DEF Good
<1>2. a \in Transactions
  <2>1. t.flags \cup {"transport"} \in SUBSET Flags /\ t.out + 1 \in Nat /\ t.refs + 1 \in Nat
    BY <1>1 DEF Transactions, Flags
  <2> QED BY <1>1, <2>1 DEF Transactions
<1>3. /\ a.refs = t.refs + 1 /\ a.heap = t.heap /\ a.out = t.out + 1 /\ a.live = t.live
      /\ a.reg = t.reg /\ a.role = t.role /\ a.state = t.state
  BY <1>1 DEF Transactions
<1>4. a.refs - Own(a) = t.refs - Own(t)
  BY <1>1, <1>3 DEF Transactions, Own, One
<1>5. Kept(t, a)
  BY <1>2, <1>3, <1>4, Balanced DEF Good
<1>6. Kept(t, Emit(t, m)) /\ Kept(a, Emit(a, m))
  BY <1>5, EmitKept DEF Kept
<1>7. o.t \in {Emit(t, m), Emit(a, m)}
  BY DEF SendOnTransport, Outcome
<1> QED BY <1>5, <1>6, <1>7, KeptTrans

(* A send error once the server is resolved.                               *)
LEMMA PermanentKept ==
  ASSUME NEW t, Good(t)
  PROVE  Kept(t, PermanentError(t).t)
<1> DEFINE u == [t EXCEPT !.tp = FALSE]
<1>1. Kept(t, u)
  BY TpKept
<1>2. Kept(u, Terminate(u, UNAVAILABLE))
  <2>1. UNAVAILABLE \in Codes /\ Good(u)
    BY <1>1 DEF Codes, Kept
  <2> QED BY <2>1, TerminateKept
<1>3. PermanentError(t).t = Terminate(u, UNAVAILABLE)
  BY DEF PermanentError, Outcome
<1> QED BY <1>1, <1>2, <1>3, KeptTrans

(* The message queued behind a pending send.                               *)
LEMMA SendQueuedKept ==
  ASSUME NEW t, Good(t), NEW u \in SendQueued(t)
  PROVE  Kept(t, u)
<1>1. CASE t.last = NoMsg
  BY <1>1, KeptRefl DEF SendQueued
<1>2. CASE t.last # NoMsg
  <2>1. t.last \in Msgs
    BY <1>2 DEF Good, Transactions
  <2>2. u = PermanentError(t).t \/ \E o \in SendOnTransport(t, t.last) : u = o.t
    BY <1>2 DEF SendQueued
  <2> QED BY <2>1, <2>2, PermanentKept, SendOnTransportKept
<1> QED BY <1>1, <1>2

(* The transport that send_msg_callback() attaches.                        *)
LEMMA FoundKept ==
  ASSUME NEW t, Good(t), NEW u \in Found(t)
  PROVE  Kept(t, u)
<1>1. PICK rel \in BOOLEAN : u = [t EXCEPT !.tp = TRUE, !.reliable = rel]
  BY DEF Found, Good, Transactions
<1>2. t \in Transactions
  BY DEF Good
<1>3. u \in Transactions
  BY <1>1, <1>2 DEF Transactions
<1>4. /\ u.refs = t.refs /\ u.heap = t.heap /\ u.out = t.out /\ u.live = t.live
      /\ u.reg = t.reg /\ u.role = t.role /\ u.state = t.state
  BY <1>1, <1>2 DEF Transactions
<1> QED BY <1>3, <1>4, SameRefs DEF Good

(* The same, when that transport may be dead already.                      *)
LEMMA AttachedKept ==
  ASSUME NEW t, Good(t), NEW u \in Attached(t)
  PROVE  Kept(t, u)
<1>1. PICK a : /\ \/ a \in Found(t)
                  \/ \E f \in Found(t) : a = PostTransportError(f)
               /\ u = [a EXCEPT !.tx = FALSE,
                                !.flags = (@ \ {"transport"}) \cup {"resolved"}]
  BY DEF Attached
<1>2. Kept(t, a)
  BY <1>1, FoundKept, PostKept, KeptTrans DEF Kept
<1>3. (a.flags \ {"transport"}) \cup {"resolved"} \in SUBSET Flags
  BY <1>2 DEF Kept, Good, Transactions, Flags
<1>4. Kept(a, u)
  BY <1>1, <1>2, <1>3, TxKept DEF Kept
<1> QED BY <1>2, <1>4, KeptTrans

(* The retransmission that waited for the transport.                       *)
LEMMA StartWaitingKept ==
  ASSUME NEW t, Good(t)
  PROVE  Kept(t, StartWaiting(t))
<1> DEFINE d == Drop(t, {"resched"})
<1>1. Kept(t, d) /\ Good(d)
  BY DropKept DEF Kept
<1>2. Kept(d, Retransmission(d))
  BY <1>1, RetransmissionKept
<1> QED BY <1>1, <1>2, KeptRefl, KeptTrans DEF StartWaiting

(* DESTROYED from within a send callback.                                  *)
LEMMA DestroyKept ==
  ASSUME NEW t, Good(t)
  PROVE  Kept(t, SetState(t, DESTROYED)) /\ Kept(t, SetState(t, TERMINATED))
<1>1. DESTROYED \in Allowed(t.role) /\ TERMINATED \in Allowed(t.role)
  BY DEF Allowed, TERMINATED, NULL, DESTROYED, CALLING, TRYING, CONFIRMED
<1> QED BY <1>1, SetStateKept

(* send_msg_callback() after a successful send.                            *)
LEMMA SentOkKept ==
  ASSUME NEW t, Good(t), NEW u \in SentOk(t)
  PROVE  Kept(t, u)
<1>1. PICK a \in Attached(t) :
        \/ u = SetState(a, DESTROYED)
        \/ \E b \in SendQueued(Drop(a, {"send"})) : u = StartWaiting(b)
        \/ u = StartWaiting(a)
  BY DEF SentOk
<1>2. Kept(t, a) /\ Good(a)
  BY AttachedKept DEF Kept
<1>3. CASE u = SetState(a, DESTROYED)
  BY <1>2, <1>3, DestroyKept, KeptTrans
<1>4. CASE u = StartWaiting(a)
  BY <1>2, <1>4, StartWaitingKept, KeptTrans
<1>5. ASSUME NEW b \in SendQueued(Drop(a, {"send"})), u = StartWaiting(b)
      PROVE  Kept(t, u)
  <2>1. Kept(a, Drop(a, {"send"})) /\ Good(Drop(a, {"send"}))
    BY <1>2, DropKept DEF Kept
  <2>2. Kept(Drop(a, {"send"}), b) /\ Good(b)
    BY <2>1, SendQueuedKept DEF Kept
  <2>3. Kept(b, u)
    BY <1>5, <2>2, StartWaitingKept
  <2> QED BY <1>2, <2>1, <2>2, <2>3, KeptTrans
<1> QED BY <1>1, <1>3, <1>4, <1>5

(* send_msg_callback() when no server is left.                             *)
LEMMA SentErrorKept ==
  ASSUME NEW t, Good(t)
  PROVE  Kept(t, SentError(t))
<1> DEFINE a == [t EXCEPT !.tx = FALSE, !.code = UNAVAILABLE,
                          !.flags = (@ \ {"transport"}) \cup {"resolved"}]
<1>1. t \in Transactions
  BY DEF Good
<1>2. a \in Transactions
  <2>1. UNAVAILABLE \in Codes
    BY DEF Codes
  <2>2. (t.flags \ {"transport"}) \cup {"resolved"} \in SUBSET Flags
    BY <1>1 DEF Transactions, Flags
  <2> QED BY <1>1, <2>1, <2>2 DEF Transactions
<1>3. /\ a.refs = t.refs /\ a.heap = t.heap /\ a.out = t.out /\ a.live = t.live
      /\ a.reg = t.reg /\ a.role = t.role /\ a.state = t.state
  BY <1>1 DEF Transactions
<1>4. Kept(t, a) /\ Good(a)
  BY <1>2, <1>3, SameRefs DEF Good, Kept
<1>5. Kept(a, SetState(a, DESTROYED)) /\ Kept(a, SetState(a, TERMINATED))
  BY <1>4, DestroyKept
<1>6. SentError(t) \in {SetState(a, TERMINATED), SetState(a, DESTROYED), a}
  BY DEF SentError
<1> QED BY <1>4, <1>5, <1>6, KeptTrans

(* send_msg_callback() with another server to try.                         *)
LEMMA SentNextKept ==
  ASSUME NEW t, Good(t)
  PROVE  Kept(t, SentNext(t))
<1> DEFINE a == [t EXCEPT !.tx = TRUE]
<1>1. t \in Transactions
  BY DEF Good
<1>2. a \in Transactions
  BY <1>1 DEF Transactions
<1>3. /\ a.refs = t.refs /\ a.heap = t.heap /\ a.out = t.out /\ a.live = t.live
      /\ a.reg = t.reg /\ a.role = t.role /\ a.state = t.state
  BY <1>1 DEF Transactions
<1>4. Kept(t, a) /\ Good(a)
  BY <1>2, <1>3, SameRefs DEF Good, Kept
<1>5. Kept(a, ResetTimeout(a, TIMEOUT_TIMER, "64T1"))
  BY <1>4, ResetKept DEF TIMEOUT_TIMER, Waits
<1>6. SentNext(t) \in {SentError(t), ResetTimeout(a, TIMEOUT_TIMER, "64T1"), a}
  BY DEF SentNext
<1> QED BY <1>4, <1>5, <1>6, SentErrorKept, KeptTrans

(* A stateless send that was taken, and one that was refused: the flag     *)
(* stays.                                                                  *)
Attempt(t, m) == Emit([t EXCEPT !.flags = @ \cup {"transport"}, !.tx = TRUE], m)
Refusal(t) == [t EXCEPT !.flags = @ \cup {"transport"}]

(* What may have become of it when the call returns, and what the call     *)
(* returns then.                                                           *)
LEMMA StatelessCases ==
  ASSUME NEW t, NEW m, NEW o \in SendStateless(t, m)
  PROVE  LET p == Attempt(t, m)
         IN  \/ /\ o.t \in {p, SentNext(p)} \/ o.t \in SentOk(p) \/ o.t \in SentOk(SentNext(p))
                /\ o.ok \/ o.t.state = TERMINATED
             \/ /\ "fail" \in Faults /\ o.t = SentError(p)
                /\ o.ok = (o.t.state # TERMINATED)
             \/ /\ "api" \in Faults /\ t.role = "UAC"
                /\ o.t = Refusal(t) /\ o.ok = FALSE
<1> DEFINE p == Attempt(t, m)
           Tries == {p} \cup (IF "next" \in Faults /\ t.role = "UAC"
                              THEN {SentNext(p)} ELSE {})
           Sent  == Tries \cup UNION {SentOk(r) : r \in Tries}
           U == UNION {{Outcome(q, ok) : ok \in Status(q)} : q \in Sent}
           L == Outcome(SentError(p), SentError(p).state # TERMINATED)
           R == Outcome(Refusal(t), FALSE)
<1>1. SendStateless(t, m) =
        U \cup (IF "fail" \in Faults THEN {L} ELSE {})
          \cup (IF "api" \in Faults /\ t.role = "UAC" THEN {R} ELSE {})
  BY DEF SendStateless, Attempt, Refusal
<1>2. \/ o \in U \/ (o = L /\ "fail" \in Faults)
      \/ o = R /\ "api" \in Faults /\ t.role = "UAC"
  <2> HIDE DEF U, L, R
  <2> QED BY <1>1
<1>3. CASE o \in U
  <2>1. PICK q \in Sent : o \in {Outcome(q, ok) : ok \in Status(q)}
    BY <1>3, Zenon
  <2>2. PICK ok \in Status(q) : o = Outcome(q, ok)
    BY <2>1, Zenon
  <2>3. o.t = q /\ o.ok = ok
    BY <2>2 DEF Outcome
  <2>4. ok = TRUE \/ q.state = TERMINATED
    BY <2>2 DEF Status
  <2>5. Tries \subseteq {p, SentNext(p)}
    OBVIOUS
  <2>6. q \in {p, SentNext(p)} \/ q \in SentOk(p) \/ q \in SentOk(SentNext(p))
    BY <2>5
  <2> QED BY <2>3, <2>4, <2>6
<1>4. CASE o = L /\ "fail" \in Faults
  <2>1. o.t = SentError(p) /\ o.ok = (SentError(p).state # TERMINATED)
    <3> HIDE DEF p
    <3> QED BY <1>4 DEF Outcome
  <2> HIDE DEF p
  <2> QED BY <1>4, <2>1 DEF p
<1>5. CASE o = R /\ "api" \in Faults /\ t.role = "UAC"
  BY <1>5 DEF Outcome
<1> QED BY <1>2, <1>3, <1>4, <1>5

LEMMA Sendings ==
  ASSUME NEW t, NEW m, NEW o \in SendStateless(t, m)
  PROVE  LET p == Attempt(t, m)
         IN  o.t \in {p, SentNext(p), SentError(p), Refusal(t)}
                    \cup SentOk(p) \cup SentOk(SentNext(p))
  BY StatelessCases

(* A stateless send, with its callback inside or outside the call.         *)
LEMMA SendStatelessKept ==
  ASSUME NEW t, Good(t), NEW m \in Msgs, NEW o \in SendStateless(t, m)
  PROVE  Kept(t, o.t)
<1> DEFINE q == [t EXCEPT !.flags = @ \cup {"transport"}, !.tx = TRUE]
           p == Attempt(t, m)
<1>1. t.flags \cup {"transport"} \in SUBSET Flags
  BY DEF Good, Transactions, Flags
<1>2. Kept(t, Refusal(t))
  BY <1>1, FlagsKept DEF Refusal
<1>3. Kept(t, q) /\ Good(q)
  <2>1. q = [t EXCEPT !.tx = TRUE, !.flags = t.flags \cup {"transport"}]
    BY DEF Good, Transactions
  <2>2. Kept(t, [t EXCEPT !.tx = TRUE, !.flags = t.flags \cup {"transport"}])
    BY <1>1, TxKept, Zenon
  <2> QED BY <2>1, <2>2 DEF Kept
<1>4. Kept(t, p) /\ Good(p)
  BY <1>3, EmitKept, KeptTrans DEF Kept, Attempt
<1>5. Kept(t, SentNext(p)) /\ Kept(t, SentError(p)) /\ Good(SentNext(p))
  BY <1>4, SentNextKept, SentErrorKept, KeptTrans DEF Kept
<1>6. o.t \in {p, SentNext(p), SentError(p), Refusal(t)} \cup SentOk(p) \cup SentOk(SentNext(p))
  BY Sendings
<1>7. ASSUME NEW r, Good(r), Kept(t, r), o.t \in SentOk(r)
      PROVE  Kept(t, o.t)
  BY <1>7, SentOkKept, KeptTrans
<1> QED BY <1>2, <1>4, <1>5, <1>6, <1>7

(* tsx_send_msg(), whichever way it goes.                                  *)
LEMMA SendMsgKept ==
  ASSUME NEW t, Good(t), NEW m \in Msgs, NEW o \in SendMsg(t, m)
  PROVE  Kept(t, o.t)
<1> DEFINE n == [t EXCEPT !.tp = FALSE]
           f == [t EXCEPT !.flags = @ \cup {"send"}]
<1>1. Kept(t, n) /\ Good(n)
  BY TpKept DEF Kept
<1>2. Kept(t, f)
  <2>1. t.flags \cup {"send"} \in SUBSET Flags
    BY DEF Good, Transactions, Flags
  <2> QED BY <2>1, FlagsKept
<1>3. \/ o.t = f \/ o.t = t \/ o.t = PermanentError(t).t
      \/ o \in SendOnTransport(t, m)
      \/ o \in SendStateless(n, m)
      \/ o \in SendStateless(t, m)
  BY DEF SendMsg, Outcome
<1>4. CASE o \in SendStateless(n, m)
  BY <1>1, <1>4, SendStatelessKept, KeptTrans
<1> QED BY <1>2, <1>3, <1>4, KeptRefl, PermanentKept, SendOnTransportKept,
           SendStatelessKept

(* tsx_retransmit().                                                       *)
LEMMA RetransmitKept ==
  ASSUME NEW t, Good(t), NEW resched \in BOOLEAN, NEW u \in Retransmit(t, resched)
  PROVE  Kept(t, u)
<1> DEFINE a == IF resched THEN StartRetransmission(t) ELSE t
<1>1. CASE (resched /\ "rt" \in t.heap) \/ t.last = NoMsg
  BY <1>1, KeptRefl DEF Retransmit
<1>2. CASE ~((resched /\ "rt" \in t.heap) \/ t.last = NoMsg)
  <2>1. Kept(t, a) /\ Good(a)
    BY KeptRefl, StartRetransmissionKept DEF Kept
  <2>2. a.last = t.last
    BY DEF StartRetransmission, Retransmission, ScheduleTimer, Good, Transactions
  <2>3. a.last \in Msgs
    BY <1>2, <2>2 DEF Good, Transactions
  <2>4. \E o \in SendMsg(a, a.last) : u = o.t
    BY <1>2 DEF Retransmit
  <2> QED BY <2>1, <2>3, <2>4, SendMsgKept, KeptTrans
<1> QED BY <1>1, <1>2

-----------------------------------------------------------------------------
(* The events a transaction of a role is given.                            *)
ValidEvent(r, ev) ==
    \/ /\ ev.type = "TX"
       /\ ev.msg \in IF r = "UAC" THEN {REQ} ELSE Responses
    \/ /\ ev.type = "RX"
       /\ ev.msg \in IF r = "UAC" THEN Responses ELSE {REQ, ACK}
    \/ /\ ev.type = "TIMER" /\ ev.entry \in Entries

(* Which states the role allows.                                           *)
LEMMA AllowedStates ==
  /\ \A r : {NULL, PROCEEDING, COMPLETED, TERMINATED, DESTROYED} \subseteq Allowed(r)
  /\ CALLING \in Allowed("UAC")
  /\ {TRYING, CONFIRMED} \subseteq Allowed("UAS")
  BY DEF Allowed, NULL, CALLING, TRYING, PROCEEDING, COMPLETED, CONFIRMED,
         TERMINATED, DESTROYED

(* The timers of a client and the state CALLING.                           *)
LEMMA StartedKept ==
  ASSUME NEW t, Good(t), t.role = "UAC"
  PROVE  Kept(t, Started(t))
<1> DEFINE b == ResetTimeout(t, TIMEOUT_TIMER, "64T1")
           c == IF b.reliable THEN b ELSE StartRetransmission(b)
<1>1. Kept(t, b) /\ Good(b)
  BY ResetKept DEF Kept, TIMEOUT_TIMER, Waits
<1>2. Kept(t, c) /\ Good(c) /\ c.role = "UAC"
  BY <1>1, StartRetransmissionKept, KeptTrans DEF Kept
<1>3. Kept(c, SetState(c, CALLING))
  BY <1>2, AllowedStates, SetStateKept
<1> QED BY <1>2, <1>3, KeptTrans DEF Started

(* tsx_on_state_null().                                                    *)
LEMMA OnStateNullKept ==
  ASSUME NEW t, Good(t), NEW ev, ValidEvent(t.role, ev), NEW u \in OnStateNull(t, ev)
  PROVE  Kept(t, u)
<1>1. CASE t.role = "UAS"
  BY <1>1, AllowedStates, SetStateKept DEF OnStateNull
<1>2. CASE t.role = "UAC" /\ ev.type = "TX"
  <2> DEFINE l == [t EXCEPT !.last = ev.msg]
  <2>1. ev.msg \in Msgs
    BY <1>2 DEF ValidEvent, Msgs
  <2>2. Kept(t, l) /\ Good(l) /\ l.role = "UAC"
    BY <1>2, <2>1, LastKept DEF Kept
  <2>3. PICK o \in SendMsg(l, ev.msg) : u = IF o.ok THEN Started(o.t) ELSE o.t
    BY <1>2 DEF OnStateNull
  <2>4. Kept(l, o.t)
    BY <2>1, <2>2, SendMsgKept
  <2>5. Kept(t, o.t) /\ Good(o.t) /\ o.t.role = "UAC"
    BY <2>2, <2>4, KeptTrans DEF Kept
  <2> QED BY <2>3, <2>5, StartedKept, KeptTrans
<1>3. CASE t.role # "UAS" /\ ~(t.role = "UAC" /\ ev.type = "TX")
  BY <1>3, KeptRefl DEF OnStateNull
<1> QED BY <1>1, <1>2, <1>3

(* COMPLETED after a rejection, with timer D or K.                         *)
LEMMA RejectedDoneKept ==
  ASSUME NEW t, Good(t), NEW m \in Msgs \cup {NoMsg}
  PROVE  Kept(t, RejectedDone(t, m))
<1> DEFINE n == SetState(t, COMPLETED)
           l == [n EXCEPT !.last = m]
<1>1. Kept(t, n) /\ Good(n)
  BY AllowedStates, SetStateKept DEF Kept
<1>2. Kept(n, l) /\ Good(l)
  BY <1>1, LastKept DEF Kept
<1>3. Linger(n) \in Waits
  BY DEF Linger, Waits
<1>4. Kept(l, ResetTimeout(l, TIMEOUT_TIMER, Linger(n)))
  BY <1>2, <1>3, ResetKept DEF TIMEOUT_TIMER
<1> QED BY <1>1, <1>2, <1>4, KeptTrans DEF RejectedDone

(* A rejection: the ACK, then COMPLETED unless its send failed.            *)
LEMMA RejectedKept ==
  ASSUME NEW t, Good(t), NEW u \in Rejected(t)
  PROVE  Kept(t, u)
<1> DEFINE c == CancelTimer(CancelTimer(t, "rt"), "to")
<1>1. Kept(t, CancelTimer(t, "rt")) /\ Good(CancelTimer(t, "rt"))
  BY CancelKept DEF Kept, Entries
<1>2. Kept(CancelTimer(t, "rt"), c) /\ Good(c)
  BY <1>1, CancelKept DEF Kept, Entries
<1>3. Kept(t, c)
  BY <1>1, <1>2, KeptTrans
<1>4. ACK \in Msgs /\ c.last \in Msgs \cup {NoMsg}
  BY <1>2 DEF Msgs, Good, Transactions
<1>5. CASE u = RejectedDone(c, c.last)
  BY <1>2, <1>3, <1>4, <1>5, RejectedDoneKept, KeptTrans
<1>6. ASSUME NEW o \in SendMsg(c, ACK), u \in {RejectedDone(o.t, ACK), o.t}
      PROVE  Kept(t, u)
  <2>1. Kept(c, o.t) /\ Good(o.t)
    BY <1>2, <1>4, SendMsgKept DEF Kept
  <2>2. Kept(o.t, RejectedDone(o.t, ACK))
    BY <1>4, <2>1, RejectedDoneKept
  <2> QED BY <1>3, <1>6, <2>1, <2>2, KeptTrans
<1>7. u = RejectedDone(c, c.last)
      \/ \E o \in SendMsg(c, ACK) : u \in {RejectedDone(o.t, ACK), o.t}
  BY DEF Rejected
<1> QED BY <1>5, <1>6, <1>7

(* The classes of the codes of the model.                                  *)
LEMMA ClassFacts ==
  \A m \in Msgs : Class(m) \in {1, 2} \/ Class(m) > 2 => m \in Responses
  BY DEF Msgs, Responses, Class, REQ, ACK

(* tsx_on_state_proceeding_uac().                                          *)
LEMMA OnStateProceedingUacKept ==
  ASSUME NEW t, Good(t), NEW ev, ValidEvent("UAC", ev),
         NEW u \in OnStateProceedingUac(t, ev)
  PROVE  Kept(t, u)
<1>1. CASE ev.type = "TIMER" /\ ev.entry = "rt"
  BY <1>1, RetransmitKept DEF OnStateProceedingUac
<1>2. CASE ev.type = "TIMER" /\ ev.entry = "to"
  <2>1. TIMEOUT \in Codes
    BY DEF Codes
  <2> QED BY <1>2, <2>1, TerminateKept DEF OnStateProceedingUac
<1>3. CASE ev.type = "RX"
  <2> DEFINE c == [t EXCEPT !.code = ev.msg]
             a == CancelTimer(c, "to")
             b == ScheduleTimer(a, "to", TIMEOUT_TIMER,
                                IF a.reliable THEN "zero" ELSE "T4")
  <2>1. ev.msg \in Codes
    BY <1>3 DEF ValidEvent, Codes
  <2>2. Kept(t, c) /\ Good(c)
    BY <2>1, CodeKept DEF Kept
  <2>3. Kept(c, SetState(c, PROCEEDING))
    BY <2>2, AllowedStates, SetStateKept
  <2>4. Kept(c, a) /\ Good(a)
    BY <2>2, CancelKept DEF Kept, Entries
  <2>5. Kept(a, SetState(a, TERMINATED))
    BY <2>4, DestroyKept
  <2>6. Kept(a, b) /\ Good(b)
    BY <2>4, ScheduleKept DEF Kept, Entries, TIMEOUT_TIMER, Waits
  <2>7. Kept(b, CancelTimer(b, "rt")) /\ Good(CancelTimer(b, "rt"))
    BY <2>6, CancelKept DEF Kept, Entries
  <2>8. Kept(CancelTimer(b, "rt"), SetState(CancelTimer(b, "rt"), COMPLETED))
    BY <2>7, AllowedStates, SetStateKept
  <2>9. \/ u \in {SetState(c, PROCEEDING), SetState(a, TERMINATED),
                  SetState(CancelTimer(b, "rt"), COMPLETED), t}
        \/ u \in Rejected(c)
    BY <1>3 DEF OnStateProceedingUac
  <2>10. u \in Rejected(c) => Kept(c, u)
    BY <2>2, RejectedKept
  <2>11. Kept(t, a) /\ Kept(t, CancelTimer(b, "rt"))
    BY <2>2, <2>4, <2>6, <2>7, KeptTrans
  <2> QED BY <2>2, <2>3, <2>5, <2>8, <2>9, <2>10, <2>11, KeptTrans, KeptRefl
<1>4. CASE ev.type = "TX"
  BY <1>4, KeptRefl DEF OnStateProceedingUac
<1> QED BY <1>1, <1>2, <1>3, <1>4 DEF ValidEvent, Entries

(* tsx_on_state_calling(), its call of the former included.                *)
LEMMA OnStateCallingKept ==
  ASSUME NEW t, Good(t), NEW ev, ValidEvent("UAC", ev),
         NEW u \in OnStateCalling(t, ev)
  PROVE  Kept(t, u)
<1> DEFINE c == CancelTimer(t, "rt")
<1>1. Kept(t, c) /\ Good(c)
  BY CancelKept DEF Kept, Entries
<1>2. CASE ev.type = "TIMER" /\ ev.entry = "rt"
  BY <1>2, RetransmitKept DEF OnStateCalling
<1>3. CASE ev.type = "TIMER" /\ ev.entry = "to"
  <2> DEFINE d == Drop(c, {"resched"})
  <2>1. Kept(c, d) /\ Good(d)
    BY <1>1, DropKept DEF Kept
  <2>2. TIMEOUT \in Codes
    BY DEF Codes
  <2>3. Kept(d, Terminate(d, TIMEOUT))
    BY <2>1, <2>2, TerminateKept
  <2> QED BY <1>1, <1>3, <2>1, <2>3, KeptTrans DEF OnStateCalling
<1>4. CASE ev.type = "RX"
  <2>1. PICK d : /\ d \in {c, CancelTimer(c, "to"), Retransmission(c)}
                 /\ u \in OnStateProceedingUac(Drop(d, {"resched"}), ev)
    BY <1>4 DEF OnStateCalling
  <2>2. Kept(c, d) /\ Good(d)
    BY <1>1, <2>1, KeptRefl, CancelKept, RetransmissionKept DEF Kept, Entries
  <2>3. Kept(d, Drop(d, {"resched"})) /\ Good(Drop(d, {"resched"}))
    BY <2>2, DropKept DEF Kept
  <2>4. Kept(Drop(d, {"resched"}), u)
    BY <2>1, <2>3, OnStateProceedingUacKept
  <2> QED BY <1>1, <2>2, <2>3, <2>4, KeptTrans
<1>5. CASE ev.type = "TX"
  BY <1>5, KeptRefl DEF OnStateCalling
<1> QED BY <1>2, <1>3, <1>4, <1>5 DEF ValidEvent, Entries

(* The answers of a UAS, by class.                                         *)
LEMMA ProvisionalKept ==
  ASSUME NEW t, Good(t), NEW m \in Msgs
  PROVE  Kept(t, Provisional(t, m))
<1> DEFINE l == [t EXCEPT !.last = m]
           n == SetState(l, PROCEEDING)
           c == CancelTimer(n, "rt")
<1>1. Kept(t, l) /\ Good(l)
  BY LastKept DEF Kept
<1>2. Kept(l, n) /\ Good(n)
  BY <1>1, AllowedStates, SetStateKept DEF Kept
<1>3. Kept(n, c) /\ Good(c)
  BY <1>2, CancelKept DEF Kept, Entries
<1>4. Kept(c, StartRetransmission(c))
  BY <1>3, StartRetransmissionKept
<1>5. Provisional(t, m) \in {n, StartRetransmission(c)}
  BY DEF Provisional
<1> QED BY <1>1, <1>2, <1>3, <1>4, <1>5, KeptTrans

(* Timer H or J is one of the waits.                                       *)
LEMMA FinalWaitType == \A t : FinalWait(t) \in Waits
  BY DEF FinalWait, Waits

(* A 2xx was sent.                                                         *)
LEMMA AcceptedKept ==
  ASSUME NEW t, Good(t), NEW m \in Msgs
  PROVE  Kept(t, Accepted(t, m))
<1> DEFINE c == CancelTimer(t, "rt")
           r == IF c.invite THEN StartRetransmission(c) ELSE c
           l == [r EXCEPT !.last = m]
           w == ResetTimeout(l, TIMEOUT_TIMER, FinalWait(r))
<1>1. Kept(t, c) /\ Good(c)
  BY CancelKept DEF Kept, Entries
<1>2. Kept(c, SetState(c, TERMINATED))
  BY <1>1, DestroyKept
<1>3. Kept(t, r) /\ Good(r)
  BY <1>1, StartRetransmissionKept, KeptTrans DEF Kept
<1>4. Kept(r, l) /\ Good(l)
  BY <1>3, LastKept DEF Kept
<1>5. Kept(l, w) /\ Good(w)
  <2>1. FinalWait(r) \in Waits /\ TIMEOUT_TIMER \in 0 .. 3
    BY FinalWaitType DEF TIMEOUT_TIMER
  <2> QED BY <1>4, <2>1, ResetKept, Zenon DEF Kept
<1>6. Kept(w, SetState(w, COMPLETED))
  BY <1>5, AllowedStates, SetStateKept
<1>7. Accepted(t, m) \in {SetState(c, TERMINATED), SetState(w, COMPLETED)}
  BY DEF Accepted
<1> QED BY <1>1, <1>2, <1>3, <1>4, <1>5, <1>6, <1>7, KeptTrans

(* A 3xx to 6xx was sent.                                                  *)
LEMMA RefusedKept ==
  ASSUME NEW t, Good(t), NEW m \in Msgs
  PROVE  Kept(t, Refused(t, m))
<1> DEFINE c == CancelTimer(t, "rt")
           l == [c EXCEPT !.last = m]
           r == ResetTimeout(l, TIMEOUT_TIMER, FinalWait(c))
           q == IF r.invite /\ ~r.reliable THEN StartRetransmission(r) ELSE r
<1>1. Kept(t, c) /\ Good(c)
  BY CancelKept DEF Kept, Entries
<1>2. Kept(c, l) /\ Good(l)
  BY <1>1, LastKept DEF Kept
<1>3. Kept(l, r) /\ Good(r)
  <2>1. FinalWait(c) \in Waits /\ TIMEOUT_TIMER \in 0 .. 3
    BY FinalWaitType DEF TIMEOUT_TIMER
  <2> QED BY <1>2, <2>1, ResetKept, Zenon DEF Kept
<1>4. Kept(r, q) /\ Good(q)
  BY <1>3, KeptRefl, StartRetransmissionKept DEF Kept
<1>5. Kept(q, SetState(q, COMPLETED))
  BY <1>4, AllowedStates, SetStateKept
<1>6. Kept(t, q)
  BY <1>1, <1>2, <1>3, <1>4, KeptTrans
<1> QED BY <1>5, <1>6, KeptTrans DEF Refused

(* The user sends a response.                                              *)
LEMMA RespondKept ==
  ASSUME NEW t, Good(t), NEW m \in Responses, NEW u \in Respond(t, m)
  PROVE  Kept(t, u)
<1>0. PICK l \in {NoMsg} \cup ({t.last} \cap {m}) :
         \E o \in SendMsg([t EXCEPT !.code = m, !.last = l], m) :
            u = IF o.ok THEN Responded(o.t, m) ELSE o.t
  BY DEF Respond
<1>1. PICK o \in SendMsg([t EXCEPT !.code = m, !.last = l], m) :
         u = IF o.ok THEN Responded(o.t, m) ELSE o.t
  BY <1>0
<1> DEFINE c == [t EXCEPT !.code = m]
           a == [c EXCEPT !.last = l]
<1>2. m \in Msgs /\ m \in Codes /\ l \in Msgs \cup {NoMsg}
  BY DEF Msgs, Codes
<1>3. Kept(t, c) /\ Good(c)
  BY <1>2, CodeKept DEF Kept
<1>4. Kept(c, a) /\ Good(a)
  BY <1>2, <1>3, LastKept DEF Kept
<1>5. a = [t EXCEPT !.code = m, !.last = l]
  BY DEF Good, Transactions
<1>6. Kept(a, o.t) /\ Good(o.t)
  BY <1>1, <1>2, <1>4, <1>5, SendMsgKept DEF Kept
<1>7. Kept(o.t, Responded(o.t, m))
  BY <1>2, <1>6, ProvisionalKept, AcceptedKept, RefusedKept DEF Responded
<1>8. Kept(t, o.t)
  BY <1>3, <1>4, <1>6, KeptTrans
<1> QED BY <1>1, <1>7, <1>8, KeptTrans

(* tsx_on_state_proceeding_uas().                                          *)
LEMMA OnStateProceedingUasKept ==
  ASSUME NEW t, Good(t), NEW ev, ValidEvent("UAS", ev),
         NEW u \in OnStateProceedingUas(t, ev)
  PROVE  Kept(t, u)
<1>1. CASE ev.type = "TIMER" /\ ev.entry = "rt"
  BY <1>1, RetransmitKept DEF OnStateProceedingUas
<1>2. CASE ev.type = "TIMER" /\ ev.entry = "to"
  <2>1. TIMEOUT \in Codes
    BY DEF Codes
  <2> QED BY <1>2, <2>1, TerminateKept DEF OnStateProceedingUas
<1>3. CASE ev.type = "RX" /\ t.last = NoMsg
  BY <1>3, KeptRefl DEF OnStateProceedingUas
<1>4. CASE ev.type = "RX" /\ t.last # NoMsg
  <2>1. t.last \in Msgs
    BY <1>4 DEF Good, Transactions
  <2> QED BY <1>4, <2>1, SendMsgKept DEF OnStateProceedingUas
<1>5. CASE ev.type = "TX"
  BY <1>5, RespondKept DEF OnStateProceedingUas, ValidEvent
<1> QED BY <1>1, <1>2, <1>3, <1>4, <1>5 DEF ValidEvent, Entries

(* tsx_on_state_trying().                                                  *)
LEMMA OnStateTryingKept ==
  ASSUME NEW t, Good(t), NEW ev, ValidEvent("UAS", ev), NEW u \in OnStateTrying(t, ev)
  PROVE  Kept(t, u)
  BY OnStateProceedingUasKept, KeptRefl DEF OnStateTrying

(* tsx_on_state_completed_uas().                                           *)
LEMMA OnStateCompletedUasKept ==
  ASSUME NEW t, Good(t), t.role = "UAS", NEW ev, NEW u \in OnStateCompletedUas(t, ev)
  PROVE  Kept(t, u)
<1>1. CASE \E b \in BOOLEAN : u \in Retransmit(t, b)
  BY <1>1, RetransmitKept
<1>2. CASE u = SetState(ResetTimeout(Drop(CancelTimer(t, "rt"), {"resched"}),
                                     TIMEOUT_TIMER, "T4"), CONFIRMED)
        \/ u = SetState(ResetTimeout(Drop(CancelTimer(t, "rt"), {"resched"}),
                                     TIMEOUT_TIMER, "zero"), CONFIRMED)
  <2>1. PICK w \in {"T4", "zero"} :
          u = SetState(ResetTimeout(Drop(CancelTimer(t, "rt"), {"resched"}),
                                    TIMEOUT_TIMER, w), CONFIRMED)
    BY <1>2
  <2> DEFINE c == CancelTimer(t, "rt")
             d == Drop(c, {"resched"})
             r == ResetTimeout(d, TIMEOUT_TIMER, w)
  <2>2. Kept(t, c) /\ Good(c)
    BY CancelKept DEF Kept, Entries
  <2>3. Kept(c, d) /\ Good(d)
    BY <2>2, DropKept DEF Kept
  <2>4. Kept(d, r) /\ Good(r)
    BY <2>3, ResetKept DEF Kept, TIMEOUT_TIMER, Waits
  <2>5. Kept(t, r) /\ r.role = "UAS"
    BY <2>2, <2>3, <2>4, KeptTrans DEF Kept
  <2>6. Kept(r, SetState(r, CONFIRMED))
    BY <2>4, <2>5, AllowedStates, SetStateKept
  <2> QED BY <2>1, <2>5, <2>6, KeptTrans
<1>3. Kept(t, Terminate(t, TIMEOUT)) /\ Kept(t, SetState(t, TERMINATED)) /\ Kept(t, t)
  <2>1. TIMEOUT \in Codes
    BY DEF Codes
  <2> QED BY <2>1, TerminateKept, DestroyKept, KeptRefl
<1> QED BY <1>1, <1>2, <1>3 DEF OnStateCompletedUas

(* tsx_on_state_completed_uac().                                           *)
LEMMA OnStateCompletedUacKept ==
  ASSUME NEW t, Good(t), NEW ev, NEW u \in OnStateCompletedUac(t, ev)
  PROVE  Kept(t, u)
  BY DestroyKept, RetransmitKept, KeptRefl DEF OnStateCompletedUac

(* Which handler the dispatch tables name for a state.                     *)
LEMMA Dispatch ==
  ASSUME NEW t, NEW ev
  PROVE  /\ t.state = NULL => StateHandler(t, ev) = OnStateNull(t, ev)
         /\ t.state = CALLING => StateHandler(t, ev) = OnStateCalling(t, ev)
         /\ t.state = TRYING => StateHandler(t, ev) = OnStateTrying(t, ev)
         /\ t.state = PROCEEDING /\ t.role = "UAC"
              => StateHandler(t, ev) = OnStateProceedingUac(t, ev)
         /\ t.state = PROCEEDING /\ t.role # "UAC"
              => StateHandler(t, ev) = OnStateProceedingUas(t, ev)
         /\ t.state = COMPLETED /\ t.role = "UAC"
              => StateHandler(t, ev) = OnStateCompletedUac(t, ev)
         /\ t.state = COMPLETED /\ t.role # "UAC"
              => StateHandler(t, ev) = OnStateCompletedUas(t, ev)
         /\ t.state = CONFIRMED => StateHandler(t, ev) = OnStateConfirmed(t, ev)
         /\ t.state = TERMINATED => StateHandler(t, ev) = OnStateTerminated(t, ev)
         /\ t.state = DESTROYED => StateHandler(t, ev) = {t}
  BY DEF StateHandler, NULL, CALLING, TRYING, PROCEEDING, COMPLETED, CONFIRMED,
         TERMINATED, DESTROYED

(* The dispatch of an event to the handler of the state keeps everything:  *)
(* this is the only lemma the proofs about the threads need for it.        *)
LEMMA StateHandlerKept ==
  ASSUME NEW t, Good(t), NEW ev, ValidEvent(t.role, ev), NEW u \in StateHandler(t, ev)
  PROVE  Kept(t, u)
<1>1. t.role \in {"UAC", "UAS"} /\ t.state \in NULL .. DESTROYED
  BY DEF Good, Transactions
<1>2. CASE t.state = NULL
  BY <1>2, Dispatch, OnStateNullKept
<1>3. CASE t.state = CALLING
  <2>1. t.role = "UAC"
    BY <1>1, <1>3 DEF Good, Allowed
  <2> QED BY <1>3, <2>1, Dispatch, OnStateCallingKept
<1>4. CASE t.state = TRYING
  <2>1. t.role = "UAS"
    BY <1>1, <1>4 DEF Good, Allowed
  <2> QED BY <1>4, <2>1, Dispatch, OnStateTryingKept
<1>5. CASE t.state = PROCEEDING
  <2>1. CASE t.role = "UAC"
    BY <1>5, <2>1, Dispatch, OnStateProceedingUacKept
  <2>2. CASE t.role = "UAS"
    BY <1>5, <2>2, Dispatch, OnStateProceedingUasKept
  <2> QED BY <1>1, <2>1, <2>2
<1>6. CASE t.state = COMPLETED
  <2>1. CASE t.role = "UAC"
    BY <1>6, <2>1, Dispatch, OnStateCompletedUacKept
  <2>2. CASE t.role = "UAS"
    BY <1>6, <2>2, Dispatch, OnStateCompletedUasKept
  <2> QED BY <1>1, <2>1, <2>2
<1>7. CASE t.state = CONFIRMED
  <2>1. u \in OnStateConfirmed(t, ev)
    BY <1>7, Dispatch
  <2> QED BY <2>1, DestroyKept, KeptRefl DEF OnStateConfirmed
<1>8. CASE t.state = TERMINATED
  <2>1. u \in OnStateTerminated(t, ev)
    BY <1>8, Dispatch
  <2> QED BY <2>1, DestroyKept, KeptRefl DEF OnStateTerminated
<1>9. CASE t.state = DESTROYED
  BY <1>9, Dispatch, KeptRefl
<1> QED BY <1>1, <1>2, <1>3, <1>4, <1>5, <1>6, <1>7, <1>8, <1>9
        DEF NULL, CALLING, TRYING, PROCEEDING, COMPLETED, CONFIRMED, TERMINATED,
            DESTROYED
-----------------------------------------------------------------------------
(* The status code.  From COMPLETED on it is a final one; and as the mark  *)
(* that a send is to destroy the transaction is set in the end only, a     *)
(* send cannot end a transaction that still waits for its final status.    *)
Ended(t) == /\ t.state >= COMPLETED => t.code >= 200
            /\ "destroy" \in t.flags => t.state >= TERMINATED

(* An operation that ends nothing without a status.                        *)
Safe(t, u) == /\ Ended(t) => Ended(u)
              /\ t.code >= 200 => u.code >= 200
              /\ t.code # 0 => u.code # 0
              /\ "destroy" \notin t.flags => "destroy" \notin u.flags

(* Safe as nothing of this is touched.                                     *)
Steady(t, u) == /\ u.state = t.state /\ u.code = t.code
                /\ "destroy" \in u.flags => "destroy" \in t.flags

(* What is steady is safe.                                                 *)
LEMMA SteadySafe == ASSUME NEW t, NEW u, Steady(t, u) PROVE Safe(t, u)
  BY DEF Steady, Safe, Ended

(* And safety follows the calls of one another.                            *)
LEMMA SafeTrans ==
  ASSUME NEW t, NEW u, NEW v, Safe(t, u), Safe(u, v) PROVE Safe(t, v)
  BY DEF Safe

(* Timers, flags and notifications.                                        *)
LEMMA TimersSteady ==
  ASSUME NEW t \in Transactions, NEW e, NEW i, NEW w
  PROVE  /\ Steady(t, CancelTimer(t, e)) /\ Steady(t, ScheduleTimer(t, e, i, w))
         /\ Steady(t, ResetTimeout(t, i, w)) /\ Steady(t, PostTransportError(t))
         /\ Steady(t, Retransmission(t)) /\ Steady(t, StartRetransmission(t))
         /\ Steady(t, Drop(t, e)) /\ Steady(t, Notify(t)) /\ Steady(t, Emit(t, e))
<1>1. Steady(t, CancelTimer(t, e)) /\ Steady(t, ScheduleTimer(t, e, i, w))
  BY DEF Steady, Transactions, CancelTimer, ScheduleTimer
<1>2. \A j, v : Steady(t, ResetTimeout(t, j, v))
  BY DEF Steady, Transactions, CancelTimer, ScheduleTimer, ResetTimeout
<1>3. Steady(t, Retransmission(t))
  BY DEF Steady, Transactions, ScheduleTimer, Retransmission
<1>4. Steady(t, StartRetransmission(t))
  BY <1>3 DEF Steady, Transactions, StartRetransmission
<1>5. Steady(t, Drop(t, e)) /\ Steady(t, Notify(t)) /\ Steady(t, Emit(t, e))
  BY DEF Steady, Transactions, Drop, Notify, Emit
<1> QED BY <1>1, <1>2, <1>3, <1>4, <1>5 DEF PostTransportError

(* tsx_set_state() leaves the status and, unless it destroys, the mark.    *)
LEMMA SetStateEffect ==
  ASSUME NEW t \in Transactions, NEW s \in NULL .. DESTROYED
  PROVE  /\ SetState(t, s).state = s /\ SetState(t, s).code = t.code
         /\ s # DESTROYED /\ "destroy" \in SetState(t, s).flags => "destroy" \in t.flags
<1> DEFINE n == Notify([t EXCEPT !.state = s])
           a == [n EXCEPT !.tx = @ /\ "transport" \notin n.flags, !.flags = @ \ {"transport"}]
           b == [n EXCEPT !.reg = FALSE]
           c == CancelTimer(CancelTimer(b, "to"), "rt")
<1>1. /\ n.state = s /\ n.code = t.code /\ n.flags = t.flags
      /\ DOMAIN n = DOMAIN t
  BY DEF Notify, Transactions
<1>2. CASE s = TERMINATED
  <2>1. SetState(t, s) = ResetTimeout(a, TIMEOUT_TIMER, "zero")
    <3>1. EnterTerminated(n) = ResetTimeout(a, TIMEOUT_TIMER, "zero")
      BY Zenon DEF EnterTerminated
    <3> HIDE DEF n
    <3>2. SetState(t, s) = CASE s = TERMINATED -> EnterTerminated(n)
                             [] s = DESTROYED  -> EnterDestroyed(n)
                             [] OTHER          -> n
      BY Zenon DEF SetState, n
    <3>3. SetState(t, s) = EnterTerminated(n)
      BY <1>2, <3>2 DEF TERMINATED, DESTROYED
    <3> QED BY <3>1, <3>3 DEF n
  <2>2. a.state = s /\ a.code = t.code /\ a.flags \subseteq t.flags
    BY <1>1 DEF Notify, Transactions
  <2>3. Steady(a, ResetTimeout(a, TIMEOUT_TIMER, "zero"))
    BY DEF Steady, Transactions, CancelTimer, ScheduleTimer, ResetTimeout, Notify
  <2> HIDE DEF a
  <2> QED BY <1>2, <2>1, <2>2, <2>3 DEF Steady
<1>3. CASE s = DESTROYED
  <2>1. SetState(t, s) = Shutdown(b)
    BY <1>3 DEF SetState, EnterDestroyed, TERMINATED, DESTROYED
  <2>2. Shutdown(b).state = s /\ Shutdown(b).code = t.code
    BY DEF Shutdown, Notify, Transactions, CancelTimer
  <2> QED BY <1>3, <2>1, <2>2
<1>4. CASE s # TERMINATED /\ s # DESTROYED
  BY <1>1, <1>4 DEF SetState
<1> QED BY <1>2, <1>3, <1>4

(* An end with a final status.                                             *)
LEMMA TerminateSafe ==
  ASSUME NEW t, Good(t), NEW c \in {TIMEOUT, UNAVAILABLE}
  PROVE  Safe(t, Terminate(t, c)) /\ Ended(Terminate(t, c))
<1> DEFINE a == [t EXCEPT !.code = c]
<1>1. a \in Transactions /\ a.code = c /\ a.flags = t.flags /\ c >= 200
  BY DEF Good, Transactions, Codes, TIMEOUT, UNAVAILABLE
<1>2. /\ Terminate(t, c).state = TERMINATED /\ Terminate(t, c).code = c
      /\ "destroy" \in Terminate(t, c).flags => "destroy" \in t.flags
  <2>1. Terminate(t, c) = SetState(a, TERMINATED) /\ TERMINATED \in NULL .. DESTROYED
    BY DEF Terminate, TERMINATED, NULL, DESTROYED
  <2>2. TERMINATED # DESTROYED
    BY DEF TERMINATED, DESTROYED
  <2> HIDE DEF a
  <2> QED BY <1>1, <2>1, <2>2, SetStateEffect
<1> QED BY <1>1, <1>2 DEF Safe, Ended, TERMINATED

(* A permanent error of a send terminates with its status.                 *)
LEMMA PermanentSafe ==
  ASSUME NEW t, Good(t)
  PROVE  Safe(t, PermanentError(t).t)
<1> DEFINE u == [t EXCEPT !.tp = FALSE]
<1>1. Good(u) /\ Safe(t, u)
  <2>1. Steady(t, u)
    BY DEF Steady, Good, Transactions
  <2> QED BY <2>1, TpKept, SteadySafe DEF Kept
<1>2. PermanentError(t).t = Terminate(u, UNAVAILABLE)
  BY DEF PermanentError, Outcome
<1> QED BY <1>1, <1>2, TerminateSafe, SafeTrans

(* A send on the transaction's transport.                                  *)
LEMMA SendOnTransportSteady ==
  ASSUME NEW t, Good(t), NEW m, NEW o \in SendOnTransport(t, m)
  PROVE  Steady(t, o.t)
<1> DEFINE a == [t EXCEPT !.flags = @ \cup {"transport"}, !.out = @ + 1, !.refs = @ + 1]
<1>1. o.t \in {Emit(t, m), Emit(a, m)}
  BY DEF SendOnTransport, Outcome
<1>2. Steady(t, Emit(t, m)) /\ Steady(t, Emit(a, m))
  BY DEF Good, Transactions, Steady, Emit
<1> QED BY <1>1, <1>2

(* The message that was queued behind a send.                              *)
LEMMA SendQueuedSafe ==
  ASSUME NEW t, Good(t), NEW u \in SendQueued(t)
  PROVE  Safe(t, u)
<1>1. ASSUME NEW o \in SendOnTransport(t, t.last)
      PROVE  Steady(t, o.t)
  BY SendOnTransportSteady
<1>2. u = t \/ u = PermanentError(t).t \/ \E o \in SendOnTransport(t, t.last) : u = o.t
  BY DEF SendQueued
<1>3. Safe(t, t)
  BY DEF Safe
<1> QED BY <1>1, <1>2, <1>3, PermanentSafe, SteadySafe

(* The transport that a send has found.                                    *)
LEMMA AttachedSteady ==
  ASSUME NEW t, Good(t), NEW u \in Attached(t)
  PROVE  Steady(t, u)
<1>1. PICK a : /\ \/ a \in Found(t)
                  \/ \E f \in Found(t) : a = PostTransportError(f)
               /\ u = [a EXCEPT !.tx = FALSE,
                                !.flags = (@ \ {"transport"}) \cup {"resolved"}]
  BY DEF Attached
<1>2. ASSUME NEW f \in Found(t)
      PROVE  f \in Transactions /\ Steady(t, f)
  <2>1. PICK rel \in BOOLEAN : f = [t EXCEPT !.tp = TRUE, !.reliable = rel]
    BY DEF Found, Good, Transactions
  <2> QED BY <2>1, FoundKept DEF Kept, Good, Transactions, Steady
<1>3. a \in Transactions /\ Steady(t, a)
  <2>1. CASE a \in Found(t)
    BY <1>2, <2>1
  <2>2. ASSUME NEW f \in Found(t), a = PostTransportError(f)
        PROVE  a \in Transactions /\ Steady(t, a)
    <3>1. Good(f)
      BY FoundKept DEF Kept
    <3>2. a \in Transactions /\ Steady(f, a)
      BY <2>2, <3>1, PostKept, TimersSteady DEF Kept, Good
    <3> QED BY <1>2, <3>2 DEF Steady
  <2> QED BY <1>1, <2>1, <2>2
<1> QED BY <1>1, <1>3 DEF Steady, Transactions

(* The retransmission that waited for the send.                            *)
LEMMA StartWaitingSteady ==
  ASSUME NEW t, Good(t)
  PROVE  Steady(t, StartWaiting(t))
<1> DEFINE d == Drop(t, {"resched"})
<1>1. Steady(t, d) /\ d \in Transactions
  BY DropKept, TimersSteady DEF Good, Kept
<1>2. Steady(d, Retransmission(d))
  BY <1>1, TimersSteady
<1>3. StartWaiting(t) \in {t, d, Retransmission(d)}
  BY DEF StartWaiting
<1> QED BY <1>1, <1>2, <1>3 DEF Steady

(* send_msg_callback() destroys only what bears the mark.                  *)
LEMMA SentOkSafe ==
  ASSUME NEW t, Good(t), NEW u \in SentOk(t)
  PROVE  Safe(t, u)
<1>1. PICK a \in Attached(t) :
        \/ "destroy" \in a.flags /\ u = SetState(a, DESTROYED)
        \/ \E b \in SendQueued(Drop(a, {"send"})) : u = StartWaiting(b)
        \/ u = StartWaiting(a)
  BY DEF SentOk
<1>2. Good(a) /\ a \in Transactions /\ Steady(t, a) /\ Safe(t, a)
  BY AttachedKept, AttachedSteady, SteadySafe DEF Kept, Good
<1>3. CASE "destroy" \in a.flags /\ u = SetState(a, DESTROYED)
  <2>1. u.state = DESTROYED /\ u.code = t.code /\ "destroy" \in t.flags
    BY <1>2, <1>3, SetStateEffect DEF Steady, NULL, DESTROYED
  <2> QED BY <2>1 DEF Safe, Ended, DESTROYED, TERMINATED, COMPLETED, Good, Transactions
<1>4. CASE u = StartWaiting(a)
  BY <1>2, <1>4, StartWaitingSteady, SteadySafe, SafeTrans
<1>5. ASSUME NEW b \in SendQueued(Drop(a, {"send"})), u = StartWaiting(b)
      PROVE  Safe(t, u)
  <2>1. Good(Drop(a, {"send"})) /\ Safe(a, Drop(a, {"send"}))
    BY <1>2, DropKept, TimersSteady, SteadySafe DEF Kept
  <2>2. Good(b) /\ Safe(Drop(a, {"send"}), b)
    BY <2>1, SendQueuedKept, SendQueuedSafe DEF Kept
  <2>3. Safe(b, u)
    BY <1>5, <2>2, StartWaitingSteady, SteadySafe
  <2> QED BY <1>2, <2>1, <2>2, <2>3, SafeTrans
<1> QED BY <1>1, <1>3, <1>4, <1>5

(* And when it fails it gives the status of the failure first.             *)
LEMMA SentErrorSafe ==
  ASSUME NEW t, Good(t)
  PROVE  Safe(t, SentError(t))
<1> DEFINE a == [t EXCEPT !.tx = FALSE, !.code = UNAVAILABLE,
                          !.flags = (@ \ {"transport"}) \cup {"resolved"}]
           u == SentError(t)
<1>1. a \in Transactions
  <2>1. UNAVAILABLE \in Codes
    BY DEF Codes
  <2>2. (t.flags \ {"transport"}) \cup {"resolved"} \in SUBSET Flags
    BY DEF Good, Transactions, Flags
  <2> QED BY <2>1, <2>2 DEF Good, Transactions
<1>2. /\ a.code = 503 /\ a.state = t.state /\ t.state \in NULL .. DESTROYED
      /\ "destroy" \in a.flags <=> "destroy" \in t.flags
  BY DEF Good, Transactions, UNAVAILABLE
<1>3. u = IF a.state < TERMINATED THEN SetState(a, TERMINATED)
          ELSE IF "destroy" \in a.flags THEN SetState(a, DESTROYED) ELSE a
  BY DEF SentError
<1> HIDE DEF a, u
<1>4. CASE a.state < TERMINATED
  <2>1. u.state = TERMINATED /\ u.code = 503 /\ ("destroy" \in u.flags => "destroy" \in t.flags)
    BY <1>1, <1>2, <1>3, <1>4, SetStateEffect DEF NULL, TERMINATED, DESTROYED
  <2> QED BY <2>1 DEF Safe, Ended, TERMINATED, u
<1>5. CASE ~(a.state < TERMINATED) /\ "destroy" \in a.flags
  <2>1. u.state = DESTROYED /\ u.code = 503
    BY <1>1, <1>2, <1>3, <1>5, SetStateEffect DEF NULL, TERMINATED, DESTROYED
  <2> QED BY <1>2, <1>5, <2>1 DEF Safe, Ended, TERMINATED, DESTROYED, u
<1>6. CASE ~(a.state < TERMINATED) /\ "destroy" \notin a.flags
  <2>1. u.state = t.state /\ u.code = 503 /\ "destroy" \notin u.flags
    BY <1>2, <1>3, <1>6
  <2> QED BY <1>2, <1>6, <2>1 DEF Safe, Ended, u
<1> QED BY <1>4, <1>5, <1>6

(* Another server is tried, unless the transaction is to be destroyed.     *)
LEMMA SentNextSafe ==
  ASSUME NEW t, Good(t)
  PROVE  Safe(t, SentNext(t))
<1> DEFINE a == [t EXCEPT !.tx = TRUE]
<1>1. a \in Transactions /\ Steady(t, a)
  BY DEF Good, Transactions, Steady
<1>2. Steady(a, ResetTimeout(a, TIMEOUT_TIMER, "64T1"))
  BY <1>1, TimersSteady
<1>3. SentNext(t) \in {SentError(t), ResetTimeout(a, TIMEOUT_TIMER, "64T1"), a}
  BY DEF SentNext
<1>4. Safe(t, a) /\ Safe(a, ResetTimeout(a, TIMEOUT_TIMER, "64T1")) /\ Safe(t, SentError(t))
  BY <1>1, <1>2, SentErrorSafe, SteadySafe
<1> HIDE DEF a
<1> QED BY <1>3, <1>4, SafeTrans

(* A send, whichever way it goes.                                          *)
LEMMA SendStatelessSafe ==
  ASSUME NEW t, Good(t), NEW m \in Msgs, NEW o \in SendStateless(t, m)
  PROVE  Safe(t, o.t)
<1> DEFINE p == Attempt(t, m)
<1>1. Good(p)
  <2>1. t.flags \cup {"transport"} \in SUBSET Flags
    BY DEF Good, Transactions, Flags
  <2>2. Good([t EXCEPT !.tx = TRUE, !.flags = t.flags \cup {"transport"}])
    BY <2>1, TxKept, Zenon DEF Kept
  <2>3. p = Emit([t EXCEPT !.tx = TRUE, !.flags = t.flags \cup {"transport"}], m)
    BY DEF Good, Transactions, Attempt
  <2> QED BY <2>2, <2>3, EmitKept DEF Kept
<1>2. Safe(t, p) /\ Safe(t, Refusal(t))
  <2>1. Steady(t, p) /\ Steady(t, Refusal(t))
    BY DEF Steady, Attempt, Refusal, Emit, Good, Transactions
  <2> QED BY <2>1, SteadySafe
<1>3. Safe(t, SentNext(p)) /\ Safe(t, SentError(p)) /\ Good(SentNext(p))
  BY <1>1, <1>2, SentNextKept, SentNextSafe, SentErrorSafe, SafeTrans DEF Kept
<1>4. o.t \in {p, SentNext(p), SentError(p), Refusal(t)} \cup SentOk(p) \cup SentOk(SentNext(p))
  BY Sendings
<1>5. ASSUME NEW r, Good(r), Safe(t, r), o.t \in SentOk(r)
      PROVE  Safe(t, o.t)
  BY <1>5, SentOkSafe, SafeTrans
<1> QED BY <1>1, <1>2, <1>3, <1>4, <1>5

(* tsx_send_msg(), on the transport or without one.                        *)
LEMMA SendMsgSafe ==
  ASSUME NEW t, Good(t), NEW m \in Msgs, NEW o \in SendMsg(t, m)
  PROVE  Safe(t, o.t)
<1> DEFINE n == [t EXCEPT !.tp = FALSE]
           f == [t EXCEPT !.flags = @ \cup {"send"}]
<1>1. Safe(t, n) /\ Safe(t, f) /\ Safe(t, t) /\ Good(n)
  <2>1. Steady(t, n) /\ Steady(t, f) /\ Steady(t, t)
    BY DEF Steady, Good, Transactions
  <2> QED BY <2>1, TpKept, SteadySafe DEF Kept
<1>2. \/ o.t = f \/ o.t = t \/ o.t = PermanentError(t).t
      \/ o \in SendOnTransport(t, m)
      \/ o \in SendStateless(n, m)
      \/ o \in SendStateless(t, m)
  BY DEF SendMsg, Outcome
<1>3. CASE o \in SendOnTransport(t, m)
  BY <1>3, SendOnTransportSteady, SteadySafe
<1>4. CASE o \in SendStateless(n, m)
  BY <1>1, <1>4, SendStatelessSafe, SafeTrans
<1> QED BY <1>1, <1>2, <1>3, <1>4, PermanentSafe, SendStatelessSafe

(* tsx_retransmit().                                                       *)
LEMMA RetransmitSafe ==
  ASSUME NEW t, Good(t), NEW resched \in BOOLEAN, NEW u \in Retransmit(t, resched)
  PROVE  Safe(t, u)
<1> DEFINE a == IF resched THEN StartRetransmission(t) ELSE t
<1>1. Safe(t, t)
  BY DEF Safe
<1>2. CASE (resched /\ "rt" \in t.heap) \/ t.last = NoMsg
  BY <1>1, <1>2 DEF Retransmit
<1>3. CASE ~((resched /\ "rt" \in t.heap) \/ t.last = NoMsg)
  <2>1. Good(a) /\ Safe(t, a)
    BY <1>1, StartRetransmissionKept, TimersSteady, SteadySafe DEF Kept, Good
  <2>2. a.last = t.last
    BY DEF StartRetransmission, Retransmission, ScheduleTimer, Good, Transactions
  <2>3. a.last \in Msgs
    BY <1>3, <2>2 DEF Good, Transactions
  <2>4. \E o \in SendMsg(a, a.last) : u = o.t
    BY <1>3 DEF Retransmit
  <2> QED BY <2>1, <2>3, <2>4, SendMsgSafe, SafeTrans
<1> QED BY <1>2, <1>3

(* A change of state, to a final one with a final status only.             *)
LEMMA MoveEnded ==
  ASSUME NEW t \in Transactions, NEW s \in NULL .. DESTROYED,
         s >= COMPLETED => t.code >= 200, s < TERMINATED => "destroy" \notin t.flags
  PROVE  Ended(SetState(t, s))
<1>1. s < TERMINATED \/ s >= TERMINATED
  BY DEF TERMINATED, NULL, DESTROYED
<1>2. s < TERMINATED => s # DESTROYED
  BY DEF TERMINATED, DESTROYED
<1> QED BY <1>1, <1>2, SetStateEffect DEF Ended

(* The states by their names.                                              *)
LEMMA StatesTyped ==
  {NULL, CALLING, TRYING, PROCEEDING, COMPLETED, CONFIRMED, TERMINATED, DESTROYED}
    = NULL .. DESTROYED
  BY DEF NULL, CALLING, TRYING, PROCEEDING, COMPLETED, CONFIRMED, TERMINATED, DESTROYED

(* Before the end the mark is not set.                                     *)
LEMMA Unmarked ==
  ASSUME NEW t \in Transactions, Ended(t), t.state < TERMINATED
  PROVE  "destroy" \notin t.flags
  BY DEF Ended, Transactions, NULL, DESTROYED, TERMINATED

(* The first event starts a transaction, or fails and ends it with a       *)
(* status.                                                                 *)
LEMMA OnStateNullEnded ==
  ASSUME NEW t, Good(t), Ended(t), t.state = NULL, NEW ev, ValidEvent(t.role, ev),
         NEW u \in OnStateNull(t, ev)
  PROVE  Ended(u)
<1>1. "destroy" \notin t.flags
  BY Unmarked DEF NULL, TERMINATED, Good
<1>2. CASE t.role = "UAS"
  <2>1. u = SetState(t, TRYING)
    BY <1>2 DEF OnStateNull
  <2> QED BY <1>1, <2>1, MoveEnded, StatesTyped DEF TRYING, COMPLETED, Good
<1>3. CASE t.role = "UAC" /\ ev.type = "TX"
  <2> DEFINE l == [t EXCEPT !.last = ev.msg]
  <2>1. ev.msg \in Msgs
    BY <1>3 DEF ValidEvent, Msgs
  <2>2. Good(l) /\ Steady(t, l)
    BY <1>3, <2>1, LastKept DEF Kept, Steady, Good, Transactions
  <2>3. PICK o \in SendMsg(l, ev.msg) : u = IF o.ok THEN Started(o.t) ELSE o.t
    BY <1>3 DEF OnStateNull
  <2>4. Good(o.t) /\ Safe(t, o.t)
    BY <2>1, <2>2, <2>3, SendMsgKept, SendMsgSafe, SteadySafe, SafeTrans DEF Kept
  <2>5. Ended(o.t) /\ "destroy" \notin o.t.flags
    BY <1>1, <2>4 DEF Safe
  <2> DEFINE b == ResetTimeout(o.t, TIMEOUT_TIMER, "64T1")
             c == IF b.reliable THEN b ELSE StartRetransmission(b)
  <2>6. Steady(o.t, b)
    <3>1. o.t \in Transactions
      BY <2>4 DEF Good
    <3> QED BY <3>1, TimersSteady
  <2>7. Good(b)
    BY <2>4, ResetKept DEF Kept, TIMEOUT_TIMER, Waits
  <2>8. Good(c) /\ Steady(b, c)
    <3>1. b \in Transactions
      BY <2>7 DEF Good
    <3> QED BY <2>7, <3>1, TimersSteady, StartRetransmissionKept DEF Kept, Steady
  <2>9. Started(o.t) = SetState(c, CALLING)
    BY DEF Started
  <2>10. "destroy" \notin c.flags
    BY <2>5, <2>6, <2>8 DEF Steady
  <2> HIDE DEF c
  <2>11. Ended(Started(o.t))
    BY <2>8, <2>9, <2>10, MoveEnded, StatesTyped DEF CALLING, COMPLETED, Good
  <2> QED BY <2>3, <2>5, <2>11
<1>4. CASE t.role # "UAS" /\ ~(t.role = "UAC" /\ ev.type = "TX")
  BY <1>4 DEF OnStateNull
<1> QED BY <1>2, <1>3, <1>4

(* A rejection has its status before the ACK goes out.                     *)
LEMMA RejectedDoneEnded ==
  ASSUME NEW t, Good(t), t.code >= 200, "destroy" \notin t.flags,
         NEW m \in Msgs \cup {NoMsg}
  PROVE  Ended(RejectedDone(t, m))
<1> DEFINE n == SetState(t, COMPLETED)
           l == [n EXCEPT !.last = m]
<1>1. Good(n) /\ Good(l)
  BY AllowedStates, SetStateKept, LastKept DEF Kept
<1>2. n.state = COMPLETED /\ n.code = t.code /\ "destroy" \notin n.flags
  BY StatesTyped, SetStateEffect DEF Good, COMPLETED, DESTROYED
<1>3. Steady(n, l)
  BY <1>1 DEF Steady, Good, Transactions
<1>4. Steady(l, ResetTimeout(l, TIMEOUT_TIMER, Linger(n)))
  BY <1>1, TimersSteady DEF Good
<1>5. RejectedDone(t, m) = ResetTimeout(l, TIMEOUT_TIMER, Linger(n))
  BY DEF RejectedDone
<1> HIDE DEF n, l
<1> QED BY <1>2, <1>3, <1>4, <1>5 DEF Ended, Steady

(* The ACK may fail, which ends it with another final status.              *)
LEMMA RejectedEnded ==
  ASSUME NEW t, Good(t), Ended(t), t.code >= 200, "destroy" \notin t.flags,
         NEW u \in Rejected(t)
  PROVE  Ended(u)
<1> DEFINE b == CancelTimer(t, "rt")
           c == CancelTimer(b, "to")
<1>1. Good(b) /\ Good(c) /\ Steady(t, b) /\ Steady(b, c)
  BY CancelKept, TimersSteady DEF Kept, Entries, Good
<1>2. Safe(t, c)
  BY <1>1, SteadySafe, SafeTrans
<1>3. ACK \in Msgs /\ c.last \in Msgs \cup {NoMsg}
  BY <1>1 DEF Msgs, Good, Transactions
<1>4. u = RejectedDone(c, c.last)
      \/ \E o \in SendMsg(c, ACK) : u \in {RejectedDone(o.t, ACK), o.t}
  BY DEF Rejected
<1> HIDE DEF b, c
<1>5. CASE u = RejectedDone(c, c.last)
  BY <1>1, <1>2, <1>3, <1>5, RejectedDoneEnded DEF Safe
<1>6. ASSUME NEW o \in SendMsg(c, ACK), u \in {RejectedDone(o.t, ACK), o.t}
      PROVE  Ended(u)
  <2>1. Good(o.t) /\ Safe(t, o.t)
    BY <1>1, <1>2, <1>3, SendMsgKept, SendMsgSafe, SafeTrans DEF Kept
  <2>2. Ended(RejectedDone(o.t, ACK))
    BY <1>3, <2>1, RejectedDoneEnded DEF Safe
  <2> QED BY <1>6, <2>1, <2>2 DEF Safe
<1> QED BY <1>4, <1>5, <1>6

(* A response moves a UAC with its code, and a timeout ends it with 408.   *)
LEMMA OnStateProceedingUacEnded ==
  ASSUME NEW t, Good(t), Ended(t), t.state < COMPLETED, NEW ev, ValidEvent("UAC", ev),
         NEW u \in OnStateProceedingUac(t, ev)
  PROVE  Ended(u)
<1>0. "destroy" \notin t.flags
  BY Unmarked DEF COMPLETED, TERMINATED, Good, Transactions, NULL, DESTROYED
<1>1. CASE ev.type = "TIMER" /\ ev.entry = "rt"
  BY <1>1, RetransmitSafe DEF OnStateProceedingUac, Safe
<1>2. CASE ev.type = "TIMER" /\ ev.entry = "to"
  BY <1>2, TerminateSafe DEF OnStateProceedingUac
<1>3. CASE ev.type = "RX"
  <2> DEFINE c == [t EXCEPT !.code = ev.msg]
             a == CancelTimer(c, "to")
             b == ScheduleTimer(a, "to", TIMEOUT_TIMER,
                                IF a.reliable THEN "zero" ELSE "T4")
             d == CancelTimer(b, "rt")
  <2>1. ev.msg \in Codes /\ ev.msg \in Responses
    BY <1>3 DEF ValidEvent, Codes
  <2>2. Good(c) /\ c.code = ev.msg /\ c.state = t.state /\ "destroy" \notin c.flags
    BY <1>0, <2>1, CodeKept DEF Kept, Good, Transactions
  <2>3. Good(a) /\ Steady(c, a)
    BY <2>2, CancelKept, TimersSteady DEF Kept, Entries, Good
  <2>4. Good(b) /\ Steady(a, b)
    BY <2>3, ScheduleKept, TimersSteady DEF Kept, Entries, TIMEOUT_TIMER, Waits, Good
  <2>5. Good(d) /\ Steady(b, d)
    BY <2>4, CancelKept, TimersSteady DEF Kept, Entries, Good
  <2>6. \/ u = SetState(c, PROCEEDING)
        \/ Class(ev.msg) = 2 /\ u \in {SetState(a, TERMINATED), SetState(d, COMPLETED)}
        \/ Class(ev.msg) > 2 /\ u \in Rejected(c)
        \/ u = t
    BY <1>3 DEF OnStateProceedingUac
  <2>7. Class(ev.msg) >= 2 => ev.msg >= 200
    BY <2>1 DEF Responses, Class
  <2>8. CASE u = SetState(c, PROCEEDING)
    <3> HIDE DEF c
    <3>1. c \in Transactions /\ ~(PROCEEDING >= COMPLETED)
      BY <2>2 DEF Good, PROCEEDING, COMPLETED
    <3> QED BY <2>2, <2>8, <3>1, MoveEnded, StatesTyped
  <2>9. CASE Class(ev.msg) = 2 /\ u \in {SetState(a, TERMINATED), SetState(d, COMPLETED)}
    <3>1. /\ a \in Transactions /\ a.code >= 200 /\ "destroy" \notin a.flags
          /\ d \in Transactions /\ d.code >= 200 /\ "destroy" \notin d.flags
      BY <2>2, <2>3, <2>4, <2>5, <2>7, <2>9 DEF Steady, Good
    <3> HIDE DEF a, d
    <3> QED BY <2>9, <3>1, MoveEnded, StatesTyped
  <2>10. CASE Class(ev.msg) > 2 /\ u \in Rejected(c)
    <3>1. c.code >= 200 /\ Ended(c)
      <4>1. Class(ev.msg) >= 2
        BY <2>10, <2>1 DEF Class, Responses
      <4> QED BY <1>0, <2>2, <2>7, <4>1 DEF Ended
    <3> QED BY <2>2, <2>10, <3>1, RejectedEnded
  <2> QED BY <2>6, <2>8, <2>9, <2>10
<1>4. CASE ev.type = "TX"
  BY <1>4 DEF OnStateProceedingUac
<1> QED BY <1>1, <1>2, <1>3, <1>4 DEF ValidEvent, Entries

(* The same before the first response, once timer A has been dealt with.   *)
LEMMA OnStateCallingEnded ==
  ASSUME NEW t, Good(t), Ended(t), t.state < COMPLETED, NEW ev, ValidEvent("UAC", ev),
         NEW u \in OnStateCalling(t, ev)
  PROVE  Ended(u)
<1> DEFINE c == CancelTimer(t, "rt")
<1>1. Good(c) /\ Steady(t, c)
  BY CancelKept, TimersSteady DEF Kept, Entries, Good
<1>2. CASE ev.type = "TIMER" /\ ev.entry = "rt"
  BY <1>2, RetransmitSafe DEF OnStateCalling, Safe
<1>3. CASE ev.type = "TIMER" /\ ev.entry = "to"
  <2>1. Good(Drop(c, {"resched"}))
    BY <1>1, DropKept DEF Kept
  <2> QED BY <1>3, <2>1, TerminateSafe DEF OnStateCalling
<1>4. CASE ev.type = "RX"
  <2>1. PICK d : /\ d \in {c, CancelTimer(c, "to"), Retransmission(c)}
                 /\ u \in OnStateProceedingUac(Drop(d, {"resched"}), ev)
    BY <1>4 DEF OnStateCalling
  <2>2. Good(d) /\ Steady(c, d)
    <3>1. Steady(c, c)
      BY DEF Steady
    <3> QED BY <1>1, <2>1, <3>1, CancelKept, RetransmissionKept, TimersSteady
            DEF Kept, Entries, Good
  <2>3. Good(Drop(d, {"resched"})) /\ Steady(d, Drop(d, {"resched"}))
    BY <2>2, DropKept, TimersSteady DEF Kept, Good
  <2> HIDE DEF c
  <2>4. Ended(Drop(d, {"resched"})) /\ Drop(d, {"resched"}).state < COMPLETED
    BY <1>1, <2>2, <2>3 DEF Steady, Ended
  <2> QED BY <2>1, <2>3, <2>4, OnStateProceedingUacEnded
<1>5. CASE ev.type = "TX"
  BY <1>5 DEF OnStateCalling
<1> QED BY <1>2, <1>3, <1>4, <1>5 DEF ValidEvent, Entries

(* The answers of a UAS: a status is set before it is sent, and a failure  *)
(* of the send only replaces it by another final one.                      *)
LEMMA ProvisionalEnded ==
  ASSUME NEW t, Good(t), "destroy" \notin t.flags, NEW m \in Msgs
  PROVE  Ended(Provisional(t, m))
<1> DEFINE l == [t EXCEPT !.last = m]
           n == SetState(l, PROCEEDING)
           c == CancelTimer(n, "rt")
<1>1. Good(l) /\ l.flags = t.flags
  BY LastKept DEF Kept, Good, Transactions
<1>2. Good(n) /\ Ended(n)
  <2>1. l \in Transactions /\ ~(PROCEEDING >= COMPLETED)
    BY <1>1 DEF Good, PROCEEDING, COMPLETED
  <2> HIDE DEF l
  <2> QED BY <1>1, <2>1, AllowedStates, SetStateKept, MoveEnded, StatesTyped DEF Kept
<1>3. Good(c) /\ Steady(n, c)
  BY <1>2, CancelKept, TimersSteady DEF Kept, Entries, Good
<1>4. Steady(c, StartRetransmission(c))
  BY <1>3, TimersSteady DEF Good
<1>5. Provisional(t, m) \in {n, StartRetransmission(c)}
  BY DEF Provisional
<1> HIDE DEF n, c
<1> QED BY <1>2, <1>3, <1>4, <1>5 DEF Ended, Steady

(* A 2xx, which may end the transaction at once.                           *)
LEMMA AcceptedEnded ==
  ASSUME NEW t, Good(t), t.code >= 200, "destroy" \notin t.flags, NEW m \in Msgs
  PROVE  Ended(Accepted(t, m))
<1> DEFINE c == CancelTimer(t, "rt")
           r == IF c.invite THEN StartRetransmission(c) ELSE c
           l == [r EXCEPT !.last = m]
           w == ResetTimeout(l, TIMEOUT_TIMER, FinalWait(r))
<1>1. Good(c) /\ Steady(t, c)
  BY CancelKept, TimersSteady DEF Kept, Entries, Good
<1>2. Good(r) /\ Steady(c, r)
  BY <1>1, StartRetransmissionKept, TimersSteady DEF Kept, Good, Steady
<1>3. Good(l) /\ Steady(r, l)
  <2> HIDE DEF r
  <2> QED BY <1>2, LastKept DEF Kept, Good, Transactions, Steady
<1>4. Good(w) /\ Steady(l, w)
  <2>1. FinalWait(r) \in Waits /\ TIMEOUT_TIMER \in 0 .. 3
    BY FinalWaitType DEF TIMEOUT_TIMER
  <2>2. Good(w)
    BY <1>3, <2>1, ResetKept, Zenon DEF Kept
  <2>3. l \in Transactions
    BY <1>3 DEF Good
  <2> HIDE DEF l, r
  <2> QED BY <2>2, <2>3, TimersSteady
<1>5. Accepted(t, m) \in {SetState(c, TERMINATED), SetState(w, COMPLETED)}
  BY DEF Accepted
<1> HIDE DEF c, r, l, w
<1>6. /\ c \in Transactions /\ c.code >= 200 /\ "destroy" \notin c.flags
      /\ w \in Transactions /\ w.code >= 200 /\ "destroy" \notin w.flags
  BY <1>1, <1>2, <1>3, <1>4 DEF Good, Steady
<1> QED BY <1>5, <1>6, MoveEnded, StatesTyped

(* A rejection, which waits for the ACK or for timer J.                    *)
LEMMA RefusedEnded ==
  ASSUME NEW t, Good(t), t.code >= 200, "destroy" \notin t.flags, NEW m \in Msgs
  PROVE  Ended(Refused(t, m))
<1> DEFINE c == CancelTimer(t, "rt")
           l == [c EXCEPT !.last = m]
           r == ResetTimeout(l, TIMEOUT_TIMER, FinalWait(c))
           q == IF r.invite /\ ~r.reliable THEN StartRetransmission(r) ELSE r
<1>1. Good(c) /\ Steady(t, c)
  BY CancelKept, TimersSteady DEF Kept, Entries, Good
<1>2. Good(l) /\ Steady(c, l)
  BY <1>1, LastKept DEF Kept, Good, Transactions, Steady
<1>3. Good(r) /\ Steady(l, r)
  <2>1. FinalWait(c) \in Waits /\ TIMEOUT_TIMER \in 0 .. 3
    BY FinalWaitType DEF TIMEOUT_TIMER
  <2>2. Good(r)
    BY <1>2, <2>1, ResetKept, Zenon DEF Kept
  <2>3. l \in Transactions
    BY <1>2 DEF Good
  <2> HIDE DEF l, c
  <2> QED BY <2>2, <2>3, TimersSteady
<1>4. Good(q) /\ Steady(r, q)
  BY <1>3, StartRetransmissionKept, TimersSteady DEF Kept, Good, Steady
<1>5. Refused(t, m) = SetState(q, COMPLETED)
  BY DEF Refused
<1> HIDE DEF c, l, r, q
<1>6. q \in Transactions /\ q.code >= 200 /\ "destroy" \notin q.flags
  BY <1>1, <1>2, <1>3, <1>4 DEF Good, Steady
<1> QED BY <1>5, <1>6, MoveEnded, StatesTyped

(* The response is the status before it is sent.                           *)
LEMMA RespondEnded ==
  ASSUME NEW t, Good(t), Ended(t), t.state < COMPLETED, NEW m \in Responses,
         NEW u \in Respond(t, m)
  PROVE  Ended(u)
<1>0. PICK l \in {NoMsg} \cup ({t.last} \cap {m}) :
         \E o \in SendMsg([t EXCEPT !.code = m, !.last = l], m) :
            u = IF o.ok THEN Responded(o.t, m) ELSE o.t
  BY DEF Respond
<1> DEFINE c == [t EXCEPT !.code = m]
           a == [c EXCEPT !.last = l]
<1>1. a = [t EXCEPT !.code = m, !.last = l]
  BY DEF Good, Transactions
<1>2. PICK o \in SendMsg(a, m) : u = IF o.ok THEN Responded(o.t, m) ELSE o.t
  BY <1>0, <1>1
<1>3. m \in Msgs /\ m \in Codes /\ l \in Msgs \cup {NoMsg}
  BY DEF Msgs, Codes
<1>4. Good(c) /\ Good(a)
  BY <1>3, CodeKept, LastKept DEF Kept
<1>5. a.state = t.state /\ a.flags = t.flags /\ a.code = m
  BY DEF Good, Transactions
<1>6. "destroy" \notin a.flags /\ Ended(a) /\ a.code # 0
  BY <1>5, Unmarked DEF Ended, Responses, Good, Transactions, COMPLETED, TERMINATED, NULL, DESTROYED
<1> HIDE DEF c, a
<1>7. Good(o.t) /\ Safe(a, o.t)
  BY <1>3, <1>4, SendMsgKept, SendMsgSafe DEF Kept
<1>8. Ended(o.t) /\ "destroy" \notin o.t.flags /\ o.t.code \in Codes
  BY <1>6, <1>7 DEF Safe, Good, Transactions
<1>9. CASE o.ok
  <2>1. CASE Class(o.t.code) = 1
    BY <1>2, <1>3, <1>7, <1>8, <1>9, <2>1, ProvisionalEnded DEF Responded
  <2>2. CASE Class(o.t.code) = 2
    <3>1. o.t.code >= 200
      BY <1>8, <2>2 DEF Class, Codes, Responses, TIMEOUT, UNAVAILABLE
    <3> QED BY <1>2, <1>3, <1>7, <1>8, <1>9, <2>2, <3>1, AcceptedEnded DEF Responded
  <2>3. CASE Class(o.t.code) \notin {1, 2}
    <3>1. o.t.code # 0
      BY <1>6, <1>7 DEF Safe
    <3>2. o.t.code >= 200
      BY <1>8, <2>3, <3>1 DEF Class, Codes, Responses, TIMEOUT, UNAVAILABLE
    <3> QED BY <1>2, <1>3, <1>7, <1>8, <1>9, <2>3, <3>2, RefusedEnded DEF Responded
  <2> QED BY <2>1, <2>2, <2>3
<1> QED BY <1>2, <1>8, <1>9

(* A UAS that has no final response yet.                                   *)
LEMMA OnStateProceedingUasEnded ==
  ASSUME NEW t, Good(t), Ended(t), t.state < COMPLETED, NEW ev, ValidEvent("UAS", ev),
         NEW u \in OnStateProceedingUas(t, ev)
  PROVE  Ended(u)
<1>1. CASE ev.type = "TIMER" /\ ev.entry = "rt"
  BY <1>1, RetransmitSafe DEF OnStateProceedingUas, Safe
<1>2. CASE ev.type = "TIMER" /\ ev.entry = "to"
  BY <1>2, TerminateSafe DEF OnStateProceedingUas
<1>3. CASE ev.type = "RX" /\ t.last = NoMsg
  BY <1>3 DEF OnStateProceedingUas
<1>4. CASE ev.type = "RX" /\ t.last # NoMsg
  <2>1. t.last \in Msgs
    BY <1>4 DEF Good, Transactions
  <2>2. PICK o \in SendMsg(t, t.last) : u = o.t
    BY <1>4 DEF OnStateProceedingUas
  <2> QED BY <2>1, <2>2, SendMsgSafe DEF Safe
<1>5. CASE ev.type = "TX"
  BY <1>5, RespondEnded DEF OnStateProceedingUas, ValidEvent
<1> QED BY <1>1, <1>2, <1>3, <1>4, <1>5 DEF ValidEvent, Entries

(* From COMPLETED on the status is there.                                  *)
LEMMA LaterEnded ==
  ASSUME NEW t, Good(t), Ended(t), t.state >= COMPLETED, NEW s \in {TERMINATED, DESTROYED}
  PROVE  Ended(SetState(t, s))
<1>1. t \in Transactions /\ t.code >= 200
  BY DEF Ended, Good
<1>2. ~(s < TERMINATED)
  BY DEF TERMINATED, DESTROYED
<1> QED BY <1>1, <1>2, MoveEnded, StatesTyped

(* A UAS that has: it repeats its response until the ACK or a timeout, and *)
(* goes on or ends.                                                        *)
LEMMA OnStateCompletedUasEnded ==
  ASSUME NEW t, Good(t), Ended(t), t.state = COMPLETED, NEW ev,
         NEW u \in OnStateCompletedUas(t, ev)
  PROVE  Ended(u)
<1>0. t \in Transactions /\ t.code >= 200 /\ "destroy" \notin t.flags /\ t.state >= COMPLETED
  BY Unmarked DEF Ended, Good, COMPLETED, TERMINATED
<1>1. CASE \E b \in BOOLEAN : u \in Retransmit(t, b)
  BY <1>1, RetransmitSafe DEF Safe
<1>2. ASSUME NEW w \in {"T4", "zero"},
             u = SetState(ResetTimeout(Drop(CancelTimer(t, "rt"), {"resched"}),
                                       TIMEOUT_TIMER, w), CONFIRMED)
      PROVE  Ended(u)
  <2> DEFINE c == CancelTimer(t, "rt")
             d == Drop(c, {"resched"})
             r == ResetTimeout(d, TIMEOUT_TIMER, w)
  <2>1. Good(c) /\ Steady(t, c)
    BY CancelKept, TimersSteady DEF Kept, Entries, Good
  <2>2. Good(d) /\ Steady(c, d)
    BY <2>1, DropKept, TimersSteady DEF Kept, Good
  <2>3. Good(r) /\ Steady(d, r)
    <3>1. d \in Transactions
      BY <2>2 DEF Good
    <3>2. Steady(d, r)
      BY <3>1, TimersSteady
    <3> QED BY <2>2, <3>2, ResetKept DEF Kept, TIMEOUT_TIMER, Waits
  <2> HIDE DEF c, d, r
  <2>4. r \in Transactions /\ r.code >= 200 /\ "destroy" \notin r.flags
    BY <1>0, <2>1, <2>2, <2>3 DEF Steady, Good
  <2>5. u = SetState(r, CONFIRMED)
    BY <1>2 DEF c, d, r
  <2> QED BY <2>4, <2>5, MoveEnded, StatesTyped
<1>3. Ended(Terminate(t, TIMEOUT)) /\ Ended(SetState(t, TERMINATED))
  BY <1>0, TerminateSafe, LaterEnded
<1>4. \/ \E b \in BOOLEAN : u \in Retransmit(t, b)
      \/ \E w \in {"T4", "zero"} :
           u = SetState(ResetTimeout(Drop(CancelTimer(t, "rt"), {"resched"}),
                                     TIMEOUT_TIMER, w), CONFIRMED)
      \/ u \in {t, Terminate(t, TIMEOUT), SetState(t, TERMINATED)}
  BY DEF OnStateCompletedUas
<1> QED BY <1>1, <1>2, <1>3, <1>4

(* Together: no event ends a transaction without a final status.           *)
LEMMA StateHandlerEnded ==
  ASSUME NEW t, Good(t), Ended(t), NEW ev, ValidEvent(t.role, ev),
         NEW u \in StateHandler(t, ev)
  PROVE  Ended(u)
<1>1. t.role \in {"UAC", "UAS"} /\ t.state \in NULL .. DESTROYED
  BY DEF Good, Transactions
<1>2. CASE t.state = NULL
  BY <1>2, Dispatch, OnStateNullEnded
<1>3. CASE t.state = CALLING
  <2>1. t.role = "UAC" /\ t.state < COMPLETED
    BY <1>1, <1>3 DEF Good, Allowed, CALLING, COMPLETED
  <2> QED BY <1>3, <2>1, Dispatch, OnStateCallingEnded
<1>4. CASE t.state = TRYING
  <2>1. t.role = "UAS" /\ t.state < COMPLETED
    BY <1>1, <1>4 DEF Good, Allowed, TRYING, COMPLETED
  <2> QED BY <1>4, <2>1, Dispatch, OnStateProceedingUasEnded DEF OnStateTrying
<1>5. CASE t.state = PROCEEDING
  <2>0. t.state < COMPLETED
    BY <1>5 DEF PROCEEDING, COMPLETED
  <2>1. CASE t.role = "UAC"
    BY <1>5, <2>0, <2>1, Dispatch, OnStateProceedingUacEnded
  <2>2. CASE t.role = "UAS"
    BY <1>5, <2>0, <2>2, Dispatch, OnStateProceedingUasEnded
  <2> QED BY <1>1, <2>1, <2>2
<1>6. CASE t.state = COMPLETED
  <2>1. CASE t.role = "UAC"
    <3>1. t.state >= COMPLETED
      BY <1>6 DEF COMPLETED
    <3>2. u \in {t, SetState(t, TERMINATED)} \cup Retransmit(t, FALSE)
      <4>1. u \in OnStateCompletedUac(t, ev)
        BY <1>6, <2>1, Dispatch
      <4>2. CASE ev.type = "TIMER"
        BY <4>1, <4>2 DEF OnStateCompletedUac
      <4>3. CASE ev.type # "TIMER"
        BY <4>1, <4>3 DEF OnStateCompletedUac
      <4> QED BY <4>2, <4>3
    <3>3. u \in Retransmit(t, FALSE) => Ended(u)
      BY RetransmitSafe DEF Safe
    <3> QED BY <3>1, <3>2, <3>3, LaterEnded
  <2>2. CASE t.role = "UAS"
    BY <1>6, <2>2, Dispatch, OnStateCompletedUasEnded
  <2> QED BY <1>1, <2>1, <2>2
<1>7. CASE t.state \in {CONFIRMED, TERMINATED, DESTROYED}
  <2>1. t.state >= COMPLETED
    BY <1>7 DEF COMPLETED, CONFIRMED, TERMINATED, DESTROYED
  <2>2. u \in {t, SetState(t, TERMINATED), SetState(t, DESTROYED)}
    BY <1>7, Dispatch DEF OnStateConfirmed, OnStateTerminated
  <2> QED BY <2>1, <2>2, LaterEnded
<1> QED BY <1>1, <1>2, <1>3, <1>4, <1>5, <1>6, <1>7, StatesTyped

(* A transport error sets the status first, too; only its notification    *)
(* waits until the lock is released.                                       *)
LEMMA ErrorEnded ==
  ASSUME NEW t, Good(t), t.code >= 200
  PROVE  Ended(SetStateNoNotify(t, TERMINATED))
<1> DEFINE n == [t EXCEPT !.user = FALSE]
           v == SetState(n, TERMINATED)
           u == [v EXCEPT !.user = t.user]
<1>1. Good(n) /\ n.code >= 200
  <2>1. Kept(t, n)
    BY UserKept
  <2>2. n.code = t.code
    BY DEF Good, Transactions
  <2> QED BY <2>1, <2>2 DEF Kept
<1>2. n \in Transactions /\ ~(TERMINATED < TERMINATED)
  BY <1>1 DEF Good, TERMINATED
<1> HIDE DEF n
<1>3. Ended(v) /\ v \in Transactions
  BY <1>1, <1>2, MoveEnded, StatesTyped, AllowedStates, SetStateKept DEF Kept, Good
<1> HIDE DEF v
<1>4. Steady(v, u)
  BY <1>3 DEF Steady, Transactions
<1>5. SetStateNoNotify(t, TERMINATED) = u
  BY DEF SetStateNoNotify, n, v
<1> QED BY <1>3, <1>4, <1>5, SteadySafe DEF Safe

-----------------------------------------------------------------------------
(* How an operator moves a transaction on: relations that every operator   *)
(* is in, whatever its place in a handler, so that the steps of the        *)
(* threads can be read off the operators they call.                        *)

Live(t) == t.state < TERMINATED

(* A transport error is only ever posted through the timeout timer if a    *)
(* transport may disconnect, or a send fail after the call returned.       *)
LateErrors == "disc" \in Faults \/ {"async", "fail"} \subseteq Faults

(* What is out while a transaction lives: at most one send, marked by the  *)
(* transport flag, and either with the transport or stateless.             *)
Clean(t) == /\ t.tx => "transport" \in t.flags
            /\ t.out > 0 => "transport" \in t.flags /\ ~t.tx
            /\ t.out <= 1

(* A transaction a handler may be at work on.                              *)
Fit(t) == /\ t.user /\ t.reg /\ t.state # DESTROYED
          /\ "destroy" \notin t.flags
          /\ Clean(t)

(* A client sends on a transport of its own only once it has resolved its  *)
(* server; and it waits for a response only if a send is pending or the    *)
(* server resolved.                                                        *)
Rooted(t) == t.role = "UAC" /\ (t.tp \/ t.out > 0) => "resolved" \in t.flags
Marked(t) == "transport" \in t.flags \/ "resolved" \in t.flags

(* No error is posted, and no answer to a send is late, unless the         *)
(* environment does so.                                                    *)
Tame(t) == /\ LateErrors \/ \A e \in Entries : t.id[e] # TRANSPORT_ERR_TIMER
           /\ "async" \in Faults \/ t.out = 0

(* The transaction between two steps of the threads.                       *)
Sound(t) ==
    /\ Live(t) => Fit(t) /\ t.told = t.state
    /\ Rooted(t)
    /\ t.role = "UAC" /\ t.state \in CALLING .. CONFIRMED => Marked(t)
    /\ t.state = DESTROYED \/ ~t.user => t.told >= TERMINATED
    /\ t.state = DESTROYED => ~t.reg
    /\ ~t.reg => t.last = NoMsg

(* The retransmit timer runs, is not needed, or a pending send starts it.  *)
Running(t) == \/ t.reliable \/ "rt" \in t.heap
              \/ {"transport", "resched"} \subseteq t.flags

(* Nothing but a timer, its mark and the mark of a queued message.         *)
Quiet(t, u) ==
    /\ u.role = t.role /\ u.invite = t.invite /\ u.reliable = t.reliable
    /\ u.state = t.state /\ u.last = t.last /\ u.tp = t.tp /\ u.tx = t.tx
    /\ u.out = t.out /\ u.reg = t.reg /\ u.user = t.user /\ u.told = t.told
    /\ u.terms = t.terms /\ u.wire = t.wire
    /\ \A f \in {"transport", "destroy", "resolved"} : f \in u.flags <=> f \in t.flags
    /\ Tame(t) => Tame(u)

(* The user is told of every change of state, and let go only with the     *)
(* transaction.                                                            *)
Tells(t, u) ==
    /\ \/ u.told = t.told /\ (u.state = t.state \/ ~t.user)
       \/ t.user /\ u.told = u.state
    /\ u.user => t.user
    /\ t.user => u.user \/ (u.told = DESTROYED /\ u.state = DESTROYED)

(* An operator leaves the state or ends the transaction, and only what     *)
(* bears the mark is destroyed; it tells the user of an end, forgets the   *)
(* saved message and the key only with the transaction, and keeps whatever *)
(* shows that a send is pending or the server resolved.                    *)
Onward(t, u) ==
    /\ u.role = t.role /\ u.invite = t.invite /\ (t.reliable => u.reliable)
    /\ t.wire \subseteq u.wire
    /\ t.state <= u.state
    /\ u.state = t.state \/ u.state \in {TERMINATED, DESTROYED}
    /\ \/ /\ u.reg = t.reg /\ u.last = t.last
          /\ u.state = DESTROYED => t.state = DESTROYED
       \/ u.state = DESTROYED /\ ~u.reg /\ u.last = NoMsg
    /\ "destroy" \notin t.flags =>
          "destroy" \notin u.flags /\ (u.state = DESTROYED => t.state = DESTROYED)
    /\ Tells(t, u)
    /\ "resolved" \in t.flags => "resolved" \in u.flags
    /\ Marked(t) /\ Live(u) => Marked(u)
    /\ Rooted(t) => Rooted(u)
    /\ Tame(t) => Tame(u)

(* The timers a send leaves running, and the one an end starts.            *)
Beats(t, u) ==
    /\ u.state = TERMINATED /\ t.state # TERMINATED => "to" \in u.heap
    /\ "to" \in t.heap => "to" \in u.heap \/ u.state = DESTROYED
    /\ Running(t) => Running(u) \/ ~Live(u)

Moves(t, u) == Onward(t, u) /\ Beats(t, u)

(* Moving on composes.                                                     *)
LEMMA OnwardTrans ==
  ASSUME NEW t, NEW u, NEW v, Onward(t, u), Onward(u, v), t.state \in Int
  PROVE  Onward(t, v)
<1>1. t.state <= v.state /\ u.state \in Int /\ v.state \in Int
  BY DEF Onward, TERMINATED, DESTROYED
<1>2. /\ v.role = t.role /\ v.invite = t.invite /\ (t.reliable => v.reliable)
      /\ t.wire \subseteq v.wire
      /\ "resolved" \in t.flags => "resolved" \in v.flags
      /\ Rooted(t) => Rooted(v)
      /\ Tame(t) => Tame(v)
  <2>1. v.role = t.role /\ v.invite = t.invite /\ t.wire \subseteq v.wire
    BY DEF Onward
  <2>2. (t.reliable => v.reliable) /\ ("resolved" \in t.flags => "resolved" \in v.flags)
    BY DEF Onward
  <2>3. (Rooted(t) => Rooted(v)) /\ (Tame(t) => Tame(v))
    BY DEF Onward
  <2> QED BY <2>1, <2>2, <2>3
<1>3. v.state = t.state \/ v.state \in {TERMINATED, DESTROYED}
  BY DEF Onward
<1>4. v.state = t.state => u.state = t.state
  BY DEF Onward, TERMINATED, DESTROYED
<1>5. Marked(t) /\ Live(v) => Marked(v)
  <2>1. Live(v) => Live(u)
    BY <1>1 DEF Onward, Live, TERMINATED
  <2> QED BY <2>1, Zenon DEF Onward
<1>6. u.state = DESTROYED => v.state = DESTROYED
  BY DEF Onward, TERMINATED, DESTROYED
<1>7. \/ /\ v.reg = t.reg /\ v.last = t.last
         /\ v.state = DESTROYED => t.state = DESTROYED
      \/ v.state = DESTROYED /\ ~v.reg /\ v.last = NoMsg
  BY <1>6 DEF Onward
<1>8. "destroy" \notin t.flags =>
          "destroy" \notin v.flags /\ (v.state = DESTROYED => t.state = DESTROYED)
  BY DEF Onward
<1>9. Tells(t, v)
  <2>1. Tells(t, u) /\ Tells(u, v)
    BY DEF Onward
  <2>2. v.state = u.state \/ (v.state # t.state /\ u.state # DESTROYED)
    BY <1>1, <1>6 DEF Onward, TERMINATED, DESTROYED
  <2> QED BY <1>4, <1>6, <2>1, <2>2 DEF Tells
<1> QED BY <1>1, <1>2, <1>3, <1>5, <1>7, <1>8, <1>9 DEF Onward

(* What the timers are left with composes, too.                            *)
LEMMA MovesTrans ==
  ASSUME NEW t, NEW u, NEW v, Moves(t, u), Moves(u, v), t.state \in Int
  PROVE  Moves(t, v)
<1>1. Onward(t, u) /\ Onward(u, v) /\ Onward(t, v)
  BY OnwardTrans DEF Moves
<1>2. u.state \in Int /\ v.state \in Int /\ u.state <= v.state
  BY <1>1 DEF Onward, TERMINATED, DESTROYED
<1>3. v.state = TERMINATED /\ t.state # TERMINATED => "to" \in v.heap
  BY <1>2 DEF Moves, Beats, TERMINATED, DESTROYED
<1>4. "to" \in t.heap => "to" \in v.heap \/ v.state = DESTROYED
  <2>1. u.state = DESTROYED => v.state = DESTROYED
    BY <1>1 DEF Onward, TERMINATED, DESTROYED
  <2> QED BY <2>1 DEF Moves, Beats
<1>5. Running(t) => Running(v) \/ ~Live(v)
  BY <1>2 DEF Moves, Beats, Live, TERMINATED
<1> QED BY <1>1, <1>3, <1>4, <1>5 DEF Moves, Beats

(* Quiet steps compose and are moves onward that leave a transaction fit.  *)
LEMMA QuietTrans ==
  ASSUME NEW t, NEW u, NEW v, Quiet(t, u), Quiet(u, v) PROVE Quiet(t, v)
  BY DEF Quiet

LEMMA QuietOnward ==
  ASSUME NEW t, NEW u, Quiet(t, u), t.state \in Int
  PROVE  /\ Onward(t, u) /\ (Fit(t) => Fit(u)) /\ (Clean(t) => Clean(u))
         /\ Marked(u) <=> Marked(t)
<1>1. Rooted(t) => Rooted(u)
  BY DEF Quiet, Rooted
<1>2. Marked(t) <=> Marked(u)
  BY DEF Quiet, Marked
<1>3. Clean(t) => Clean(u)
  BY DEF Quiet, Clean
<1>4. Fit(t) => Fit(u)
  BY <1>3 DEF Quiet, Fit
<1>5. Tells(t, u)
  BY DEF Quiet, Tells
<1> QED BY <1>1, <1>2, <1>3, <1>4, <1>5 DEF Quiet, Onward

(* The timers: what is in the heap afterwards.                             *)
LEMMA CancelQuiet ==
  ASSUME NEW t \in Transactions, NEW e \in Entries
  PROVE  LET u == CancelTimer(t, e)
         IN  Quiet(t, u) /\ u.heap = t.heap \ {e} /\ u.flags = t.flags
<1> DEFINE u == CancelTimer(t, e)
<1>1. /\ u.role = t.role /\ u.invite = t.invite /\ u.reliable = t.reliable
      /\ u.state = t.state /\ u.last = t.last /\ u.tp = t.tp /\ u.tx = t.tx
      /\ u.out = t.out /\ u.reg = t.reg /\ u.user = t.user /\ u.told = t.told
      /\ u.terms = t.terms /\ u.wire = t.wire /\ u.flags = t.flags
      /\ u.heap = t.heap \ {e} /\ u.id = [t.id EXCEPT ![e] = TIMER_INACTIVE]
  BY DEF CancelTimer, Transactions
<1>2. \A x \in Entries : u.id[x] \in {t.id[x], TIMER_INACTIVE}
  BY <1>1 DEF Transactions
<1> HIDE DEF u
<1>3. Tame(t) => Tame(u)
  BY <1>1, <1>2 DEF Tame, TIMER_INACTIVE, TRANSPORT_ERR_TIMER
<1> QED BY <1>1, <1>3 DEF Quiet, u

LEMMA ScheduleQuiet ==
  ASSUME NEW t \in Transactions, NEW e \in Entries, NEW i, NEW w,
         i # TRANSPORT_ERR_TIMER \/ LateErrors
  PROVE  LET u == ScheduleTimer(t, e, i, w)
         IN  Quiet(t, u) /\ u.heap = t.heap \cup {e} /\ u.flags = t.flags
<1> DEFINE u == ScheduleTimer(t, e, i, w)
<1>1. /\ u.role = t.role /\ u.invite = t.invite /\ u.reliable = t.reliable
      /\ u.state = t.state /\ u.last = t.last /\ u.tp = t.tp /\ u.tx = t.tx
      /\ u.out = t.out /\ u.reg = t.reg /\ u.user = t.user /\ u.told = t.told
      /\ u.terms = t.terms /\ u.wire = t.wire /\ u.flags = t.flags
      /\ u.heap = t.heap \cup {e} /\ u.id \in {t.id, [t.id EXCEPT ![e] = i]}
  BY DEF ScheduleTimer, Transactions
<1>2. \A x \in Entries : u.id[x] \in {t.id[x], i}
  BY <1>1 DEF Transactions
<1> HIDE DEF u
<1>3. Tame(t) => Tame(u)
  BY <1>1, <1>2 DEF Tame
<1> QED BY <1>1, <1>3 DEF Quiet, u

LEMMA ResetQuiet ==
  ASSUME NEW t, Good(t), NEW i, NEW w, i # TRANSPORT_ERR_TIMER \/ LateErrors
  PROVE  LET u == ResetTimeout(t, i, w)
         IN  Quiet(t, u) /\ u.heap = t.heap \cup {"to"} /\ u.flags = t.flags
<1> DEFINE c == CancelTimer(t, "to")
           u == ScheduleTimer(c, "to", i, w)
<1>1. "to" \in Entries /\ Good(t) /\ t \in Transactions
  BY DEF Entries, Good
<1>2. c \in Transactions
  BY <1>1, CancelKept DEF Kept, Good
<1>3. Quiet(t, c) /\ c.heap = t.heap \ {"to"} /\ c.flags = t.flags
  BY <1>1, CancelQuiet
<1> HIDE DEF c
<1>4. Quiet(c, u) /\ u.heap = c.heap \cup {"to"} /\ u.flags = c.flags
  BY <1>1, <1>2, ScheduleQuiet
<1>5. ResetTimeout(t, i, w) = u
  BY DEF ResetTimeout, c
<1> HIDE DEF u
<1> QED BY <1>3, <1>4, <1>5, QuietTrans

LEMMA RetransmissionQuiet ==
  ASSUME NEW t \in Transactions
  PROVE  LET u == Retransmission(t)
         IN  Quiet(t, u) /\ u.heap = t.heap \cup {"rt"} /\ u.flags = t.flags
  BY ScheduleQuiet DEF Retransmission, Entries, RETRANSMIT_TIMER, TRANSPORT_ERR_TIMER

LEMMA DropQuiet ==
  ASSUME NEW t \in Transactions, NEW fs \in {{"resched"}, {"send"}}
  PROVE  LET u == Drop(t, fs)
         IN  Quiet(t, u) /\ u.heap = t.heap /\ u.flags = t.flags \ fs
  BY DEF Drop, Quiet, Tame, Transactions

(* Started or marked, the retransmission will run.                         *)
LEMMA StartQuiet ==
  ASSUME NEW t \in Transactions
  PROVE  LET u == StartRetransmission(t)
         IN  /\ Quiet(t, u) /\ Running(u) /\ t.heap \subseteq u.heap
             /\ t.flags \subseteq u.flags
<1>1. CASE "transport" \in t.flags
  BY <1>1 DEF StartRetransmission, Quiet, Tame, Running, Transactions
<1>2. CASE "transport" \notin t.flags
  BY <1>2, RetransmissionQuiet DEF StartRetransmission, Running
<1> QED BY <1>1, <1>2

(* What tsx_set_state() does to each field.  In the states in between it   *)
(* tells the user, and nothing else.                                       *)
LEMMA SetBetween ==
  ASSUME NEW t \in Transactions, NEW s \in NULL .. CONFIRMED
  PROVE  LET u == SetState(t, s)
         IN  /\ u.role = t.role /\ u.invite = t.invite /\ u.reliable = t.reliable
             /\ u.last = t.last /\ u.tp = t.tp /\ u.tx = t.tx /\ u.out = t.out
             /\ u.reg = t.reg /\ u.user = t.user /\ u.wire = t.wire
             /\ u.flags = t.flags /\ u.heap = t.heap /\ u.id = t.id
             /\ u.terms = t.terms
             /\ u.state = s /\ u.told = IF t.user THEN s ELSE t.told
<1>1. SetState(t, s) = Notify([t EXCEPT !.state = s])
  BY DEF SetState, NULL, CONFIRMED, TERMINATED, DESTROYED
<1> QED BY <1>1 DEF Notify, Transactions, NULL, CONFIRMED, TERMINATED

(* The end: whatever is out is forgotten, and the timer that will destroy  *)
(* the transaction is armed.                                               *)
LEMMA SetTerminated ==
  ASSUME NEW t, Good(t)
  PROVE  LET u == SetState(t, TERMINATED)
         IN  /\ u.role = t.role /\ u.invite = t.invite /\ u.reliable = t.reliable
             /\ u.last = t.last /\ u.tp = t.tp /\ u.out = t.out
             /\ u.reg = t.reg /\ u.user = t.user /\ u.wire = t.wire
             /\ u.tx = (t.tx /\ "transport" \notin t.flags)
             /\ u.flags = t.flags \ {"transport"}
             /\ u.heap = t.heap \cup {"to"}
             /\ u.terms = IF t.user /\ t.terms < 2 THEN t.terms + 1 ELSE t.terms
             /\ u.state = TERMINATED /\ u.told = IF t.user THEN TERMINATED ELSE t.told
             /\ Tame(t) => Tame(u)
<1> DEFINE s == [t EXCEPT !.state = TERMINATED]
           n == Notify(s)
           x == n.tx /\ "transport" \notin n.flags
           f == n.flags \ {"transport"}
           a == [n EXCEPT !.tx = x, !.flags = f]
           u == SetState(t, TERMINATED)
<1>1. /\ n.role = t.role /\ n.invite = t.invite /\ n.reliable = t.reliable
      /\ n.last = t.last /\ n.tp = t.tp /\ n.tx = t.tx /\ n.out = t.out
      /\ n.reg = t.reg /\ n.user = t.user /\ n.wire = t.wire
      /\ n.flags = t.flags /\ n.heap = t.heap /\ n.id = t.id
      /\ n.terms = IF t.user /\ t.terms < 2 THEN t.terms + 1 ELSE t.terms
      /\ n.state = TERMINATED /\ n.told = IF t.user THEN TERMINATED ELSE t.told
  BY DEF Notify, Good, Transactions
<1>2. Good(n)
  <2>1. s \in Transactions
    BY DEF Good, Transactions, NULL, TERMINATED, DESTROYED
  <2>2. Kept(t, s)
    <3>1. /\ s.refs = t.refs /\ s.heap = t.heap /\ s.out = t.out /\ s.live = t.live
          /\ s.reg = t.reg /\ s.role = t.role /\ s.state = TERMINATED
      BY DEF Good, Transactions
    <3> HIDE DEF s
    <3> QED BY <2>1, <3>1, AllowedStates, SameRefs
  <2> HIDE DEF s
  <2> QED BY <2>2, NotifyKept DEF Kept
<1> HIDE DEF n
<1>3. x \in BOOLEAN /\ f \in SUBSET Flags
  BY <1>2 DEF Good, Transactions
<1>4. Good(a)
  BY <1>2, <1>3, TxKept, Zenon DEF Kept
<1>5. /\ a.role = n.role /\ a.invite = n.invite /\ a.reliable = n.reliable
      /\ a.last = n.last /\ a.tp = n.tp /\ a.tx = x /\ a.out = n.out
      /\ a.reg = n.reg /\ a.user = n.user /\ a.wire = n.wire
      /\ a.flags = f /\ a.heap = n.heap /\ a.id = n.id
      /\ a.terms = n.terms /\ a.state = n.state /\ a.told = n.told
  BY <1>2 DEF Good, Transactions
<1>6. u = ResetTimeout(a, TIMEOUT_TIMER, "zero")
  <2>1. u = EnterTerminated(n)
    BY DEF SetState, n, TERMINATED, DESTROYED
  <2>2. n = [n EXCEPT !.tx = @, !.flags = @]
    BY <1>2 DEF Good, Transactions
  <2>3. a = [n EXCEPT !.tx = @ /\ "transport" \notin n.flags, !.flags = @ \ {"transport"}]
    BY <1>2 DEF Good, Transactions
  <2> HIDE DEF a
  <2> QED BY <2>1, <2>3, Zenon DEF EnterTerminated
<1> HIDE DEF a
<1>7. Quiet(a, u) /\ u.heap = a.heap \cup {"to"} /\ u.flags = a.flags
  <2>1. TIMEOUT_TIMER # TRANSPORT_ERR_TIMER
    BY DEF TIMEOUT_TIMER, TRANSPORT_ERR_TIMER
  <2> QED BY <1>4, <1>6, <2>1, ResetQuiet
<1>8. Tame(t) => Tame(a)
  BY <1>1, <1>5 DEF Tame
<1> HIDE DEF u, x, f
<1>9. /\ u.role = t.role /\ u.invite = t.invite /\ u.reliable = t.reliable
      /\ u.last = t.last /\ u.tp = t.tp /\ u.out = t.out
      /\ u.reg = t.reg /\ u.user = t.user /\ u.wire = t.wire
      /\ u.tx = x /\ u.flags = f /\ u.heap = t.heap \cup {"to"}
      /\ u.terms = n.terms /\ u.state = TERMINATED /\ u.told = n.told
      /\ Tame(t) => Tame(u)
  BY <1>1, <1>5, <1>7, <1>8 DEF Quiet
<1>10. x = (t.tx /\ "transport" \notin t.flags) /\ f = t.flags \ {"transport"}
  BY <1>1 DEF x, f
<1> QED BY <1>1, <1>9, <1>10 DEF u

(* The transaction is destroyed: no timer, no key, no saved message; while *)
(* a send is pending the mark is set instead and the user let go.          *)
LEMMA SetDestroyed ==
  ASSUME NEW t, Good(t)
  PROVE  LET u == SetState(t, DESTROYED)
         IN  /\ u.role = t.role /\ u.invite = t.invite /\ u.reliable = t.reliable
             /\ u.last = NoMsg /\ ~u.tp /\ u.tx = t.tx /\ u.out = t.out
             /\ ~u.reg /\ (u.user => t.user) /\ u.wire = t.wire
             /\ u.terms = t.terms /\ u.heap = {}
             /\ \A f \in {"transport", "resolved"} : f \in u.flags <=> f \in t.flags
             /\ u.state = DESTROYED /\ u.told = IF t.user THEN DESTROYED ELSE t.told
             /\ Tame(t) => Tame(u)
<1> DEFINE n == Notify([t EXCEPT !.state = DESTROYED])
           r == [n EXCEPT !.reg = FALSE]
           c == CancelTimer(r, "to")
           d == CancelTimer(c, "rt")
           u == SetState(t, DESTROYED)
<1>1. /\ n.role = t.role /\ n.invite = t.invite /\ n.reliable = t.reliable
      /\ n.last = t.last /\ n.tp = t.tp /\ n.tx = t.tx /\ n.out = t.out
      /\ n.user = t.user /\ n.wire = t.wire
      /\ n.flags = t.flags /\ n.heap = t.heap /\ n.id = t.id /\ n.terms = t.terms
      /\ n.state = DESTROYED /\ n.told = IF t.user THEN DESTROYED ELSE t.told
  BY DEF Notify, Good, Transactions, TERMINATED, DESTROYED
<1>2. n \in Transactions
  <2>1. Good([t EXCEPT !.state = DESTROYED])
    <3> DEFINE s == [t EXCEPT !.state = DESTROYED]
    <3>1. /\ s.refs = t.refs /\ s.heap = t.heap /\ s.out = t.out /\ s.live = t.live
          /\ s.reg = t.reg /\ s.role = t.role /\ s.state = DESTROYED
          /\ s \in Transactions
      BY DEF Good, Transactions, NULL, DESTROYED
    <3> HIDE DEF s
    <3>2. Kept(t, s)
      BY <3>1, AllowedStates, SameRefs
    <3> QED BY <3>2 DEF Kept, s
  <2> QED BY <2>1, NotifyKept, Zenon DEF Kept, Good
<1> HIDE DEF n
<1>3. /\ r.role = n.role /\ r.invite = n.invite /\ r.reliable = n.reliable
      /\ r.last = n.last /\ r.tp = n.tp /\ r.tx = n.tx /\ r.out = n.out
      /\ r.user = n.user /\ r.wire = n.wire /\ r.reg = FALSE
      /\ r.flags = n.flags /\ r.heap = n.heap /\ r.id = n.id /\ r.terms = n.terms
      /\ r.state = n.state /\ r.told = n.told /\ r \in Transactions
  BY <1>2 DEF Transactions
<1>4. u = Shutdown(r)
  BY DEF SetState, EnterDestroyed, n, TERMINATED, DESTROYED
<1> HIDE DEF r
<1>5. /\ u.role = r.role /\ u.invite = r.invite /\ u.reliable = r.reliable
      /\ u.last = NoMsg /\ u.tp = FALSE /\ u.tx = r.tx /\ u.out = r.out
      /\ u.reg = r.reg /\ (u.user => r.user) /\ u.wire = r.wire
      /\ u.terms = r.terms /\ u.state = r.state /\ u.told = r.told
      /\ u.heap = (r.heap \ {"to"}) \ {"rt"}
      /\ u.id = [[r.id EXCEPT !["to"] = TIMER_INACTIVE] EXCEPT !["rt"] = TIMER_INACTIVE]
  BY <1>3, <1>4 DEF Shutdown, CancelTimer, Transactions
<1>6. \A f \in {"transport", "resolved"} : f \in u.flags <=> f \in r.flags
  BY <1>3, <1>4 DEF Shutdown, CancelTimer, Transactions
<1>7. u.heap = {} /\ \A e \in Entries : u.id[e] = TIMER_INACTIVE
  BY <1>3, <1>5 DEF Transactions, Entries
<1> HIDE DEF u
<1>8. Tame(t) => Tame(u)
  BY <1>1, <1>3, <1>5, <1>7 DEF Tame, TIMER_INACTIVE, TRANSPORT_ERR_TIMER
<1> QED BY <1>1, <1>3, <1>5, <1>6, <1>7, <1>8 DEF u

(* A send that ends nothing unless it fails: what keeps a transaction that *)
(* has its server from being told of an end twice.                         *)
Steadfast(t) == Live(t) /\ "resolved" \in t.flags => t.tp

Calm(t, u) == /\ u.terms = t.terms
              /\ Live(t) => u.state = t.state
              /\ Steadfast(t) => Steadfast(u)

(* An end and a destruction are moves onward.                              *)
LEMMA EndMoves ==
  ASSUME NEW t, Good(t), t.state # DESTROYED
  PROVE  LET u == SetState(t, TERMINATED)
         IN  Moves(t, u) /\ (Fit(t) /\ "transport" \notin t.flags => Fit(u))
<1> DEFINE u == SetState(t, TERMINATED)
<1>1. /\ u.role = t.role /\ u.invite = t.invite /\ u.reliable = t.reliable
      /\ u.last = t.last /\ u.tp = t.tp /\ u.out = t.out
      /\ u.reg = t.reg /\ u.user = t.user /\ u.wire = t.wire
      /\ u.tx = (t.tx /\ "transport" \notin t.flags)
      /\ u.flags = t.flags \ {"transport"}
      /\ u.heap = t.heap \cup {"to"}
      /\ u.state = TERMINATED /\ u.told = IF t.user THEN TERMINATED ELSE t.told
      /\ Tame(t) => Tame(u)
  BY SetTerminated
<1> HIDE DEF u
<1>2. t.state \in NULL .. TERMINATED
  BY DEF Good, Transactions, NULL, TERMINATED, DESTROYED
<1>3. Tells(t, u)
  BY <1>1 DEF Tells
<1>4. (Rooted(t) => Rooted(u)) /\ ~Live(u)
  BY <1>1 DEF Rooted, Live, TERMINATED
<1>5. Onward(t, u)
  BY <1>1, <1>2, <1>3, <1>4 DEF Onward, NULL, TERMINATED, DESTROYED
<1>6. Beats(t, u)
  BY <1>1, <1>4 DEF Beats
<1>7. ASSUME Fit(t), "transport" \notin t.flags PROVE Fit(u)
  <2>1. ~t.tx /\ ~(t.out > 0)
    BY <1>7 DEF Fit, Clean
  <2>2. Clean(u)
    BY <1>1, <1>7, <2>1 DEF Fit, Clean
  <2> QED BY <1>1, <1>7, <2>2 DEF Fit, TERMINATED, DESTROYED
<1> QED BY <1>5, <1>6, <1>7 DEF Moves, u

LEMMA DestroyMoves ==
  ASSUME NEW t, Good(t), "destroy" \in t.flags
  PROVE  Moves(t, SetState(t, DESTROYED))
<1> DEFINE u == SetState(t, DESTROYED)
<1>1. /\ u.role = t.role /\ u.invite = t.invite /\ u.reliable = t.reliable
      /\ u.last = NoMsg /\ ~u.tp /\ u.out = t.out
      /\ ~u.reg /\ (u.user => t.user) /\ u.wire = t.wire
      /\ \A f \in {"transport", "resolved"} : f \in u.flags <=> f \in t.flags
      /\ u.state = DESTROYED /\ u.told = IF t.user THEN DESTROYED ELSE t.told
      /\ Tame(t) => Tame(u)
  BY SetDestroyed
<1> HIDE DEF u
<1>2. t.state \in NULL .. DESTROYED
  BY DEF Good, Transactions
<1>3. Tells(t, u)
  BY <1>1 DEF Tells
<1>4. (Rooted(t) => Rooted(u)) /\ ~Live(u)
  BY <1>1 DEF Rooted, Live, TERMINATED, DESTROYED
<1>5. Onward(t, u)
  BY <1>1, <1>2, <1>3, <1>4 DEF Onward, NULL, DESTROYED
<1>6. Beats(t, u)
  BY <1>1, <1>4 DEF Beats, TERMINATED, DESTROYED
<1> QED BY <1>5, <1>6 DEF Moves, u

(* Fields that only the user or the transport reads.                       *)
LEMMA CodeQuiet ==
  ASSUME NEW t \in Transactions, NEW c
  PROVE  LET u == [t EXCEPT !.code = c]
         IN  Quiet(t, u) /\ u.heap = t.heap /\ u.flags = t.flags
  BY DEF Quiet, Tame, Transactions

(* Nothing but the heap matters to a quiet step's timers.                  *)
LEMMA QuietMoves ==
  ASSUME NEW t, NEW u, Quiet(t, u), t.state \in Int, t.heap \subseteq u.heap,
         "resched" \in t.flags => "resched" \in u.flags
  PROVE  Moves(t, u) /\ (Fit(t) => Fit(u)) /\ (Clean(t) => Clean(u))
<1>1. Beats(t, u)
  BY DEF Quiet, Beats, Running
<1> QED BY <1>1, QuietOnward DEF Moves

(* A send error once the server is resolved.                               *)
LEMMA PermanentMoves ==
  ASSUME NEW t, Good(t), t.state # DESTROYED
  PROVE  LET o == PermanentError(t)
         IN  /\ Moves(t, o.t) /\ o.t.state = TERMINATED /\ ~o.ok
             /\ Fit(t) /\ "transport" \notin t.flags => Fit(o.t)
<1> DEFINE n == [t EXCEPT !.tp = FALSE]
           a == [n EXCEPT !.code = UNAVAILABLE]
           u == SetState(a, TERMINATED)
<1>0. t \in Transactions /\ t.state \in Int
  BY DEF Good, Transactions
<1>1. Good(n) /\ n.state = t.state /\ n.flags = t.flags /\ n.state \in Int
  BY <1>0, TpKept DEF Kept, Transactions
<1>2. /\ Moves(t, n) /\ (Fit(t) => Fit(n))
  BY <1>0 DEF Moves, Onward, Beats, Tells, Running, Rooted, Marked, Tame, Fit, Clean, Live, Transactions
<1> HIDE DEF n
<1>3. Good(a) /\ Quiet(n, a) /\ a.heap = n.heap /\ a.flags = n.flags
  <2>1. UNAVAILABLE \in Codes
    BY DEF Codes
  <2> QED BY <1>1, <2>1, CodeKept, CodeQuiet DEF Kept, Good
<1>4. Moves(n, a) /\ (Fit(n) => Fit(a)) /\ a.state = t.state
  BY <1>1, <1>3, QuietMoves DEF Quiet
<1> HIDE DEF a
<1>5. Moves(a, u) /\ (Fit(a) /\ "transport" \notin a.flags => Fit(u)) /\ u.state = TERMINATED
  BY <1>3, <1>4, EndMoves, SetTerminated
<1>6. PermanentError(t).t = u /\ PermanentError(t).ok = FALSE
  BY DEF PermanentError, Outcome, Terminate, a, n
<1> HIDE DEF u
<1>7. Moves(t, u)
  BY <1>0, <1>2, <1>4, <1>5, <1>1, MovesTrans
<1> QED BY <1>1, <1>2, <1>3, <1>4, <1>5, <1>6, <1>7

(* A send on the transaction's own transport.                              *)
LEMMA TransportMoves ==
  ASSUME NEW t, Good(t), NEW m, NEW o \in SendOnTransport(t, m),
         t.tp \/ "resolved" \in t.flags
  PROVE  /\ Moves(t, o.t) /\ o.ok /\ m \in o.t.wire /\ Calm(t, o.t)
         /\ Fit(t) /\ "transport" \notin t.flags => Fit(o.t)
         /\ o.t.state = t.state /\ o.t.last = t.last /\ t.flags \subseteq o.t.flags
<1> DEFINE a == [t EXCEPT !.flags = @ \cup {"transport"}, !.out = @ + 1, !.refs = @ + 1]
           u == o.t
<1>1. o.ok /\ (u = Emit(t, m) \/ (u = Emit(a, m) /\ "async" \in Faults))
  BY DEF SendOnTransport, Outcome
<1>2. t \in Transactions
  BY DEF Good
<1>3. /\ u.role = t.role /\ u.invite = t.invite /\ u.reliable = t.reliable
      /\ u.state = t.state /\ u.last = t.last /\ u.tp = t.tp /\ u.tx = t.tx
      /\ u.reg = t.reg /\ u.user = t.user /\ u.told = t.told
      /\ u.terms = t.terms /\ u.heap = t.heap /\ u.id = t.id
      /\ u.wire = t.wire \cup {m}
      /\ \/ u.out = t.out /\ u.flags = t.flags
         \/ /\ u.out = t.out + 1 /\ u.flags = t.flags \cup {"transport"}
            /\ "async" \in Faults
  BY <1>1, <1>2 DEF Emit, Transactions
<1>4. t.out \in Nat /\ t.state \in Int
  BY <1>2 DEF Transactions
<1> HIDE DEF u
<1>5. Tells(t, u) /\ (Marked(t) => Marked(u)) /\ (Rooted(t) => Rooted(u)) /\ (Tame(t) => Tame(u))
  BY <1>3, <1>4 DEF Tells, Marked, Rooted, Tame
<1>6. Onward(t, u)
  BY <1>3, <1>4, <1>5 DEF Onward
<1>7. Beats(t, u) /\ Calm(t, u)
  BY <1>3 DEF Beats, Calm, Steadfast, Running, Live
<1>8. Fit(t) /\ "transport" \notin t.flags => Fit(u)
  BY <1>3, <1>4 DEF Fit, Clean
<1> QED BY <1>1, <1>3, <1>6, <1>7, <1>8 DEF Moves, u

(* The message queued behind a send, once its transport is attached.       *)
LEMMA QueuedMoves ==
  ASSUME NEW t, Good(t), t.tp, "transport" \notin t.flags,
         t.state = DESTROYED => t.last = NoMsg, NEW u \in SendQueued(t)
  PROVE  /\ Moves(t, u) /\ (Fit(t) => Fit(u))
         /\ "fail" \notin Faults => Calm(t, u)
         /\ "resched" \in t.flags => "resched" \in u.flags \/ ~Live(u)
<1>0. t \in Transactions /\ t.state \in Int
  BY DEF Good, Transactions
<1>1. CASE u = t
  <2>1. Quiet(t, t) /\ Calm(t, t)
    BY DEF Quiet, Calm
  <2> QED BY <1>0, <1>1, <2>1, QuietMoves
<1>2. ASSUME NEW o \in SendOnTransport(t, t.last), u = o.t
      PROVE  /\ Moves(t, u) /\ (Fit(t) => Fit(u)) /\ Calm(t, u)
             /\ "resched" \in t.flags => "resched" \in u.flags
  <2> QED BY <1>2, TransportMoves
<1>3. CASE u = PermanentError(t).t /\ "fail" \in Faults /\ t.last # NoMsg
  <2>1. ~Live(u) /\ Moves(t, u) /\ (Fit(t) => Fit(u))
    BY <1>3, PermanentMoves DEF Live, TERMINATED
  <2> QED BY <1>3, <2>1
<1>4. \/ u = t
      \/ \E o \in SendOnTransport(t, t.last) : u = o.t
      \/ u = PermanentError(t).t /\ "fail" \in Faults /\ t.last # NoMsg
  BY DEF SendQueued
<1> QED BY <1>1, <1>2, <1>3, <1>4

(* The transport a stateless send has found.                               *)
LEMMA AttachedOnward ==
  ASSUME NEW t, Good(t), NEW u \in Attached(t)
  PROVE  /\ Onward(t, u) /\ (t.tx /\ Fit(t) => Fit(u)) /\ Calm(t, u)
         /\ u.tp /\ "transport" \notin u.flags /\ "resolved" \in u.flags
         /\ t.heap \subseteq u.heap /\ u.state = t.state
         /\ "resched" \in t.flags => "resched" \in u.flags
<1>1. PICK a : /\ \/ a \in Found(t)
                  \/ /\ "disc" \in Faults
                     /\ \E f \in Found(t) : a = PostTransportError(f)
               /\ u = [a EXCEPT !.tx = FALSE,
                                !.flags = (@ \ {"transport"}) \cup {"resolved"}]
  BY DEF Attached
<1>0. t \in Transactions /\ t.state \in Int
  BY DEF Good, Transactions
<1> DEFINE Like(v) ==
      /\ v \in Transactions
      /\ v.role = t.role /\ v.invite = t.invite /\ (t.reliable => v.reliable)
      /\ v.state = t.state /\ v.last = t.last /\ v.tp /\ v.tx = t.tx
      /\ v.out = t.out /\ v.reg = t.reg /\ v.user = t.user /\ v.told = t.told
      /\ v.terms = t.terms /\ v.wire = t.wire /\ v.flags = t.flags
      /\ t.heap \subseteq v.heap /\ (Tame(t) => Tame(v))
<1>2. ASSUME NEW f \in Found(t)
      PROVE  Good(f) /\ Like(f) /\ f.heap = t.heap
  <2>1. PICK rel \in {TRUE, t.reliable} : f = [t EXCEPT !.tp = TRUE, !.reliable = rel]
    BY DEF Found
  <2>2. Good(f) /\ f \in Transactions
    BY FoundKept DEF Kept, Good
  <2> QED BY <1>0, <2>1, <2>2 DEF Transactions, Tame
<1>3. Like(a)
  <2>1. CASE a \in Found(t)
    BY <1>2, <2>1
  <2>2. ASSUME NEW f \in Found(t), "disc" \in Faults, a = PostTransportError(f)
        PROVE  Like(a)
    <3>1. Good(f) /\ Like(f) /\ f.heap = t.heap
      BY <1>2
    <3>2. Quiet(f, a) /\ a.heap = f.heap \cup {"to"} /\ a.flags = f.flags
      BY <2>2, <3>1, ResetQuiet DEF PostTransportError, LateErrors
    <3>3. a \in Transactions
      BY <2>2, <3>1, PostKept DEF Kept, Good
    <3> QED BY <3>1, <3>2, <3>3 DEF Quiet
  <2> QED BY <1>1, <2>1, <2>2
<1>4. /\ u.role = t.role /\ u.invite = t.invite /\ (t.reliable => u.reliable)
      /\ u.state = t.state /\ u.last = t.last /\ u.tp /\ u.tx = FALSE
      /\ u.out = t.out /\ u.reg = t.reg /\ u.user = t.user /\ u.told = t.told
      /\ u.terms = t.terms /\ u.wire = t.wire
      /\ u.flags = (t.flags \ {"transport"}) \cup {"resolved"}
      /\ t.heap \subseteq u.heap /\ u.id = a.id
  BY <1>1, <1>3 DEF Transactions
<1>5. Tame(t) => Tame(u)
  BY <1>3, <1>4 DEF Tame
<1>6. Tells(t, u) /\ Rooted(u) /\ Marked(u)
  BY <1>4 DEF Tells, Rooted, Marked
<1>7. Onward(t, u)
  BY <1>0, <1>4, <1>5, <1>6 DEF Onward
<1>8. t.tx /\ Fit(t) => Fit(u)
  BY <1>4 DEF Fit, Clean
<1> QED BY <1>4, <1>7, <1>8 DEF Calm, Steadfast

(* The retransmission that waited for it.                                  *)
LEMMA WaitingQuiet ==
  ASSUME NEW t, Good(t)
  PROVE  LET u == StartWaiting(t)
         IN  /\ Quiet(t, u) /\ t.heap \subseteq u.heap
             /\ Running(t) \/ "resched" \in t.flags => Running(u)
<1> DEFINE d == Drop(t, {"resched"})
           u == StartWaiting(t)
<1>1. t \in Transactions /\ d \in Transactions
  BY DropKept DEF Kept, Good
<1>2. Quiet(t, d) /\ d.heap = t.heap
  BY <1>1, DropQuiet
<1> HIDE DEF d
<1>3. /\ Quiet(d, Retransmission(d)) /\ Retransmission(d).heap = d.heap \cup {"rt"}
  BY <1>1, RetransmissionQuiet
<1>4. CASE "resched" \notin t.flags
  <2>1. u = t /\ Quiet(t, t)
    BY <1>4 DEF StartWaiting, Quiet
  <2> QED BY <1>4, <2>1
<1>5. CASE "resched" \in t.flags /\ t.reliable
  <2>1. u = d
    BY <1>5 DEF StartWaiting, d
  <2> QED BY <1>2, <1>5, <2>1 DEF Quiet, Running
<1>6. CASE "resched" \in t.flags /\ ~t.reliable
  <2>1. u = Retransmission(d)
    BY <1>6 DEF StartWaiting, d
  <2>2. Quiet(t, u)
    BY <1>2, <1>3, <2>1, QuietTrans
  <2>3. u.heap = t.heap \cup {"rt"}
    BY <1>2, <1>3, <2>1
  <2> QED BY <2>2, <2>3 DEF Running
<1> QED BY <1>4, <1>5, <1>6

(* send_msg_callback() after the message went out.                         *)
LEMMA SentOkMoves ==
  ASSUME NEW t, Good(t), t.state = DESTROYED => t.last = NoMsg, NEW u \in SentOk(t)
  PROVE  /\ Moves(t, u) /\ (t.tx /\ Fit(t) => Fit(u)) /\ "resolved" \in u.flags
         /\ "fail" \notin Faults /\ (Live(t) => "destroy" \notin t.flags) => Calm(t, u)
<1>0. t.state \in Int
  BY DEF Good, Transactions
<1>1. PICK a \in Attached(t) :
        \/ "destroy" \in a.flags /\ u = SetState(a, DESTROYED)
        \/ /\ "destroy" \notin a.flags
           /\ \E b \in SendQueued(Drop(a, {"send"})) : u = StartWaiting(b)
        \/ u = StartWaiting(a)
  BY DEF SentOk
<1>2. Good(a) /\ a \in Transactions
  BY AttachedKept DEF Kept, Good
<1>3. /\ Onward(t, a) /\ (t.tx /\ Fit(t) => Fit(a)) /\ Calm(t, a)
      /\ a.tp /\ "transport" \notin a.flags /\ "resolved" \in a.flags
      /\ t.heap \subseteq a.heap /\ a.state = t.state
      /\ "resched" \in t.flags => "resched" \in a.flags
  BY AttachedOnward
<1>4. Running(t) => Running(a) \/ "resched" \in a.flags
  BY <1>3 DEF Running, Onward
<1>5. CASE "destroy" \in a.flags /\ u = SetState(a, DESTROYED)
  <2>1. Moves(a, u) /\ u.state = DESTROYED /\ u.terms = a.terms
    BY <1>2, <1>5, DestroyMoves, SetDestroyed
  <2>2. Onward(t, u)
    BY <1>0, <1>3, <2>1, OnwardTrans DEF Moves
  <2>3. Beats(t, u) /\ ~Live(u)
    BY <2>1 DEF Beats, Live, TERMINATED, DESTROYED
  <2>4. ~(t.tx /\ Fit(t))
    BY <1>3, <1>5 DEF Fit
  <2>5. "resolved" \in u.flags
    BY <1>3, <2>1 DEF Moves, Onward
  <2>6. "destroy" \in t.flags
    BY <1>3, <1>5 DEF Onward
  <2>7. (Live(t) => "destroy" \notin t.flags) => Calm(t, u)
    BY <1>3, <2>1, <2>3, <2>6 DEF Calm, Steadfast
  <2> QED BY <2>2, <2>3, <2>4, <2>5, <2>7 DEF Moves
<1>6. ASSUME NEW d, Good(d), Quiet(a, d), d.heap = a.heap,
             "resched" \in a.flags => "resched" \in d.flags,
             NEW b, Good(b), Moves(d, b), Fit(d) => Fit(b),
             "fail" \notin Faults => Calm(d, b),
             "resched" \in d.flags => "resched" \in b.flags \/ ~Live(b),
             u = StartWaiting(b)
      PROVE  /\ Moves(t, u) /\ (t.tx /\ Fit(t) => Fit(u)) /\ "resolved" \in u.flags
             /\ "fail" \notin Faults => Calm(t, u)
  <2>1. /\ Quiet(b, u) /\ b.heap \subseteq u.heap
        /\ Running(b) \/ "resched" \in b.flags => Running(u)
    BY <1>6, WaitingQuiet
  <2>2. a.state \in Int /\ b.state \in Int /\ d.state \in Int
    BY <1>2, <1>6 DEF Good, Transactions
  <2>3. /\ Onward(a, d) /\ (Fit(a) => Fit(d))
        /\ Onward(b, u) /\ (Fit(b) => Fit(u))
    BY <1>6, <2>1, <2>2, QuietOnward
  <2>4. Onward(a, b)
    BY <1>6, <2>2, <2>3, OnwardTrans DEF Moves
  <2>5. Onward(t, u)
    BY <1>0, <1>3, <2>2, <2>3, <2>4, OnwardTrans
  <2>6. d.state = t.state /\ u.state = b.state
    BY <1>3, <1>6, <2>1 DEF Quiet
  <2>7. u.state = TERMINATED /\ t.state # TERMINATED => "to" \in u.heap
    BY <1>6, <2>1, <2>6 DEF Moves, Beats
  <2>8. "to" \in t.heap => "to" \in u.heap \/ u.state = DESTROYED
    BY <1>3, <1>6, <2>1, <2>6 DEF Moves, Beats
  <2>9. Running(t) => Running(u) \/ ~Live(u)
    <3>1. Running(a) => Running(d) \/ "resched" \in d.flags
      BY <1>6 DEF Quiet, Running
    <3>2. Live(u) <=> Live(b)
      BY <2>6 DEF Live
    <3> QED BY <1>4, <1>6, <2>1, <3>1, <3>2 DEF Moves, Beats
  <2>10. "fail" \notin Faults => Calm(t, u)
    <3>1. Calm(a, d) /\ Calm(b, u)
      BY <1>6, <2>1 DEF Quiet, Calm, Steadfast, Live
    <3>2. a.state = t.state /\ (Steadfast(t) => Steadfast(a)) /\ a.terms = t.terms
      BY <1>3 DEF Calm
    <3> QED BY <1>6, <2>6, <3>1, <3>2 DEF Calm, Live
  <2>11. "resolved" \in u.flags
    BY <1>3, <2>3, <2>4 DEF Onward
  <2> QED BY <1>3, <2>3, <2>5, <2>7, <2>8, <2>9, <2>10, <2>11, <1>6 DEF Moves, Beats
<1>7. CASE u = StartWaiting(a)
  <2>1. Quiet(a, a) /\ Calm(a, a)
    BY DEF Quiet, Calm
  <2>2. Moves(a, a)
    BY <1>0, <1>3, <2>1, QuietMoves
  <2> QED BY <1>2, <1>6, <1>7, <2>1, <2>2
<1>8. ASSUME NEW b \in SendQueued(Drop(a, {"send"})), u = StartWaiting(b)
      PROVE  /\ Moves(t, u) /\ (t.tx /\ Fit(t) => Fit(u)) /\ "resolved" \in u.flags
             /\ "fail" \notin Faults => Calm(t, u)
  <2> DEFINE d == Drop(a, {"send"})
  <2>1. Good(d)
    BY <1>2, DropKept DEF Kept
  <2>2. Quiet(a, d) /\ d.heap = a.heap /\ d.flags = a.flags \ {"send"}
    BY <1>2, DropQuiet
  <2> HIDE DEF d
  <2>3. d.tp /\ "transport" \notin d.flags /\ (d.state = DESTROYED => d.last = NoMsg)
    BY <1>3, <2>2 DEF Quiet, Onward
  <2>4. b \in SendQueued(d)
    BY DEF d
  <2>5. Good(b)
    BY <2>1, <2>4, SendQueuedKept DEF Kept
  <2>6. /\ Moves(d, b) /\ (Fit(d) => Fit(b))
        /\ "fail" \notin Faults => Calm(d, b)
        /\ "resched" \in d.flags => "resched" \in b.flags \/ ~Live(b)
    BY <2>1, <2>3, <2>4, QueuedMoves
  <2> QED BY <1>6, <1>8, <2>1, <2>2, <2>5, <2>6
<1> QED BY <1>1, <1>5, <1>7, <1>8

(* send_msg_callback() when no server is left: what lives ends.            *)
LEMMA SentErrorMoves ==
  ASSUME NEW t, Good(t)
  PROVE  LET u == SentError(t)
         IN  /\ Moves(t, u) /\ (t.tx /\ Fit(t) => Fit(u))
             /\ "resolved" \in u.flags /\ ~Live(u)
             /\ Live(t) => u.state = TERMINATED
             /\ ~Live(t) => Calm(t, u)
<1> DEFINE a == [t EXCEPT !.tx = FALSE, !.code = UNAVAILABLE,
                          !.flags = (@ \ {"transport"}) \cup {"resolved"}]
           u == SentError(t)
<1>0. t \in Transactions /\ t.state \in NULL .. DESTROYED /\ t.state \in Int
  BY DEF Good, Transactions, NULL, DESTROYED
<1>1. /\ a.role = t.role /\ a.invite = t.invite /\ a.reliable = t.reliable
      /\ a.state = t.state /\ a.last = t.last /\ a.tp = t.tp /\ a.tx = FALSE
      /\ a.out = t.out /\ a.reg = t.reg /\ a.user = t.user /\ a.told = t.told
      /\ a.terms = t.terms /\ a.wire = t.wire /\ a.heap = t.heap /\ a.id = t.id
      /\ a.flags = (t.flags \ {"transport"}) \cup {"resolved"}
  BY <1>0 DEF Transactions
<1>2. Good(a)
  <2>1. a \in Transactions
    <3>1. UNAVAILABLE \in Codes /\ (t.flags \ {"transport"}) \cup {"resolved"} \in SUBSET Flags
      BY <1>0 DEF Transactions, Codes, Flags
    <3> QED BY <1>0, <3>1 DEF Transactions
  <2>2. a.refs = t.refs /\ a.live = t.live
    BY <1>0 DEF Transactions
  <2> HIDE DEF a
  <2> QED BY <1>1, <2>1, <2>2, SameRefs DEF Good, Kept
<1>3. u = IF a.state < TERMINATED THEN SetState(a, TERMINATED)
          ELSE IF "destroy" \in a.flags THEN SetState(a, DESTROYED) ELSE a
  BY DEF SentError
<1> HIDE DEF a, u
<1>4. Onward(t, a) /\ "resolved" \in a.flags /\ "transport" \notin a.flags
  <2>1. Tells(t, a) /\ Rooted(a) /\ Marked(a) /\ (Tame(t) => Tame(a))
    BY <1>1 DEF Tells, Rooted, Marked, Tame
  <2> QED BY <1>0, <1>1, <2>1 DEF Onward
<1>5. t.tx /\ Fit(t) => Fit(a)
  BY <1>1 DEF Fit, Clean
<1>6. Moves(a, u) /\ (Live(t) => u.state = TERMINATED) /\ (Fit(a) => Fit(u))
  <2>1. CASE a.state < TERMINATED
    <3>1. u = SetState(a, TERMINATED) /\ a.state # DESTROYED
      BY <1>3, <2>1 DEF TERMINATED, DESTROYED
    <3> QED BY <1>2, <1>4, <3>1, EndMoves, SetTerminated
  <2>2. CASE ~(a.state < TERMINATED) /\ "destroy" \in a.flags
    <3>1. ~Live(t) /\ ~Fit(a)
      BY <1>1, <2>2 DEF Live, Fit
    <3>2. u = SetState(a, DESTROYED)
      BY <1>3, <2>2
    <3> QED BY <1>2, <2>2, <3>1, <3>2, DestroyMoves
  <2>3. CASE ~(a.state < TERMINATED) /\ "destroy" \notin a.flags
    <3>1. ~Live(t) /\ u = a
      BY <1>1, <1>3, <2>3 DEF Live
    <3>2. Quiet(a, a) /\ a.state \in Int
      BY <1>0, <1>1 DEF Quiet
    <3>3. Moves(a, a)
      BY <3>2, QuietMoves
    <3> QED BY <3>1, <3>3
  <2> QED BY <2>1, <2>2, <2>3
<1>7. Onward(t, u)
  BY <1>0, <1>4, <1>6, OnwardTrans DEF Moves
<1>8. ~Live(u)
  BY <1>0, <1>1, <1>6 DEF Moves, Onward, Live, TERMINATED, DESTROYED, NULL
<1>9. Beats(t, u)
  BY <1>1, <1>6, <1>8 DEF Moves, Beats
<1>10. /\ Moves(t, u) /\ (t.tx /\ Fit(t) => Fit(u))
       /\ "resolved" \in u.flags /\ ~Live(u) /\ (Live(t) => u.state = TERMINATED)
  BY <1>4, <1>5, <1>6, <1>7, <1>8, <1>9 DEF Moves, Onward
<1>11. ASSUME ~Live(t) PROVE Calm(t, u)
  <2>1. u.terms = t.terms
    BY <1>1, <1>2, <1>3, <1>11, SetDestroyed DEF Live
  <2> QED BY <1>8, <1>11, <2>1 DEF Calm, Steadfast
<1> QED BY <1>10, <1>11 DEF u

(* A stateless send is out, and another server is tried.                   *)
LEMMA TxMoves ==
  ASSUME NEW t \in Transactions
  PROVE  LET u == [t EXCEPT !.tx = TRUE]
         IN  /\ Moves(t, u) /\ Calm(t, u) /\ u.flags = t.flags /\ u.heap = t.heap
             /\ u.state = t.state /\ u.out = t.out /\ u.tx /\ u.wire = t.wire
             /\ Fit(t) /\ t.tx => Fit(u)
<1> DEFINE u == [t EXCEPT !.tx = TRUE]
<1>1. /\ u.role = t.role /\ u.invite = t.invite /\ u.reliable = t.reliable
      /\ u.state = t.state /\ u.last = t.last /\ u.tp = t.tp /\ u.tx = TRUE
      /\ u.out = t.out /\ u.reg = t.reg /\ u.user = t.user /\ u.told = t.told
      /\ u.terms = t.terms /\ u.wire = t.wire /\ u.heap = t.heap /\ u.id = t.id
      /\ u.flags = t.flags /\ t.state \in Int
  BY DEF Transactions
<1> HIDE DEF u
<1>2. Tells(t, u) /\ (Rooted(t) => Rooted(u)) /\ (Marked(t) => Marked(u)) /\ (Tame(t) => Tame(u))
  BY <1>1 DEF Tells, Rooted, Marked, Tame
<1>3. Moves(t, u) /\ Calm(t, u)
  BY <1>1, <1>2 DEF Moves, Onward, Beats, Running, Live, Calm, Steadfast
<1> QED BY <1>1, <1>3 DEF Fit, Clean, u

LEMMA SentNextMoves ==
  ASSUME NEW t, Good(t)
  PROVE  LET u == SentNext(t)
         IN  /\ Moves(t, u) /\ (t.tx /\ Fit(t) => Fit(u) /\ u.tx)
             /\ (Live(t) => "destroy" \notin t.flags) => Calm(t, u)
             /\ "destroy" \notin t.flags => u.state = t.state /\ u.flags = t.flags
<1> DEFINE a == [t EXCEPT !.tx = TRUE]
           r == ResetTimeout(a, TIMEOUT_TIMER, "64T1")
           u == SentNext(t)
<1>0. t \in Transactions /\ t.state \in Int
  BY DEF Good, Transactions
<1>1. CASE "destroy" \in t.flags
  <2>1. u = SentError(t)
    BY <1>1 DEF SentNext
  <2>2. ~Fit(t)
    BY <1>1 DEF Fit
  <2> QED BY <1>1, <2>1, <2>2, SentErrorMoves
<1>2. CASE "destroy" \notin t.flags
  <2>1. Good(a)
    <3>1. a = [t EXCEPT !.tx = TRUE, !.flags = t.flags]
      BY <1>0 DEF Transactions
    <3>2. t.flags \in SUBSET Flags
      BY <1>0 DEF Transactions
    <3> QED BY <3>1, <3>2, TxKept, Zenon DEF Kept
  <2>2. /\ Moves(t, a) /\ Calm(t, a) /\ a.flags = t.flags /\ a.heap = t.heap
        /\ a.state = t.state /\ a.tx /\ (Fit(t) /\ t.tx => Fit(a))
    BY <1>0, TxMoves
  <2>3. u = r \/ u = a
    BY <1>2 DEF SentNext
  <2> HIDE DEF a
  <2>4. Quiet(a, r) /\ r.heap = a.heap \cup {"to"} /\ r.flags = a.flags
    BY <2>1, ResetQuiet DEF TIMEOUT_TIMER, TRANSPORT_ERR_TIMER
  <2>5. Moves(a, r) /\ (Fit(a) => Fit(r))
    BY <1>0, <2>2, <2>4, QuietMoves
  <2>6. Moves(t, r) /\ Calm(t, r) /\ r.tx /\ r.state = t.state
    <3>1. Moves(t, r)
      BY <1>0, <2>2, <2>5, MovesTrans
    <3> QED BY <2>2, <2>4, <3>1 DEF Quiet, Calm, Steadfast, Live
  <2> QED BY <1>2, <2>2, <2>3, <2>4, <2>5, <2>6
<1> QED BY <1>1, <1>2

(* A stateless send that was taken or refused.                             *)
LEMMA AttemptMoves ==
  ASSUME NEW t, Good(t), NEW m \in Msgs, "transport" \notin t.flags
  PROVE  LET p == Attempt(t, m)
         IN  /\ Good(p) /\ Moves(t, p) /\ Calm(t, p) /\ (Fit(t) => Fit(p))
             /\ p.state = t.state /\ p.last = t.last /\ p.tx /\ m \in p.wire
             /\ Marked(p) /\ ("destroy" \in p.flags <=> "destroy" \in t.flags)
<1> DEFINE q == [t EXCEPT !.flags = @ \cup {"transport"}, !.tx = TRUE]
           p == Attempt(t, m)
<1>0. t \in Transactions
  BY DEF Good
<1>1. /\ p.role = t.role /\ p.invite = t.invite /\ p.reliable = t.reliable
      /\ p.state = t.state /\ p.last = t.last /\ p.tp = t.tp /\ p.tx = TRUE
      /\ p.out = t.out /\ p.reg = t.reg /\ p.user = t.user /\ p.told = t.told
      /\ p.terms = t.terms /\ p.wire = t.wire \cup {m} /\ p.heap = t.heap /\ p.id = t.id
      /\ p.flags = t.flags \cup {"transport"} /\ t.state \in Int
  BY <1>0 DEF Attempt, Emit, Transactions
<1>2. Good(p)
  <2>1. t.flags \cup {"transport"} \in SUBSET Flags
    BY <1>0 DEF Transactions, Flags
  <2>2. q = [t EXCEPT !.tx = TRUE, !.flags = t.flags \cup {"transport"}]
    BY <1>0 DEF Transactions
  <2>3. Kept(t, [t EXCEPT !.tx = TRUE, !.flags = t.flags \cup {"transport"}])
    BY <2>1, TxKept, Zenon
  <2>4. Good(q)
    BY <2>2, <2>3 DEF Kept
  <2> HIDE DEF q
  <2> QED BY <2>4, EmitKept DEF Kept, Attempt, q
<1> HIDE DEF p
<1>3. Tells(t, p) /\ (Rooted(t) => Rooted(p)) /\ Marked(p) /\ (Tame(t) => Tame(p))
  BY <1>1 DEF Tells, Rooted, Marked, Tame
<1>4. Moves(t, p) /\ Calm(t, p)
  BY <1>1, <1>3 DEF Moves, Onward, Beats, Running, Live, Calm, Steadfast
<1>5. Fit(t) => Fit(p)
  BY <1>1 DEF Fit, Clean
<1> QED BY <1>1, <1>2, <1>3, <1>4, <1>5 DEF p

LEMMA RefusalMoves ==
  ASSUME NEW t, Good(t), "transport" \notin t.flags
  PROVE  LET p == Refusal(t)
         IN  /\ Moves(t, p) /\ Calm(t, p) /\ (Fit(t) => Fit(p)) /\ Marked(p)
<1> DEFINE p == Refusal(t)
<1>1. /\ p.role = t.role /\ p.invite = t.invite /\ p.reliable = t.reliable
      /\ p.state = t.state /\ p.last = t.last /\ p.tp = t.tp /\ p.tx = t.tx
      /\ p.out = t.out /\ p.reg = t.reg /\ p.user = t.user /\ p.told = t.told
      /\ p.terms = t.terms /\ p.wire = t.wire /\ p.heap = t.heap /\ p.id = t.id
      /\ p.flags = t.flags \cup {"transport"} /\ t.state \in Int
  BY DEF Good, Refusal, Transactions
<1> HIDE DEF p
<1>3. Tells(t, p) /\ (Rooted(t) => Rooted(p)) /\ Marked(p) /\ (Tame(t) => Tame(p))
  BY <1>1 DEF Tells, Rooted, Marked, Tame
<1>4. Moves(t, p) /\ Calm(t, p)
  BY <1>1, <1>3 DEF Moves, Onward, Beats, Running, Live, Calm, Steadfast
<1>5. Fit(t) => Fit(p)
  BY <1>1 DEF Fit, Clean
<1> QED BY <1>3, <1>4, <1>5 DEF p

(* Calm steps compose as long as the transaction lives.                    *)
LEMMA CalmTrans ==
  ASSUME NEW t, NEW u, NEW v, Calm(t, u), Calm(u, v) PROVE Calm(t, v)
  BY DEF Calm, Live

(* Whatever becomes of a stateless send, the transaction has its server    *)
(* or a send pending, and a taken message has gone out.                    *)
LEMMA SendStatelessMoves ==
  ASSUME NEW t, Good(t), NEW m \in Msgs, "transport" \notin t.flags,
         t.state = DESTROYED => t.last = NoMsg, NEW o \in SendStateless(t, m)
  PROVE  /\ Moves(t, o.t) /\ (Fit(t) => Fit(o.t)) /\ Marked(o.t)
         /\ o.ok => m \in o.t.wire
         /\ "fail" \notin Faults /\ Live(t) /\ "destroy" \notin t.flags => Calm(t, o.t)
<1> DEFINE p == Attempt(t, m)
           n == SentNext(p)
           Goal(u) == /\ Moves(t, u) /\ (Fit(t) => Fit(u)) /\ Marked(u) /\ m \in u.wire
                      /\ "fail" \notin Faults /\ Live(t) /\ "destroy" \notin t.flags
                            => Calm(t, u)
<1>0. t.state \in Int
  BY DEF Good, Transactions
<1>1. /\ Good(p) /\ Moves(t, p) /\ Calm(t, p) /\ (Fit(t) => Fit(p))
      /\ p.state = t.state /\ p.last = t.last /\ p.tx /\ m \in p.wire
      /\ Marked(p) /\ ("destroy" \in p.flags <=> "destroy" \in t.flags)
  BY AttemptMoves
<1>2. Good(n)
  BY <1>1, SentNextKept DEF Kept
<1> HIDE DEF p
<1>3. /\ Moves(p, n) /\ (p.tx /\ Fit(p) => Fit(n) /\ n.tx)
      /\ (Live(p) => "destroy" \notin p.flags) /\ Live(p) => Calm(p, n)
      /\ "destroy" \notin p.flags => n.state = p.state /\ n.flags = p.flags
  BY <1>1, SentNextMoves
<1>4. n.state = DESTROYED => n.last = NoMsg
  BY <1>1, <1>3 DEF Moves, Onward
<1>5. Goal(p)
  BY <1>1 DEF Live
<1>6. Goal(n)
  <2>1. Moves(t, n)
    BY <1>0, <1>1, <1>3, MovesTrans
  <2>2. Marked(n)
    <3>1. CASE "destroy" \in p.flags
      <4>1. n = SentError(p)
        BY <3>1 DEF SentNext
      <4> QED BY <1>1, <4>1, SentErrorMoves DEF Marked
    <3>2. CASE "destroy" \notin p.flags
      BY <1>1, <1>3, <3>2 DEF Marked
    <3> QED BY <3>1, <3>2
  <2>3. m \in n.wire
    BY <1>1, <1>3 DEF Moves, Onward
  <2>4. Live(t) /\ "destroy" \notin t.flags => Calm(t, n)
    <3>1. Live(p) <=> Live(t)
      BY <1>1 DEF Live
    <3> QED BY <1>1, <1>3, <3>1, CalmTrans
  <2> QED BY <1>1, <1>3, <2>1, <2>2, <2>3, <2>4
<1> HIDE DEF n
<1>7. ASSUME NEW r, Good(r), Goal(r), Fit(t) => r.tx, r.state = DESTROYED => r.last = NoMsg,
             t.state < TERMINATED /\ "destroy" \notin t.flags => "destroy" \notin r.flags,
             NEW u \in SentOk(r)
      PROVE  Goal(u)
  <2>1. /\ Moves(r, u) /\ (r.tx /\ Fit(r) => Fit(u)) /\ "resolved" \in u.flags
        /\ "fail" \notin Faults /\ (Live(r) => "destroy" \notin r.flags) => Calm(r, u)
    BY <1>7, SentOkMoves
  <2>2. Moves(t, u)
    BY <1>0, <1>7, <2>1, MovesTrans
  <2>3. Marked(u) /\ m \in u.wire
    BY <1>7, <2>1 DEF Moves, Onward, Marked
  <2>4. "fail" \notin Faults /\ Live(t) /\ "destroy" \notin t.flags => Calm(t, u)
    BY <1>7, <2>1, CalmTrans DEF Live
  <2> QED BY <1>7, <2>1, <2>2, <2>3, <2>4
<1>8. \A u \in SentOk(p) : Goal(u)
  BY <1>1, <1>5, <1>7
<1>9. \A u \in SentOk(n) : Goal(u)
  BY <1>1, <1>2, <1>3, <1>4, <1>6, <1>7
<1>10. CASE o.t \in {p, n} \/ o.t \in SentOk(p) \/ o.t \in SentOk(n)
  BY <1>5, <1>6, <1>8, <1>9, <1>10
<1>11. CASE "fail" \in Faults /\ o.t = SentError(p)
  <2>1. /\ Moves(p, o.t) /\ (p.tx /\ Fit(p) => Fit(o.t)) /\ "resolved" \in o.t.flags
    BY <1>1, <1>11, SentErrorMoves
  <2>2. Moves(t, o.t) /\ m \in o.t.wire
    <3>1. m \in o.t.wire
      BY <1>1, <2>1 DEF Moves, Onward
    <3> QED BY <1>0, <1>1, <2>1, <3>1, MovesTrans
  <2> QED BY <1>1, <1>11, <2>1, <2>2 DEF Marked
<1>12. CASE o.t = Refusal(t) /\ o.ok = FALSE
  BY <1>12, RefusalMoves
<1> QED BY <1>10, <1>11, <1>12, StatelessCases DEF p, n

(* tsx_send_msg(), whichever way it goes.  A client that is marked fails   *)
(* only by ending, a message that was taken has gone out or waits behind   *)
(* the send that is pending, and a stateless send that is out stays out.   *)
LEMMA SendMsgMoves ==
  ASSUME NEW t, Good(t), t.state # DESTROYED, NEW m \in Msgs, NEW o \in SendMsg(t, m)
  PROVE  /\ Moves(t, o.t) /\ (Fit(t) => Fit(o.t))
         /\ t.role = "UAC" /\ Rooted(t) /\ Live(t) /\ Fit(t) => Marked(o.t)
         /\ t.role = "UAC" /\ Marked(t) /\ ~o.ok => o.t.state = TERMINATED
         /\ Live(t) /\ Fit(t) /\ o.ok =>
               m \in o.t.wire \/ {"transport", "send"} \subseteq o.t.flags
         /\ Fit(t) /\ t.tx => o.t.tx
         /\ "fail" \notin Faults /\ Live(t) /\ Fit(t) /\ Steadfast(t) => Calm(t, o.t)
<1> DEFINE n == [t EXCEPT !.tp = FALSE]
           f == [t EXCEPT !.flags = @ \cup {"send"}]
           u == o.t
<1>0. t \in Transactions /\ t.state \in Int
  BY DEF Good, Transactions
<1>1. CASE "transport" \in t.flags
  <2>1. u = f /\ o.ok = TRUE
    BY <1>1 DEF SendMsg, Outcome
  <2>2. Quiet(t, f) /\ f.heap = t.heap /\ f.flags = t.flags \cup {"send"}
    BY <1>0 DEF Quiet, Tame, Transactions
  <2> HIDE DEF f, u
  <2>3. Moves(t, u) /\ (Fit(t) => Fit(u))
    BY <1>0, <2>1, <2>2, QuietMoves
  <2>4. Calm(t, u) /\ Marked(u) /\ u.tx = t.tx /\ {"transport", "send"} \subseteq u.flags
    BY <1>1, <2>1, <2>2 DEF Quiet, Calm, Steadfast, Live, Marked
  <2> QED BY <2>1, <2>3, <2>4 DEF u
<1>2. CASE o = Outcome(t, TRUE) /\ (t.out > 0 \/ t.state >= TERMINATED) /\ "transport" \notin t.flags
  <2>1. u = t /\ o.ok = TRUE
    BY <1>2 DEF Outcome
  <2>2. Quiet(t, t)
    BY DEF Quiet
  <2>3. Moves(t, t)
    BY <1>0, <2>2, QuietMoves
  <2>4. ~(Live(t) /\ Fit(t))
    BY <1>0, <1>2 DEF Live, Fit, Clean, TERMINATED
  <2> HIDE DEF u
  <2> QED BY <2>1, <2>3, <2>4 DEF u
<1>3. CASE o \in SendOnTransport(t, m) /\ t.tp /\ "transport" \notin t.flags
  <2>1. /\ Moves(t, u) /\ o.ok /\ m \in u.wire /\ Calm(t, u)
        /\ Fit(t) /\ "transport" \notin t.flags => Fit(u)
        /\ t.flags \subseteq u.flags
    BY <1>3, TransportMoves
  <2>2. t.role = "UAC" /\ Rooted(t) => Marked(u)
    BY <1>3, <2>1 DEF Rooted, Marked
  <2>3. ~(Fit(t) /\ t.tx)
    BY <1>3 DEF Fit, Clean
  <2> HIDE DEF u
  <2> QED BY <1>3, <2>1, <2>2, <2>3 DEF u
<1>4. CASE /\ o = PermanentError(t) /\ "resolved" \in t.flags /\ "transport" \notin t.flags
           /\ "fail" \in Faults \/ ~t.tp
  <2>1. /\ Moves(t, u) /\ u.state = TERMINATED /\ ~o.ok /\ (Fit(t) => Fit(u))
    BY <1>4, PermanentMoves
  <2>2. "resolved" \in u.flags
    BY <1>4, <2>1 DEF Moves, Onward
  <2>3. ~(Fit(t) /\ t.tx)
    BY <1>4 DEF Fit, Clean
  <2>4. ~("fail" \notin Faults /\ Live(t) /\ Steadfast(t))
    BY <1>4 DEF Steadfast
  <2> HIDE DEF u
  <2> QED BY <2>1, <2>2, <2>3, <2>4 DEF u, Marked
<1>5. ASSUME NEW r \in {t, n}, o \in SendStateless(r, m),
             r = t \/ "fail" \in Faults,
             "resolved" \notin t.flags, "transport" \notin t.flags
      PROVE  /\ Moves(t, u) /\ (Fit(t) => Fit(u)) /\ Marked(u) /\ ~Marked(t)
             /\ o.ok => m \in u.wire
             /\ ~(Fit(t) /\ t.tx)
             /\ "fail" \notin Faults /\ Live(t) /\ Fit(t) => Calm(t, u)
  <2>1. /\ Good(r) /\ r.flags = t.flags /\ r.state = t.state
        /\ Moves(t, r) /\ (Fit(t) => Fit(r)) /\ (r = t => Calm(t, r))
    <3>1. CASE r = t
      <4>1. Quiet(t, t) /\ Calm(t, t)
        BY DEF Quiet, Calm
      <4> QED BY <1>0, <3>1, <4>1, QuietMoves
    <3>2. CASE r = n
      <4>1. Good(n)
        BY TpKept DEF Kept
      <4>2. /\ n.role = t.role /\ n.invite = t.invite /\ n.reliable = t.reliable
            /\ n.state = t.state /\ n.last = t.last /\ n.tp = FALSE /\ n.tx = t.tx
            /\ n.out = t.out /\ n.reg = t.reg /\ n.user = t.user /\ n.told = t.told
            /\ n.terms = t.terms /\ n.wire = t.wire /\ n.heap = t.heap /\ n.id = t.id
            /\ n.flags = t.flags
        BY <1>0 DEF Transactions
      <4> HIDE DEF n
      <4>3. Tells(t, n) /\ (Rooted(t) => Rooted(n)) /\ (Marked(t) => Marked(n)) /\ (Tame(t) => Tame(n))
        BY <4>2 DEF Tells, Rooted, Marked, Tame
      <4>4. Moves(t, n)
        BY <1>0, <4>2, <4>3 DEF Moves, Onward, Beats, Running
      <4>5. Fit(t) => Fit(n)
        BY <4>2 DEF Fit, Clean
      <4>6. n = t => Calm(t, n)
        BY DEF Calm
      <4> QED BY <3>2, <4>1, <4>2, <4>4, <4>5, <4>6
    <3> QED BY <3>1, <3>2
  <2>2. /\ Moves(r, u) /\ (Fit(r) => Fit(u)) /\ Marked(u)
        /\ o.ok => m \in u.wire
        /\ "fail" \notin Faults /\ Live(r) /\ "destroy" \notin r.flags => Calm(r, u)
    BY <1>5, <2>1, SendStatelessMoves
  <2>3. Moves(t, u)
    BY <1>0, <2>1, <2>2, MovesTrans
  <2>4. "fail" \notin Faults /\ Live(t) /\ Fit(t) => Calm(t, u)
    BY <1>5, <2>1, <2>2 DEF Fit
  <2>5. ~Marked(t) /\ ~(Fit(t) /\ t.tx)
    BY <1>5 DEF Marked, Fit, Clean
  <2> QED BY <2>1, <2>2, <2>3, <2>4, <2>5
<1>6. \/ "transport" \in t.flags
      \/ /\ "transport" \notin t.flags
         /\ \/ o = Outcome(t, TRUE) /\ (t.out > 0 \/ t.state >= TERMINATED)
            \/ o \in SendOnTransport(t, m) /\ t.tp
            \/ /\ o = PermanentError(t) /\ "resolved" \in t.flags
               /\ "fail" \in Faults \/ ~t.tp
            \/ \E r \in {t, n} : /\ o \in SendStateless(r, m)
                                 /\ r = t \/ "fail" \in Faults
                                 /\ "resolved" \notin t.flags
  BY DEF SendMsg
<1>7. CASE \E r \in {t, n} : /\ o \in SendStateless(r, m)
                             /\ r = t \/ "fail" \in Faults
                             /\ "resolved" \notin t.flags /\ "transport" \notin t.flags
  <2> HIDE DEF n, u
  <2> QED BY <1>5, <1>7 DEF u
<1> QED BY <1>1, <1>2, <1>3, <1>4, <1>6, <1>7

(* tsx_retransmit(): with a message saved, the timer that fired runs again. *)
LEMMA RetransmitMoves ==
  ASSUME NEW t, Good(t), t.state # DESTROYED, NEW resched \in BOOLEAN,
         NEW u \in Retransmit(t, resched)
  PROVE  /\ Moves(t, u) /\ (Fit(t) => Fit(u))
         /\ Fit(t) /\ t.tx => u.tx
         /\ "fail" \notin Faults /\ Live(t) /\ Fit(t) /\ Steadfast(t) => Calm(t, u)
         /\ resched /\ t.last # NoMsg => Running(u) \/ ~Live(u)
<1> DEFINE a == IF resched THEN StartRetransmission(t) ELSE t
<1>0. t \in Transactions /\ t.state \in Int
  BY DEF Good, Transactions
<1>1. CASE (resched /\ "rt" \in t.heap) \/ t.last = NoMsg
  <2>1. u = t /\ Quiet(t, t) /\ Calm(t, t)
    BY <1>1 DEF Retransmit, Quiet, Calm
  <2>2. Moves(t, t)
    BY <1>0, <2>1, QuietMoves
  <2> QED BY <1>1, <2>1, <2>2 DEF Running
<1>2. CASE ~((resched /\ "rt" \in t.heap) \/ t.last = NoMsg)
  <2>1. Quiet(t, a) /\ (resched => Running(a)) /\ t.heap \subseteq a.heap /\ t.flags \subseteq a.flags
    <3>1. Quiet(t, t)
      BY DEF Quiet
    <3> QED BY <1>0, <3>1, StartQuiet
  <2>2. Good(a)
    BY StartRetransmissionKept DEF Kept
  <2>3. PICK o \in SendMsg(a, a.last) : u = o.t
    BY <1>2 DEF Retransmit
  <2> HIDE DEF a
  <2>4. a.last \in Msgs /\ a.state # DESTROYED /\ a.tx = t.tx /\ (Live(a) <=> Live(t))
    BY <1>0, <1>2, <2>1 DEF Quiet, Transactions, Live
  <2>5. Moves(t, a) /\ (Fit(t) => Fit(a)) /\ Calm(t, a)
    <3>1. Calm(t, a)
      BY <2>1 DEF Quiet, Calm, Steadfast, Live
    <3> QED BY <1>0, <2>1, <3>1, QuietMoves
  <2>6. /\ Moves(a, u) /\ (Fit(a) => Fit(u)) /\ (Fit(a) /\ a.tx => u.tx)
        /\ "fail" \notin Faults /\ Live(a) /\ Fit(a) /\ Steadfast(a) => Calm(a, u)
    BY <2>2, <2>3, <2>4, SendMsgMoves
  <2>7. Moves(t, u)
    BY <1>0, <2>5, <2>6, MovesTrans
  <2>8. "fail" \notin Faults /\ Live(t) /\ Fit(t) /\ Steadfast(t) => Calm(t, u)
    BY <2>4, <2>5, <2>6, CalmTrans DEF Calm
  <2>9. resched => Running(u) \/ ~Live(u)
    BY <2>1, <2>6 DEF Moves, Beats
  <2> QED BY <2>4, <2>5, <2>6, <2>7, <2>8, <2>9
<1> QED BY <1>1, <1>2

-----------------------------------------------------------------------------
(* What a step of a thread leaves, seen from the transaction before it:    *)
(* the relation Lands, which every state handler is in and every operator  *)
(* a completion of a send calls.                                           *)

(* The states that only a timer is sure to end, and those in which the     *)
(* saved message is repeated.                                              *)
NeedsTimer(t) == \/ t.state \in {CALLING, COMPLETED, CONFIRMED, TERMINATED}
                 \/ t.state = PROCEEDING /\ t.role = "UAC" /\ ~t.invite

Repeats(t) == /\ t.invite /\ ~t.reliable
              /\ \/ t.role = "UAC" /\ t.state = CALLING
                 \/ t.role = "UAS" /\ t.state = COMPLETED

(* A message is saved where one is to be repeated.                         *)
Saved(t) == t.state = CALLING \/ (t.role = "UAS" /\ t.state = COMPLETED) => t.last # NoMsg

(* The user heard of the end once, and of the state the transaction is in. *)
Counted(t) == t.terms = IF Live(t) THEN 0 ELSE 1

Briefed(t) == Steadfast(t) /\ Counted(t) /\ (t.user => t.told = t.state)

(* The ways of a role from state to state.                                 *)
Forward(r, a, b) ==
    \/ b = TERMINATED
    \/ r = "UAC" /\ a = NULL /\ b = CALLING
    \/ r = "UAS" /\ a = NULL /\ b = TRYING
    \/ (IF r = "UAC" THEN a = CALLING ELSE a = TRYING) /\ b \in {PROCEEDING, COMPLETED}
    \/ a = PROCEEDING /\ b = COMPLETED
    \/ r = "UAS" /\ a = COMPLETED /\ b = CONFIRMED

(* One step along them, or to the end.                                     *)
Edge(t, u) ==
    \/ u.state = t.state /\ u.reg = t.reg
    \/ Live(t) /\ Forward(t.role, t.state, u.state) /\ u.reg = t.reg
    \/ t.state = TERMINATED /\ u.state = DESTROYED /\ ~u.reg

(* A client that lingers has answered.                                     *)
Acked(t, u) ==
    t.invite /\ t.role = "UAC" /\ t.state < COMPLETED /\ u.state = COMPLETED
    => ACK \in u.wire \/ {"transport", "send"} \subseteq u.flags

(* The timers a step leaves, when the entry e has just left the heap.      *)
Timers(t, e, u) ==
    /\ NeedsTimer(u) => \/ "to" \in u.heap
                        \/ e # "to" /\ NeedsTimer(t) /\ ("to" \in t.heap => "to" \in u.heap)
    /\ Repeats(u) => \/ Running(u)
                     \/ e # "rt" /\ Repeats(t) /\ (Running(t) => Running(u))

Lands(t, e, u) ==
    /\ u.role = t.role /\ u.invite = t.invite
    /\ Sound(u) /\ Saved(u) /\ (Tame(t) => Tame(u))
    /\ Edge(t, u) /\ Acked(t, u) /\ Timers(t, e, u)
    /\ "fail" \notin Faults /\ Briefed(t) => Briefed(u)

(* A stateless send that is out stays out.                                 *)
Pends(t, u) == Live(u) /\ t.tx => u.tx

(* In the course of a handler.                                             *)
Loyal(t, u) == "fail" \notin Faults /\ Live(t) /\ Steadfast(t) /\ Counted(t)
               => Live(u) /\ Steadfast(u) /\ Counted(u)

Midway(t, u) ==
    /\ u.role = t.role /\ u.invite = t.invite /\ (t.reliable => u.reliable)
    /\ Fit(u) /\ Rooted(u) /\ u.told = u.state
    /\ t.tx => u.tx
    /\ Tame(t) => Tame(u)
    /\ Loyal(t, u)

(* A handler starts midway, and stays there with every quiet step, with    *)
(* every send and every change of state but the last ones.                 *)
LEMMA Begun ==
  ASSUME NEW t, Sound(t), Live(t)
  PROVE  Midway(t, t)
  BY DEF Sound, Midway, Loyal

LEMMA MidwayQuiet ==
  ASSUME NEW t, NEW v, NEW w, Midway(t, v), Quiet(v, w)
  PROVE  Midway(t, w)
<1>1. Fit(w) /\ Rooted(w)
  BY DEF Midway, Quiet, Fit, Clean, Rooted
<1>2. Loyal(t, w)
  BY DEF Midway, Quiet, Loyal, Live, Steadfast, Counted
<1> QED BY <1>1, <1>2 DEF Midway, Quiet

LEMMA MidwaySend ==
  ASSUME NEW t, NEW v, NEW w, Midway(t, v), Onward(v, w), Fit(w), v.tx => w.tx,
         "fail" \notin Faults /\ Live(v) /\ Fit(v) /\ Steadfast(v) => Calm(v, w)
  PROVE  Midway(t, w)
<1>1. w.told = w.state
  BY DEF Midway, Fit, Onward, Tells
<1>2. Loyal(t, w)
  BY DEF Midway, Loyal, Calm, Live, Counted
<1> QED BY <1>1, <1>2 DEF Midway, Onward

LEMMA MidwayLast ==
  ASSUME NEW t, NEW v \in Transactions, NEW m, Midway(t, v)
  PROVE  LET w == [v EXCEPT !.last = m]
         IN  /\ Midway(t, w) /\ w.heap = v.heap /\ w.flags = v.flags /\ w.last = m
             /\ w.state = v.state /\ w.wire = v.wire /\ w.reliable = v.reliable
<1> DEFINE w == [v EXCEPT !.last = m]
<1>1. /\ w.role = v.role /\ w.invite = v.invite /\ w.reliable = v.reliable
      /\ w.state = v.state /\ w.last = m /\ w.tp = v.tp /\ w.tx = v.tx
      /\ w.out = v.out /\ w.reg = v.reg /\ w.user = v.user /\ w.told = v.told
      /\ w.terms = v.terms /\ w.wire = v.wire /\ w.heap = v.heap /\ w.id = v.id
      /\ w.flags = v.flags
  BY DEF Transactions
<1> HIDE DEF w
<1>2. Fit(w) /\ Rooted(w) /\ (Tame(v) => Tame(w))
  BY <1>1 DEF Midway, Fit, Clean, Rooted, Tame
<1>3. Loyal(t, w)
  BY <1>1 DEF Midway, Loyal, Live, Steadfast, Counted
<1> QED BY <1>1, <1>2, <1>3 DEF Midway, w

LEMMA MidwayBetween ==
  ASSUME NEW t, NEW v \in Transactions, Midway(t, v), NEW s \in NULL .. CONFIRMED
  PROVE  LET w == SetState(v, s)
         IN  /\ Midway(t, w) /\ w.heap = v.heap /\ w.flags = v.flags /\ w.last = v.last
             /\ w.state = s /\ w.wire = v.wire /\ w.reliable = v.reliable
<1> DEFINE w == SetState(v, s)
<1>1. /\ w.role = v.role /\ w.invite = v.invite /\ w.reliable = v.reliable
      /\ w.state = s /\ w.last = v.last /\ w.tp = v.tp /\ w.tx = v.tx
      /\ w.out = v.out /\ w.reg = v.reg /\ w.user = v.user
      /\ w.terms = v.terms /\ w.wire = v.wire /\ w.heap = v.heap /\ w.id = v.id
      /\ w.flags = v.flags /\ w.told = IF v.user THEN s ELSE v.told
  BY SetBetween
<1> HIDE DEF w
<1>2. Fit(w) /\ Rooted(w) /\ (Tame(v) => Tame(w)) /\ w.told = w.state
  BY <1>1 DEF Midway, Fit, Clean, Rooted, Tame, NULL, CONFIRMED, DESTROYED
<1>3. Live(w)
  BY <1>1 DEF Live, NULL, CONFIRMED, TERMINATED
<1>4. Loyal(t, w)
  BY <1>1, <1>3 DEF Midway, Loyal, Steadfast, Counted
<1> QED BY <1>1, <1>2, <1>4 DEF Midway, w

(* Where a handler comes to rest: in a state that waits for something.     *)
LEMMA MidwayLands ==
  ASSUME NEW t, Good(t), Sound(t), Live(t), NEW e, NEW u, Midway(t, u), Live(u),
         u.state = t.state \/ Forward(t.role, t.state, u.state),
         u.role = "UAC" /\ u.state \in CALLING .. CONFIRMED => Marked(u),
         Saved(u), Timers(t, e, u), Acked(t, u)
  PROVE  Lands(t, e, u) /\ Pends(t, u)
<1>1. Fit(t) /\ Fit(u) /\ u.state # DESTROYED
  BY DEF Sound, Midway, Fit
<1>2. Sound(u)
  BY <1>1 DEF Sound, Midway, Fit
<1>3. Edge(t, u)
  BY <1>1 DEF Edge, Fit
<1>4. "fail" \notin Faults /\ Briefed(t) => Briefed(u)
  BY DEF Midway, Loyal, Briefed
<1> QED BY <1>2, <1>3, <1>4 DEF Lands, Midway, Pends

(* Or at the end.                                                          *)
LEMMA EndLands ==
  ASSUME NEW t, Good(t), Sound(t), Live(t), NEW e, NEW v, Good(v), Midway(t, v)
  PROVE  LET u == SetState(v, TERMINATED) IN Lands(t, e, u) /\ Pends(t, u)
<1> DEFINE u == SetState(v, TERMINATED)
<1>1. /\ u.role = v.role /\ u.invite = v.invite /\ u.reliable = v.reliable
      /\ u.last = v.last /\ u.tp = v.tp /\ u.out = v.out
      /\ u.reg = v.reg /\ u.user = v.user /\ u.wire = v.wire
      /\ u.flags = v.flags \ {"transport"}
      /\ u.heap = v.heap \cup {"to"}
      /\ u.terms = IF v.user /\ v.terms < 2 THEN v.terms + 1 ELSE v.terms
      /\ u.state = TERMINATED /\ u.told = IF v.user THEN TERMINATED ELSE v.told
      /\ Tame(v) => Tame(u)
  BY SetTerminated
<1> HIDE DEF u
<1>2. Fit(t) /\ Fit(v) /\ ~Live(u)
  BY <1>1 DEF Sound, Midway, Live, TERMINATED
<1>3. Rooted(u)
  BY <1>1 DEF Midway, Rooted
<1>4. Sound(u)
  BY <1>1, <1>2, <1>3 DEF Sound, Fit, TERMINATED, DESTROYED, CALLING, CONFIRMED
<1>5. Saved(u) /\ Acked(t, u) /\ Timers(t, e, u) /\ Edge(t, u)
  BY <1>1, <1>2 DEF Saved, Acked, Timers, Edge, Forward, Repeats, Fit,
                    TERMINATED, CALLING, COMPLETED
<1>6. "fail" \notin Faults /\ Briefed(t) => Briefed(u)
  BY <1>1, <1>2 DEF Midway, Loyal, Briefed, Steadfast, Counted, Fit
<1> QED BY <1>1, <1>2, <1>4, <1>5, <1>6 DEF Lands, Midway, Pends, u

(* Or where it was, or at the end a send came to.                          *)
LEMMA MovesLands ==
  ASSUME NEW t, Good(t), Sound(t), Saved(t), NEW e, e # "to", NEW u, Good(u), Moves(t, u),
         Live(t) => Fit(u),
         e = "rt" /\ Repeats(t) => Running(u) \/ ~Live(u),
         "fail" \notin Faults /\ Briefed(t) => Calm(t, u)
  PROVE  Lands(t, e, u)
<1>0. t.state \in NULL .. DESTROYED
  BY DEF Good, Transactions
<1>1. Onward(t, u) /\ Beats(t, u)
  BY DEF Moves
<1>2. /\ u.state = t.state \/ u.state \in {TERMINATED, DESTROYED}
      /\ t.state <= u.state /\ (Live(u) => Live(t) /\ u.state = t.state)
  BY <1>0, <1>1 DEF Onward, Live, NULL, TERMINATED, DESTROYED
<1>3. Live(t) => u.state # DESTROYED /\ u.reg = t.reg
  BY <1>1 DEF Sound, Fit, Onward
<1>4. Sound(u)
  <2>1. Live(u) => u.told = u.state
    BY <1>1, <1>2 DEF Sound, Onward, Tells
  <2>2. u.role = "UAC" /\ u.state \in CALLING .. CONFIRMED => Marked(u)
    BY <1>1, <1>2 DEF Sound, Onward, Live, CALLING, CONFIRMED, TERMINATED
  <2>3. u.state = DESTROYED \/ ~u.user => u.told >= TERMINATED
    BY <1>1, <1>2 DEF Sound, Onward, Tells, Live, Fit, TERMINATED, DESTROYED
  <2>4. (u.state = DESTROYED => ~u.reg) /\ (~u.reg => u.last = NoMsg)
    BY <1>1 DEF Sound, Onward
  <2> QED BY <1>1, <1>2, <2>1, <2>2, <2>3, <2>4 DEF Sound, Onward
<1>5. Saved(u)
  BY <1>1, <1>2, <1>3 DEF Saved, Onward, TERMINATED, DESTROYED, CALLING, COMPLETED
<1>6. Edge(t, u)
  <2>1. CASE Live(t)
    BY <1>2, <1>3, <2>1 DEF Edge, Forward
  <2>2. CASE t.state = TERMINATED
    BY <1>1, <1>2, <2>2 DEF Edge, Onward, TERMINATED, DESTROYED
  <2>3. CASE t.state = DESTROYED
    <3>1. t.reg \in BOOLEAN /\ u.reg \in BOOLEAN
      BY DEF Good, Transactions
    <3>2. u.state = t.state /\ ~t.reg /\ ~u.reg
      BY <1>1, <1>2, <2>3 DEF Onward, Sound, TERMINATED, DESTROYED
    <3> QED BY <3>1, <3>2 DEF Edge
  <2> QED BY <1>0, <2>1, <2>2, <2>3 DEF Live, NULL, TERMINATED, DESTROYED
<1>7. Acked(t, u)
  BY <1>2 DEF Acked, COMPLETED, TERMINATED, DESTROYED
<1>8. Timers(t, e, u)
  <2>1. ASSUME NeedsTimer(u)
        PROVE  "to" \in u.heap \/ (NeedsTimer(t) /\ ("to" \in t.heap => "to" \in u.heap))
    <3>1. u.state # DESTROYED
      BY <2>1 DEF NeedsTimer, CALLING, PROCEEDING, COMPLETED, CONFIRMED, TERMINATED, DESTROYED
    <3>2. CASE u.state = t.state
      BY <1>1, <2>1, <3>1, <3>2 DEF NeedsTimer, Onward, Beats
    <3>3. CASE u.state # t.state
      BY <1>1, <1>2, <3>1, <3>3 DEF Beats
    <3> QED BY <3>2, <3>3
  <2>2. ASSUME Repeats(u)
        PROVE  Running(u) \/ (e # "rt" /\ Repeats(t) /\ (Running(t) => Running(u)))
    <3>1. Live(u)
      BY <2>2 DEF Repeats, Live, CALLING, COMPLETED, TERMINATED
    <3>2. Repeats(t)
      BY <1>1, <1>2, <2>2, <3>1 DEF Repeats, Onward
    <3> QED BY <1>1, <3>1, <3>2 DEF Beats
  <2> QED BY <2>1, <2>2 DEF Timers
<1>9. "fail" \notin Faults /\ Briefed(t) => Briefed(u)
  BY <1>1, <1>2 DEF Briefed, Calm, Steadfast, Counted, Live, Onward, Tells
<1> QED BY <1>1, <1>4, <1>5, <1>6, <1>7, <1>8, <1>9 DEF Lands, Onward

(* A send that failed in the course of a handler: the handler returns.     *)
LEMMA StoppedLands ==
  ASSUME NEW t, Good(t), Sound(t), Live(t), NEW e, NEW v, v.state = t.state,
         NEW u, Moves(v, u), Midway(t, u),
         u.state = TERMINATED \/ t.state = NULL \/ (t.role = "UAS" /\ ~NeedsTimer(t))
  PROVE  Lands(t, e, u) /\ Pends(t, u)
<1>0. t.state \in NULL .. CONFIRMED
  BY DEF Good, Transactions, Live, NULL, CONFIRMED, TERMINATED, DESTROYED
<1>1. CASE u.state # TERMINATED
  <2>1. u.state = t.state /\ Live(u)
    BY <1>0, <1>1 DEF Moves, Onward, Midway, Fit, Live, NULL, CONFIRMED, TERMINATED, DESTROYED
  <2>2. ~NeedsTimer(u) /\ ~Repeats(u) /\ Saved(u)
    BY <1>1, <2>1 DEF Midway, NeedsTimer, Repeats, Saved, NULL, CALLING, TRYING, PROCEEDING,
                      COMPLETED, CONFIRMED, TERMINATED
  <2>3. u.role = "UAC" /\ u.state \in CALLING .. CONFIRMED => Marked(u)
    BY <1>1, <2>1 DEF Midway, NULL, CALLING, CONFIRMED
  <2>4. Acked(t, u) /\ Timers(t, e, u)
    BY <2>1, <2>2 DEF Acked, Timers, COMPLETED
  <2> QED BY <2>1, <2>2, <2>3, <2>4, MidwayLands
<1>2. CASE u.state = TERMINATED
  <2>1. "to" \in u.heap
    BY <1>0, <1>2 DEF Moves, Beats, NULL, CONFIRMED, TERMINATED
  <2>2. Fit(t) /\ Fit(u) /\ ~Live(u) /\ Rooted(u)
    BY <1>2 DEF Sound, Midway, Live, TERMINATED
  <2>3. Sound(u)
    BY <1>2, <2>2 DEF Sound, Fit, Midway, TERMINATED, DESTROYED, CALLING, CONFIRMED
  <2>4. Saved(u) /\ Acked(t, u) /\ Timers(t, e, u) /\ Edge(t, u)
    BY <1>2, <2>1, <2>2 DEF Saved, Acked, Timers, Edge, Forward, Repeats, Fit,
                      TERMINATED, CALLING, COMPLETED
  <2>5. "fail" \notin Faults /\ Briefed(t) => Briefed(u)
    BY DEF Midway, Loyal, Briefed
  <2> QED BY <2>2, <2>3, <2>4, <2>5 DEF Lands, Midway, Pends
<1> QED BY <1>1, <1>2

(* tsx_send_msg() in the course of a handler.                              *)
LEMMA MidwaySendMsg ==
  ASSUME NEW t, NEW v, Good(v), Midway(t, v), Live(v), NEW m \in Msgs, NEW o \in SendMsg(v, m)
  PROVE  /\ Good(o.t) /\ Midway(t, o.t) /\ Moves(v, o.t) /\ o.t.last = v.last
         /\ v.role = "UAC" => Marked(o.t)
         /\ v.role = "UAC" /\ Marked(v) /\ ~o.ok => o.t.state = TERMINATED
         /\ o.ok => m \in o.t.wire \/ {"transport", "send"} \subseteq o.t.flags
<1>1. v.state # DESTROYED /\ Fit(v) /\ Rooted(v)
  BY DEF Midway, Fit
<1>2. Good(o.t)
  BY SendMsgKept DEF Kept
<1>3. /\ Moves(v, o.t) /\ (Fit(v) => Fit(o.t))
      /\ v.role = "UAC" /\ Rooted(v) /\ Live(v) /\ Fit(v) => Marked(o.t)
      /\ v.role = "UAC" /\ Marked(v) /\ ~o.ok => o.t.state = TERMINATED
      /\ Live(v) /\ Fit(v) /\ o.ok =>
            m \in o.t.wire \/ {"transport", "send"} \subseteq o.t.flags
      /\ Fit(v) /\ v.tx => o.t.tx
      /\ "fail" \notin Faults /\ Live(v) /\ Fit(v) /\ Steadfast(v) => Calm(v, o.t)
  BY <1>1, SendMsgMoves
<1>4. Midway(t, o.t)
  BY <1>1, <1>3, MidwaySend DEF Moves
<1>5. o.t.last = v.last
  BY <1>3, <1>4 DEF Moves, Onward, Midway, Fit
<1> QED BY <1>1, <1>2, <1>3, <1>4, <1>5

(* tsx_on_state_null().                                                    *)
LEMMA OnStateNullLands ==
  ASSUME NEW t, Good(t), Sound(t), t.state = NULL, NEW ev, ValidEvent(t.role, ev),
         NEW u \in OnStateNull(t, ev), NEW e
  PROVE  Lands(t, e, u) /\ Pends(t, u)
<1>0. Live(t) /\ Midway(t, t) /\ t \in Transactions /\ t.role \in {"UAC", "UAS"}
  BY Begun DEF Good, Live, NULL, TERMINATED, Transactions
<1>1. CASE t.role = "UAS"
  <2>1. u = SetState(t, TRYING) /\ TRYING \in NULL .. CONFIRMED
    BY <1>1 DEF OnStateNull, NULL, TRYING, CONFIRMED
  <2>2. Midway(t, u) /\ u.state = TRYING
    BY <1>0, <2>1, MidwayBetween
  <2>3. Live(u) /\ Forward(t.role, t.state, u.state) /\ u.role = "UAS"
    BY <1>1, <2>2 DEF Live, Forward, Midway, TRYING, TERMINATED
  <2>4. Saved(u) /\ Timers(t, e, u) /\ Acked(t, u)
    BY <1>1, <2>2, <2>3 DEF Saved, Timers, Acked, NeedsTimer, Repeats, TRYING, CALLING,
                            PROCEEDING, COMPLETED, CONFIRMED, TERMINATED
  <2> QED BY <1>0, <2>2, <2>3, <2>4, MidwayLands
<1>2. CASE t.role = "UAC" /\ ev.type = "TX"
  <2> DEFINE a == [t EXCEPT !.last = ev.msg]
  <2>1. ev.msg = REQ /\ REQ \in Msgs
    BY <1>2 DEF ValidEvent, Msgs
  <2>2. Good(a) /\ Midway(t, a) /\ a.last = REQ /\ a.state = t.state /\ a.role = "UAC"
    <3>1. Good(a)
      BY <2>1, LastKept DEF Kept
    <3> QED BY <1>0, <1>2, <2>1, <3>1, MidwayLast DEF Midway
  <2>3. PICK o \in SendMsg(a, REQ) : u = IF o.ok THEN Started(o.t) ELSE o.t
    BY <1>2, <2>1 DEF OnStateNull
  <2> HIDE DEF a
  <2>4. Live(a)
    BY <1>0, <2>2 DEF Live
  <2>5. /\ Good(o.t) /\ Midway(t, o.t) /\ Moves(a, o.t) /\ o.t.last = REQ /\ Marked(o.t)
    BY <2>1, <2>2, <2>4, MidwaySendMsg
  <2>6. CASE ~o.ok
    BY <1>0, <2>2, <2>3, <2>5, <2>6, StoppedLands
  <2>7. CASE o.ok
    <3> DEFINE b == ResetTimeout(o.t, TIMEOUT_TIMER, "64T1")
               c == IF b.reliable THEN b ELSE StartRetransmission(b)
    <3>1. Good(b) /\ Quiet(o.t, b) /\ "to" \in b.heap
      BY <2>5, ResetKept, ResetQuiet DEF Kept, TIMEOUT_TIMER, TRANSPORT_ERR_TIMER, Waits
    <3>2. u = SetState(c, CALLING)
      BY <2>3, <2>7 DEF Started
    <3> HIDE DEF b
    <3>3. c \in Transactions /\ Quiet(b, c) /\ "to" \in c.heap /\ Running(c)
      <4>1. Quiet(b, b) /\ (b.reliable => Running(b)) /\ b \in Transactions
        BY <3>1 DEF Quiet, Running, Good
      <4>2. Good(StartRetransmission(b))
        BY <3>1, StartRetransmissionKept DEF Kept
      <4> QED BY <3>1, <4>1, <4>2, StartQuiet DEF Good
    <3> HIDE DEF c
    <3>4. Midway(t, c) /\ c.last = REQ /\ Marked(c)
      BY <2>5, <3>1, <3>3, MidwayQuiet DEF Quiet, Marked
    <3>5. /\ Midway(t, u) /\ u.heap = c.heap /\ u.flags = c.flags /\ u.last = REQ
          /\ u.state = CALLING /\ u.reliable = c.reliable
      BY <3>2, <3>3, <3>4, MidwayBetween DEF NULL, CALLING, CONFIRMED
    <3>6. Live(u) /\ Forward(t.role, t.state, u.state) /\ Marked(u)
      BY <1>2, <3>4, <3>5 DEF Live, Forward, Marked, CALLING, TERMINATED
    <3>7. Saved(u) /\ Timers(t, e, u) /\ Acked(t, u)
      BY <3>3, <3>5 DEF Saved, Timers, Acked, Running, CALLING, COMPLETED, REQ, NoMsg
    <3> QED BY <1>0, <3>5, <3>6, <3>7, MidwayLands
  <2> QED BY <2>6, <2>7
<1>3. CASE t.role = "UAC" /\ ev.type # "TX"
  <2>1. u = t
    BY <1>3 DEF OnStateNull
  <2>2. Saved(t) /\ Timers(t, e, t) /\ Acked(t, t)
    BY DEF Saved, Timers, Acked, NeedsTimer, Repeats, NULL, CALLING,
                            PROCEEDING, COMPLETED, CONFIRMED, TERMINATED
  <2>3. ~(t.state \in CALLING .. CONFIRMED)
    BY DEF NULL, CALLING, CONFIRMED
  <2> QED BY <1>0, <2>1, <2>2, <2>3, MidwayLands
<1> QED BY <1>0, <1>1, <1>2, <1>3

(* A rejected client comes to rest with timer D or K, its ACK given.       *)
LEMMA RejectedDoneLands ==
  ASSUME NEW t, Good(t), Sound(t), t.state \in {CALLING, PROCEEDING}, t.role = "UAC", NEW e,
         NEW w, Good(w), Midway(t, w), Marked(w),
         t.invite => ACK \in w.wire \/ {"transport", "send"} \subseteq w.flags,
         NEW m \in Msgs \cup {NoMsg}
  PROVE  LET u == RejectedDone(w, m) IN Lands(t, e, u) /\ Pends(t, u)
<1> DEFINE n == SetState(w, COMPLETED)
           l == [n EXCEPT !.last = m]
           u == ResetTimeout(l, TIMEOUT_TIMER, Linger(n))
<1>1. w \in Transactions /\ COMPLETED \in NULL .. CONFIRMED /\ Live(t)
  BY DEF Good, NULL, COMPLETED, CONFIRMED, Live, CALLING, PROCEEDING, TERMINATED
<1>2. /\ Midway(t, n) /\ n.flags = w.flags /\ n.state = COMPLETED /\ n.wire = w.wire
  BY <1>1, MidwayBetween
<1>3. Good(n)
  BY AllowedStates, SetStateKept DEF Kept
<1> HIDE DEF n
<1>4. /\ Midway(t, l) /\ l.flags = n.flags /\ l.state = n.state /\ l.wire = n.wire
  BY <1>2, <1>3, MidwayLast DEF Good
<1>5. Good(l)
  BY <1>3, LastKept DEF Kept
<1> HIDE DEF l
<1>6. Quiet(l, u) /\ u.heap = l.heap \cup {"to"} /\ u.flags = l.flags
  BY <1>5, ResetQuiet DEF TIMEOUT_TIMER, TRANSPORT_ERR_TIMER
<1>7. RejectedDone(w, m) = u
  BY DEF RejectedDone, n, l
<1> HIDE DEF u
<1>8. Midway(t, u) /\ u.flags = w.flags /\ u.wire = w.wire /\ u.state = COMPLETED
  BY <1>2, <1>4, <1>6, MidwayQuiet DEF Quiet
<1>9. Marked(u) /\ Acked(t, u) /\ u.role = "UAC"
  BY <1>8 DEF Marked, Acked, Midway
<1>10. Live(u) /\ Forward(t.role, t.state, u.state)
  BY <1>8 DEF Live, Forward, COMPLETED, TERMINATED
<1>11. Saved(u) /\ Timers(t, e, u)
  BY <1>6, <1>8, <1>9 DEF Saved, Timers, Repeats, CALLING, COMPLETED
<1> QED BY <1>1, <1>7, <1>8, <1>9, <1>10, <1>11, MidwayLands

(* A failed send of the ACK has ended the transaction: the timers that     *)
(* were cancelled are not missed.                                          *)
LEMMA RejectedLands ==
  ASSUME NEW t, Good(t), Sound(t), t.state \in {CALLING, PROCEEDING}, t.role = "UAC", NEW e,
         NEW v, Good(v), Midway(t, v), Marked(v), v.state = t.state,
         NEW u \in Rejected(v)
  PROVE  Lands(t, e, u) /\ Pends(t, u)
<1> DEFINE b == CancelTimer(v, "rt")
           c == CancelTimer(b, "to")
<1>0. Live(t) /\ ACK \in Msgs
  BY DEF CALLING, PROCEEDING, TERMINATED, Live, Msgs
<1>1. Good(b) /\ Quiet(v, b)
  BY CancelKept, CancelQuiet DEF Kept, Entries, Good
<1> HIDE DEF b
<1>2. Good(c) /\ Quiet(b, c)
  BY <1>1, CancelKept, CancelQuiet DEF Kept, Entries, Good
<1>3. \/ ~v.invite /\ u = RejectedDone(c, c.last)
      \/ v.invite /\ \E o \in SendMsg(c, ACK) : u = IF o.ok THEN RejectedDone(o.t, ACK) ELSE o.t
  BY DEF Rejected, b
<1> HIDE DEF c
<1>4. /\ Midway(t, c) /\ Marked(c) /\ c.state = t.state /\ c.invite = t.invite /\ v.invite = t.invite
      /\ Live(c) /\ c.role = "UAC"
  BY <1>0, <1>1, <1>2, MidwayQuiet DEF Quiet, Marked, Midway, Live
<1>5. CASE ~v.invite /\ u = RejectedDone(c, c.last)
  <2>1. c.last \in Msgs \cup {NoMsg}
    BY <1>2 DEF Good, Transactions
  <2> QED BY <1>2, <1>4, <1>5, <2>1, RejectedDoneLands
<1>6. ASSUME v.invite, NEW o \in SendMsg(c, ACK), u = IF o.ok THEN RejectedDone(o.t, ACK) ELSE o.t
      PROVE  Lands(t, e, u) /\ Pends(t, u)
  <2>1. /\ Good(o.t) /\ Midway(t, o.t) /\ Moves(c, o.t) /\ Marked(o.t)
        /\ ~o.ok => o.t.state = TERMINATED
        /\ o.ok => ACK \in o.t.wire \/ {"transport", "send"} \subseteq o.t.flags
    BY <1>0, <1>2, <1>4, MidwaySendMsg
  <2>2. CASE o.ok
    BY <1>0, <1>6, <2>1, <2>2, RejectedDoneLands
  <2>3. CASE ~o.ok
    BY <1>0, <1>4, <1>6, <2>1, <2>3, StoppedLands
  <2> QED BY <2>2, <2>3
<1> QED BY <1>3, <1>5, <1>6

(* A response, by class.                                                   *)
LEMMA ResponseLands ==
  ASSUME NEW t, Good(t), Sound(t), t.state \in {CALLING, PROCEEDING}, t.role = "UAC", NEW e,
         e # "to",
         NEW v, Good(v), Midway(t, v), Marked(v), v.state = t.state,
         NEW ev, ev.type = "RX", ev.msg \in Responses,
         Class(ev.msg) = 1 /\ ~t.invite /\ "to" \in t.heap => "to" \in v.heap,
         NEW u \in OnStateProceedingUac(v, ev)
  PROVE  Lands(t, e, u) /\ Pends(t, u)
<1> DEFINE c == [v EXCEPT !.code = ev.msg]
           a == CancelTimer(c, "to")
           b == ScheduleTimer(a, "to", TIMEOUT_TIMER, IF a.reliable THEN "zero" ELSE "T4")
           d == CancelTimer(b, "rt")
<1>0. Live(t) /\ ev.msg \in Codes
  BY DEF CALLING, PROCEEDING, TERMINATED, Live, Codes
<1>1. Good(c) /\ Quiet(v, c) /\ c.heap = v.heap
  BY <1>0, CodeKept, CodeQuiet DEF Kept, Good
<1>2. \/ Class(ev.msg) = 1 /\ u = SetState(c, PROCEEDING)
      \/ v.invite /\ u = SetState(a, TERMINATED)
      \/ ~v.invite /\ u = SetState(d, COMPLETED)
      \/ u \in Rejected(c)
  <2>1. Class(ev.msg) = 1 \/ Class(ev.msg) = 2 \/ Class(ev.msg) > 2
    BY DEF Responses, Class
  <2> HIDE DEF c
  <2> QED BY <2>1 DEF OnStateProceedingUac, c
<1> HIDE DEF c
<1>3. Midway(t, c) /\ Marked(c) /\ c.state = t.state
  BY <1>1, MidwayQuiet DEF Quiet, Marked
<1>4. Good(a) /\ Quiet(c, a)
  BY <1>1, CancelKept, CancelQuiet DEF Kept, Entries, Good
<1> HIDE DEF a
<1>5. Midway(t, a) /\ Marked(a)
  BY <1>3, <1>4, MidwayQuiet DEF Quiet, Marked
<1>6. CASE Class(ev.msg) = 1 /\ u = SetState(c, PROCEEDING)
  <2>1. /\ Midway(t, u) /\ u.heap = c.heap /\ u.flags = c.flags /\ u.state = PROCEEDING
    BY <1>1, <1>3, <1>6, MidwayBetween DEF Good, NULL, PROCEEDING, CONFIRMED
  <2>2. Marked(u) /\ Live(u) /\ (u.state = t.state \/ Forward(t.role, t.state, u.state))
    BY <1>3, <2>1 DEF Marked, Live, PROCEEDING, TERMINATED, Forward
  <2>3. Saved(u) /\ Acked(t, u)
    BY <2>1 DEF Saved, Acked, PROCEEDING, CALLING, COMPLETED, Midway
  <2>4. Timers(t, e, u)
    BY <1>1, <1>6, <2>1 DEF Timers, NeedsTimer, Repeats, Midway, PROCEEDING, CALLING, COMPLETED,
                            CONFIRMED, TERMINATED
  <2> QED BY <1>0, <2>1, <2>2, <2>3, <2>4, MidwayLands
<1>7. CASE v.invite /\ u = SetState(a, TERMINATED)
  BY <1>0, <1>4, <1>5, <1>7, EndLands
<1>8. CASE ~v.invite /\ u = SetState(d, COMPLETED)
  <2>1. Good(b) /\ Quiet(a, b) /\ b.heap = a.heap \cup {"to"}
    BY <1>4, ScheduleKept, ScheduleQuiet DEF Kept, Entries, Good, TIMEOUT_TIMER, TRANSPORT_ERR_TIMER, Waits
  <2> HIDE DEF b
  <2>2. Good(d) /\ Quiet(b, d) /\ d.heap = b.heap \ {"rt"}
    BY <2>1, CancelKept, CancelQuiet DEF Kept, Entries, Good
  <2> HIDE DEF d
  <2>3. Midway(t, d) /\ Marked(d)
    BY <1>5, <2>1, <2>2, MidwayQuiet DEF Quiet, Marked
  <2>4. /\ Midway(t, u) /\ u.heap = d.heap /\ u.flags = d.flags /\ u.state = COMPLETED
    BY <1>8, <2>2, <2>3, MidwayBetween DEF Good, NULL, COMPLETED, CONFIRMED
  <2>5. Marked(u) /\ Live(u) /\ Forward(t.role, t.state, u.state)
    BY <2>3, <2>4 DEF Marked, Live, COMPLETED, TERMINATED, Forward
  <2>6. Saved(u) /\ Acked(t, u) /\ Timers(t, e, u)
    BY <1>8, <2>1, <2>2, <2>4 DEF Saved, Acked, Timers, Repeats, CALLING, COMPLETED, Midway
  <2> QED BY <1>0, <2>4, <2>5, <2>6, MidwayLands
<1>9. CASE u \in Rejected(c)
  BY <1>1, <1>3, <1>9, RejectedLands
<1> QED BY <1>2, <1>6, <1>7, <1>8, <1>9

(* A status, and the end.                                                  *)
LEMMA TerminateLands ==
  ASSUME NEW t, Good(t), Sound(t), Live(t), NEW e, NEW v, Good(v), Midway(t, v), NEW c \in Codes
  PROVE  LET u == Terminate(v, c) IN Lands(t, e, u) /\ Pends(t, u)
<1> DEFINE d == [v EXCEPT !.code = c]
<1>1. Good(d) /\ Quiet(v, d)
  BY CodeKept, CodeQuiet DEF Kept, Good
<1>2. Terminate(v, c) = SetState(d, TERMINATED)
  BY DEF Terminate
<1> HIDE DEF d
<1> QED BY <1>1, <1>2, MidwayQuiet, EndLands

(* tsx_retransmit() when the retransmit timer fired: what it repeats is    *)
(* saved.                                                                  *)
LEMMA RetransmitLands ==
  ASSUME NEW t, Good(t), Sound(t), Saved(t), Live(t), NEW e, e # "to", NEW b \in BOOLEAN,
         e = "rt" => b, NEW u \in Retransmit(t, b)
  PROVE  Lands(t, e, u) /\ Pends(t, u)
<1>1. t.state # DESTROYED /\ Fit(t)
  BY DEF Sound, Fit
<1>2. Good(u)
  BY RetransmitKept DEF Kept
<1>3. /\ Moves(t, u) /\ Fit(u) /\ (t.tx => u.tx)
      /\ "fail" \notin Faults /\ Steadfast(t) => Calm(t, u)
      /\ b /\ t.last # NoMsg => Running(u) \/ ~Live(u)
  BY <1>1, RetransmitMoves
<1>4. Repeats(t) => t.last # NoMsg
  BY DEF Repeats, Saved
<1>5. Lands(t, e, u)
  BY <1>2, <1>3, <1>4, MovesLands DEF Briefed
<1> QED BY <1>3, <1>5 DEF Pends

(* Nothing done.                                                           *)
LEMMA StillLands ==
  ASSUME NEW t, Good(t), Sound(t), Saved(t), NEW e, e = "to" => ~NeedsTimer(t),
         e = "rt" => ~Repeats(t)
  PROVE  Lands(t, e, t) /\ Pends(t, t)
<1>1. Edge(t, t)
  BY DEF Edge
<1>2. Acked(t, t)
  BY DEF Acked, COMPLETED
<1>3. Timers(t, e, t)
  BY DEF Timers
<1> QED BY <1>1, <1>2, <1>3 DEF Lands, Pends

(* The entry whose firing an event reports.                                *)
Fired(ev) == IF ev.type = "TIMER" THEN ev.entry ELSE "none"

(* tsx_on_state_proceeding_uac().                                          *)
LEMMA OnStateProceedingUacLands ==
  ASSUME NEW t, Good(t), Sound(t), Saved(t), t.state = PROCEEDING, t.role = "UAC",
         NEW ev, ValidEvent("UAC", ev), NEW u \in OnStateProceedingUac(t, ev)
  PROVE  Lands(t, Fired(ev), u) /\ Pends(t, u)
<1>0. Live(t) /\ Midway(t, t)
  BY Begun DEF Live, PROCEEDING, TERMINATED
<1>1. CASE ev.type = "TIMER" /\ ev.entry = "rt"
  <2>1. u \in Retransmit(t, TRUE) /\ Fired(ev) = "rt"
    BY <1>1 DEF OnStateProceedingUac, Fired
  <2> QED BY <1>0, <2>1, RetransmitLands
<1>2. CASE ev.type = "TIMER" /\ ev.entry = "to"
  <2>1. u = Terminate(t, TIMEOUT) /\ TIMEOUT \in Codes
    BY <1>2 DEF OnStateProceedingUac, Codes
  <2> QED BY <1>0, <2>1, TerminateLands
<1>3. CASE ev.type = "RX"
  <2>1. Marked(t) /\ ev.msg \in Responses /\ Fired(ev) = "none"
    BY <1>3 DEF Sound, ValidEvent, Fired, CALLING, PROCEEDING, CONFIRMED
  <2> QED BY <1>0, <1>3, <2>1, ResponseLands
<1>4. CASE ev.type = "TX"
  <2>1. u = t /\ Fired(ev) = "none"
    BY <1>4 DEF OnStateProceedingUac, Fired
  <2> QED BY <2>1, StillLands
<1> QED BY <1>1, <1>2, <1>3, <1>4 DEF ValidEvent, Entries

(* tsx_on_state_calling().                                                 *)
LEMMA OnStateCallingLands ==
  ASSUME NEW t, Good(t), Sound(t), Saved(t), t.state = CALLING, t.role = "UAC",
         NEW ev, ValidEvent("UAC", ev), NEW u \in OnStateCalling(t, ev)
  PROVE  Lands(t, Fired(ev), u) /\ Pends(t, u)
<1> DEFINE c == CancelTimer(t, "rt")
<1>0. Live(t) /\ Midway(t, t)
  BY Begun DEF Live, CALLING, TERMINATED
<1>1. Good(c) /\ Quiet(t, c) /\ c.heap = t.heap \ {"rt"}
  BY CancelKept, CancelQuiet DEF Kept, Entries, Good
<1>2. CASE ev.type = "TIMER" /\ ev.entry = "rt"
  <2>1. u \in Retransmit(t, TRUE) /\ Fired(ev) = "rt"
    BY <1>2 DEF OnStateCalling, Fired
  <2> QED BY <1>0, <2>1, RetransmitLands
<1>3. CASE ev.type = "TIMER" /\ ev.entry = "to"
  <2> DEFINE d == Drop(c, {"resched"})
  <2>1. u = Terminate(d, TIMEOUT) /\ TIMEOUT \in Codes
    BY <1>3 DEF OnStateCalling, Codes
  <2>2. Good(d) /\ Quiet(c, d)
    BY <1>1, DropKept, DropQuiet DEF Kept, Good
  <2> HIDE DEF c, d
  <2>3. Midway(t, d)
    BY <1>0, <1>1, <2>2, MidwayQuiet
  <2> QED BY <1>0, <2>1, <2>2, <2>3, TerminateLands
<1>4. CASE ev.type = "RX"
  <2>1. Marked(t) /\ ev.msg \in Responses /\ Fired(ev) = "none"
    BY <1>4 DEF Sound, ValidEvent, Fired, CALLING, CONFIRMED
  <2>2. PICK d : /\ d \in {c, CancelTimer(c, "to"), Retransmission(c)}
                 /\ ev.msg < 200 /\ ~c.invite => d \in {c, Retransmission(c)}
                 /\ u \in OnStateProceedingUac(Drop(d, {"resched"}), ev)
    <3> DEFINE D == CASE ev.msg >= 200 -> IF c.id["to"] # TIMER_INACTIVE
                                          THEN CancelTimer(c, "to") ELSE c
                      [] ev.msg < 200 /\ c.invite -> CancelTimer(c, "to")
                      [] OTHER -> IF c.reliable THEN c ELSE Retransmission(c)
    <3>1. u \in OnStateProceedingUac(Drop(D, {"resched"}), ev)
      BY <1>4 DEF OnStateCalling
    <3>2. ev.msg \in Int
      BY <2>1 DEF Responses
    <3> HIDE DEF c
    <3>3. /\ D \in {c, CancelTimer(c, "to"), Retransmission(c)}
          /\ ev.msg < 200 /\ ~c.invite => D \in {c, Retransmission(c)}
      BY <3>2
    <3> HIDE DEF D
    <3> QED BY <3>1, <3>3 DEF c
  <2> HIDE DEF c
  <2>3. Good(d) /\ Quiet(c, d)
    <3>1. Quiet(c, c)
      BY DEF Quiet
    <3>2. "to" \in Entries /\ c \in Transactions
      BY <1>1 DEF Entries, Good
    <3>3. CASE d = CancelTimer(c, "to")
      BY <1>1, <3>2, <3>3, CancelKept, CancelQuiet DEF Kept
    <3>4. CASE d = Retransmission(c)
      BY <1>1, <3>2, <3>4, RetransmissionKept, RetransmissionQuiet DEF Kept
    <3> QED BY <1>1, <2>2, <3>1, <3>3, <3>4
  <2>4. ev.msg < 200 /\ ~t.invite /\ "to" \in t.heap => "to" \in d.heap
    BY <1>1, <2>2, RetransmissionQuiet DEF Quiet, Good
  <2> DEFINE v == Drop(d, {"resched"})
  <2>5. Good(v) /\ Quiet(d, v) /\ v.heap = d.heap
    BY <2>3, DropKept, DropQuiet DEF Kept, Good
  <2> HIDE DEF v
  <2>6. Midway(t, v) /\ Marked(v) /\ v.state = t.state
    BY <1>0, <1>1, <2>1, <2>3, <2>5, MidwayQuiet DEF Quiet, Marked
  <2>7. Class(ev.msg) = 1 => ev.msg < 200
    BY <2>1 DEF Class, Responses
  <2>8. u \in OnStateProceedingUac(v, ev)
    BY <2>2 DEF v
  <2> QED BY <1>4, <2>1, <2>4, <2>5, <2>6, <2>7, <2>8, ResponseLands
<1>5. CASE ev.type = "TX"
  <2>1. u = t /\ Fired(ev) = "none"
    BY <1>5 DEF OnStateCalling, Fired
  <2> QED BY <2>1, StillLands
<1> QED BY <1>2, <1>3, <1>4, <1>5 DEF ValidEvent, Entries

(* A final answer of a server: saved, timed, and repeated where the        *)
(* transport may lose it.                                                  *)
LEMMA AnsweredLands ==
  ASSUME NEW t, Good(t), Sound(t), t.state \in {TRYING, PROCEEDING}, t.role = "UAS", NEW e,
         NEW u, Midway(t, u), u.state = COMPLETED, "to" \in u.heap, u.last # NoMsg,
         u.invite /\ ~u.reliable => Running(u)
  PROVE  Lands(t, e, u) /\ Pends(t, u)
<1>1. Live(t) /\ Live(u) /\ u.role = "UAS" /\ Forward(t.role, t.state, u.state)
  BY DEF Live, Midway, Forward, TRYING, PROCEEDING, COMPLETED, TERMINATED
<1>2. Saved(u) /\ Acked(t, u) /\ Timers(t, e, u)
  BY DEF Saved, Acked, Timers, Repeats
<1> QED BY <1>1, <1>2, MidwayLands

(* A provisional one.                                                      *)
LEMMA ProvisionalLands ==
  ASSUME NEW t, Good(t), Sound(t), t.state \in {TRYING, PROCEEDING}, t.role = "UAS", NEW e,
         NEW w, Good(w), Midway(t, w), NEW m \in Msgs
  PROVE  LET u == Provisional(w, m) IN Lands(t, e, u) /\ Pends(t, u)
<1> DEFINE l == [w EXCEPT !.last = m]
           n == SetState(l, PROCEEDING)
           c == CancelTimer(n, "rt")
           q == StartRetransmission(c)
           u == Provisional(w, m)
<1>1. Good(l) /\ Midway(t, l)
  BY LastKept, MidwayLast DEF Kept, Good
<1> HIDE DEF l
<1>2. Good(n) /\ Midway(t, n) /\ n.state = PROCEEDING
  BY <1>1, AllowedStates, SetStateKept, MidwayBetween DEF Kept, Good, NULL, PROCEEDING, CONFIRMED
<1> HIDE DEF n
<1>3. Good(c) /\ Quiet(n, c)
  BY <1>2, CancelKept, CancelQuiet DEF Kept, Entries, Good
<1> HIDE DEF c
<1>4. Quiet(c, q)
  BY <1>3, StartQuiet DEF Good
<1> HIDE DEF q
<1>5. u \in {n, q}
  BY DEF Provisional, l, n, c, q
<1> HIDE DEF u
<1>6. Midway(t, u) /\ u.state = PROCEEDING
  BY <1>2, <1>3, <1>4, <1>5, MidwayQuiet DEF Quiet
<1>7. Live(t) /\ Live(u) /\ u.role = "UAS" /\ (u.state = t.state \/ Forward(t.role, t.state, u.state))
  BY <1>6 DEF Live, Midway, Forward, TRYING, PROCEEDING, TERMINATED
<1>8. Saved(u) /\ Acked(t, u) /\ Timers(t, e, u)
  BY <1>6, <1>7 DEF Saved, Acked, Timers, NeedsTimer, Repeats, CALLING, PROCEEDING, COMPLETED,
                    CONFIRMED, TERMINATED
<1> QED BY <1>6, <1>7, <1>8, MidwayLands DEF u

(* A 2xx, which may end the transaction at once.                           *)
LEMMA AcceptedLands ==
  ASSUME NEW t, Good(t), Sound(t), t.state \in {TRYING, PROCEEDING}, t.role = "UAS", NEW e,
         NEW w, Good(w), Midway(t, w), NEW m \in Msgs, m # NoMsg
  PROVE  LET u == Accepted(w, m) IN Lands(t, e, u) /\ Pends(t, u)
<1> DEFINE c == CancelTimer(w, "rt")
           r == IF c.invite THEN StartRetransmission(c) ELSE c
           l == [r EXCEPT !.last = m]
           x == ResetTimeout(l, TIMEOUT_TIMER, FinalWait(r))
           u == Accepted(w, m)
<1>0. Live(t)
  BY DEF Live, TRYING, PROCEEDING, TERMINATED
<1>1. Good(c) /\ Quiet(w, c)
  BY CancelKept, CancelQuiet DEF Kept, Entries, Good
<1> HIDE DEF c
<1>2. Good(r) /\ Quiet(c, r) /\ (r.invite => Running(r))
  <2>1. Quiet(c, c)
    BY DEF Quiet
  <2> QED BY <1>1, <2>1, StartRetransmissionKept, StartQuiet DEF Kept, Good, Quiet
<1> HIDE DEF r
<1>3. Midway(t, c) /\ Midway(t, r)
  BY <1>1, <1>2, MidwayQuiet
<1>4. /\ Good(l) /\ Midway(t, l) /\ l.last = m /\ l.reliable = r.reliable
      /\ l.heap = r.heap /\ l.flags = r.flags
  BY <1>2, <1>3, LastKept, MidwayLast DEF Kept, Good
<1> HIDE DEF l
<1>5. Good(x) /\ Quiet(l, x) /\ x.heap = l.heap \cup {"to"} /\ x.flags = l.flags
  <2>1. FinalWait(r) \in Waits /\ TIMEOUT_TIMER \in 0 .. 3 /\ TIMEOUT_TIMER # TRANSPORT_ERR_TIMER
    BY FinalWaitType DEF TIMEOUT_TIMER, TRANSPORT_ERR_TIMER
  <2>2. Good(x)
    BY <1>4, <2>1, ResetKept, Zenon DEF Kept
  <2> QED BY <1>4, <2>1, <2>2, ResetQuiet
<1> HIDE DEF x
<1>6. u = SetState(c, TERMINATED) \/ u = SetState(x, COMPLETED)
  BY DEF Accepted, c, r, l, x
<1>7. CASE u = SetState(c, TERMINATED)
  BY <1>0, <1>1, <1>3, <1>7, EndLands
<1>8. CASE u = SetState(x, COMPLETED)
  <2>1. Midway(t, x) /\ x.last = m /\ COMPLETED \in NULL .. CONFIRMED
    BY <1>4, <1>5, MidwayQuiet DEF Quiet, NULL, COMPLETED, CONFIRMED
  <2>2. /\ Midway(t, u) /\ u.heap = x.heap /\ u.flags = x.flags /\ u.last = x.last
        /\ u.state = COMPLETED /\ u.reliable = x.reliable
    BY <1>5, <1>8, <2>1, MidwayBetween DEF Good
  <2>3. u.invite => Running(u)
    <3>1. u.invite = r.invite /\ u.reliable = r.reliable /\ r.heap \subseteq u.heap /\ u.flags = r.flags
      BY <1>3, <1>4, <1>5, <2>2 DEF Midway, Quiet
    <3> QED BY <1>2, <3>1 DEF Running
  <2>4. "to" \in u.heap /\ u.last # NoMsg
    BY <1>5, <2>1, <2>2
  <2> HIDE DEF u
  <2> QED BY <2>2, <2>3, <2>4, AnsweredLands DEF u
<1> QED BY <1>6, <1>7, <1>8

(* A rejection.                                                            *)
LEMMA RefusedLands ==
  ASSUME NEW t, Good(t), Sound(t), t.state \in {TRYING, PROCEEDING}, t.role = "UAS", NEW e,
         NEW w, Good(w), Midway(t, w), NEW m \in Msgs, m # NoMsg
  PROVE  LET u == Refused(w, m) IN Lands(t, e, u) /\ Pends(t, u)
<1> DEFINE c == CancelTimer(w, "rt")
           l == [c EXCEPT !.last = m]
           r == ResetTimeout(l, TIMEOUT_TIMER, FinalWait(c))
           q == IF r.invite /\ ~r.reliable THEN StartRetransmission(r) ELSE r
           u == Refused(w, m)
<1>1. Good(c) /\ Quiet(w, c)
  BY CancelKept, CancelQuiet DEF Kept, Entries, Good
<1> HIDE DEF c
<1>2. Midway(t, c)
  BY <1>1, MidwayQuiet
<1>3. Good(l) /\ Midway(t, l) /\ l.last = m
  BY <1>1, <1>2, LastKept, MidwayLast DEF Kept, Good
<1> HIDE DEF l
<1>4. Good(r) /\ Quiet(l, r) /\ "to" \in r.heap
  <2>1. FinalWait(c) \in Waits /\ TIMEOUT_TIMER \in 0 .. 3 /\ TIMEOUT_TIMER # TRANSPORT_ERR_TIMER
    BY FinalWaitType DEF TIMEOUT_TIMER, TRANSPORT_ERR_TIMER
  <2>2. Good(r)
    BY <1>3, <2>1, ResetKept, Zenon DEF Kept
  <2>3. Quiet(l, r) /\ r.heap = l.heap \cup {"to"}
    BY <1>3, <2>1, ResetQuiet
  <2> QED BY <2>2, <2>3
<1> HIDE DEF r
<1>5. Good(q) /\ Quiet(r, q) /\ "to" \in q.heap /\ (q.invite /\ ~q.reliable => Running(q))
  <2>1. Quiet(r, r)
    BY DEF Quiet
  <2>2. CASE r.invite /\ ~r.reliable
    <3>1. q = StartRetransmission(r)
      BY <2>2
    <3> HIDE DEF q
    <3> QED BY <1>4, <3>1, StartRetransmissionKept, StartQuiet DEF Kept, Good
  <2>3. CASE ~(r.invite /\ ~r.reliable)
    <3>1. q = r
      BY <2>3
    <3> QED BY <1>4, <2>1, <2>3, <3>1
  <2> QED BY <2>2, <2>3
<1>6. u = SetState(q, COMPLETED)
  BY DEF Refused, c, l, r, q
<1> HIDE DEF q
<1>7. Midway(t, q) /\ q.last = m /\ COMPLETED \in NULL .. CONFIRMED
  BY <1>3, <1>4, <1>5, MidwayQuiet DEF Quiet, NULL, COMPLETED, CONFIRMED
<1>8. /\ Midway(t, u) /\ u.heap = q.heap /\ u.flags = q.flags /\ u.last = q.last
      /\ u.state = COMPLETED /\ u.reliable = q.reliable
  BY <1>5, <1>6, <1>7, MidwayBetween DEF Good
<1>9. u.invite /\ ~u.reliable => Running(u)
  BY <1>5, <1>7, <1>8 DEF Running, Midway
<1> HIDE DEF u
<1> QED BY <1>5, <1>7, <1>8, <1>9, AnsweredLands DEF u

(* A response is sent, and the class of the status says what follows.      *)
LEMMA RespondLands ==
  ASSUME NEW t, Good(t), Sound(t), t.state \in {TRYING, PROCEEDING}, t.role = "UAS", NEW e,
         NEW m \in Responses, NEW u \in Respond(t, m)
  PROVE  Lands(t, e, u) /\ Pends(t, u)
<1>0. PICK l \in {NoMsg} \cup ({t.last} \cap {m}) :
         \E o \in SendMsg([t EXCEPT !.code = m, !.last = l], m) :
            u = IF o.ok THEN Responded(o.t, m) ELSE o.t
  BY DEF Respond
<1> DEFINE c == [t EXCEPT !.code = m]
           a == [c EXCEPT !.last = l]
<1>1. a = [t EXCEPT !.code = m, !.last = l]
  BY DEF Good, Transactions
<1>2. PICK o \in SendMsg(a, m) : u = IF o.ok THEN Responded(o.t, m) ELSE o.t
  BY <1>0, <1>1
<1>3. m \in Msgs /\ m \in Codes /\ l \in Msgs \cup {NoMsg} /\ m # NoMsg
  BY DEF Msgs, Codes, Responses, NoMsg
<1>4. Live(t) /\ ~NeedsTimer(t) /\ Midway(t, t)
  BY Begun DEF Live, NeedsTimer, CALLING, TRYING, PROCEEDING, COMPLETED, CONFIRMED, TERMINATED
<1>5. Good(c) /\ Quiet(t, c)
  BY <1>3, CodeKept, CodeQuiet DEF Kept, Good
<1> HIDE DEF c
<1>6. Midway(t, c) /\ c.state = t.state
  BY <1>4, <1>5, MidwayQuiet DEF Quiet
<1>7. Good(a) /\ Midway(t, a) /\ a.state = t.state
  BY <1>3, <1>5, <1>6, LastKept, MidwayLast DEF Kept, Good
<1> HIDE DEF a
<1>8. Live(a)
  BY <1>4, <1>7 DEF Live
<1>9. Good(o.t) /\ Midway(t, o.t) /\ Moves(a, o.t)
  BY <1>3, <1>7, <1>8, MidwaySendMsg
<1>10. CASE o.ok
  <2>1. u \in {Provisional(o.t, m), Accepted(o.t, m), Refused(o.t, m)}
    BY <1>2, <1>10 DEF Responded
  <2> QED BY <1>3, <1>9, <2>1, ProvisionalLands, AcceptedLands, RefusedLands
<1>11. CASE ~o.ok
  BY <1>2, <1>4, <1>7, <1>9, <1>11, StoppedLands
<1> QED BY <1>10, <1>11

(* tsx_on_state_proceeding_uas(), and tsx_on_state_trying() that calls it. *)
LEMMA OnStateProceedingUasLands ==
  ASSUME NEW t, Good(t), Sound(t), Saved(t), t.state \in {TRYING, PROCEEDING}, t.role = "UAS",
         NEW ev, ValidEvent("UAS", ev), NEW u \in OnStateProceedingUas(t, ev)
  PROVE  Lands(t, Fired(ev), u) /\ Pends(t, u)
<1>0. Live(t) /\ Midway(t, t) /\ Fit(t)
  BY Begun DEF Live, PROCEEDING, TRYING, TERMINATED, Midway
<1>1. CASE ev.type = "TIMER" /\ ev.entry = "rt"
  <2>1. u \in Retransmit(t, TRUE) /\ Fired(ev) = "rt"
    BY <1>1 DEF OnStateProceedingUas, Fired
  <2> QED BY <1>0, <2>1, RetransmitLands
<1>2. CASE ev.type = "TIMER" /\ ev.entry = "to"
  <2>1. u = Terminate(t, TIMEOUT) /\ TIMEOUT \in Codes
    BY <1>2 DEF OnStateProceedingUas, Codes
  <2> QED BY <1>0, <2>1, TerminateLands
<1>3. CASE ev.type = "RX"
  <2>1. Fired(ev) = "none"
    BY <1>3 DEF Fired
  <2>2. CASE t.last = NoMsg
    <3>1. u = t
      BY <1>3, <2>2 DEF OnStateProceedingUas
    <3> QED BY <2>1, <3>1, StillLands
  <2>3. CASE t.last # NoMsg
    <3>1. PICK o \in SendMsg(t, t.last) : u = o.t
      BY <1>3, <2>3 DEF OnStateProceedingUas
    <3>2. t.last \in Msgs
      BY <2>3 DEF Good, Transactions
    <3>3. Midway(t, u) /\ Moves(t, u)
      BY <1>0, <3>1, <3>2, MidwaySendMsg
    <3>4. ~NeedsTimer(t)
      BY DEF NeedsTimer, CALLING, TRYING, PROCEEDING, COMPLETED, CONFIRMED, TERMINATED
    <3> QED BY <1>0, <3>3, <3>4, StoppedLands
  <2> QED BY <2>2, <2>3
<1>4. CASE ev.type = "TX"
  <2>1. u \in Respond(t, ev.msg) /\ ev.msg \in Responses
    BY <1>4 DEF OnStateProceedingUas, ValidEvent
  <2> QED BY <2>1, RespondLands
<1> QED BY <1>1, <1>2, <1>3, <1>4 DEF ValidEvent, Entries

LEMMA OnStateTryingLands ==
  ASSUME NEW t, Good(t), Sound(t), Saved(t), t.state = TRYING, t.role = "UAS",
         NEW ev, ValidEvent("UAS", ev), NEW u \in OnStateTrying(t, ev)
  PROVE  Lands(t, Fired(ev), u) /\ Pends(t, u)
<1>1. ~NeedsTimer(t) /\ ~Repeats(t)
  BY DEF NeedsTimer, Repeats, CALLING, TRYING, PROCEEDING, COMPLETED, CONFIRMED, TERMINATED
<1>2. u = t \/ u \in OnStateProceedingUas(t, ev)
  BY DEF OnStateTrying
<1> QED BY <1>1, <1>2, StillLands, OnStateProceedingUasLands

(* tsx_on_state_completed_uas().                                           *)
LEMMA OnStateCompletedUasLands ==
  ASSUME NEW t, Good(t), Sound(t), Saved(t), t.state = COMPLETED, t.role = "UAS",
         NEW ev, ValidEvent("UAS", ev), NEW u \in OnStateCompletedUas(t, ev)
  PROVE  Lands(t, Fired(ev), u) /\ Pends(t, u)
<1>0. Live(t) /\ Midway(t, t)
  BY Begun DEF Live, COMPLETED, TERMINATED
<1>1. CASE ev.type = "TIMER" /\ ev.entry = "rt"
  <2>1. u \in Retransmit(t, TRUE) /\ Fired(ev) = "rt"
    BY <1>1 DEF OnStateCompletedUas, Fired
  <2> QED BY <1>0, <2>1, RetransmitLands
<1>2. CASE ev.type = "TIMER" /\ ev.entry = "to"
  <2>1. u \in {Terminate(t, TIMEOUT), SetState(t, TERMINATED)} /\ TIMEOUT \in Codes
    BY <1>2 DEF OnStateCompletedUas, Codes
  <2> QED BY <1>0, <2>1, TerminateLands, EndLands
<1>3. CASE ev.type = "RX" /\ ev.msg = ACK /\ t.invite
  <2> DEFINE c == CancelTimer(t, "rt")
             d == Drop(c, {"resched"})
             w == IF d.reliable THEN "T4" ELSE "zero"
             r == ResetTimeout(d, TIMEOUT_TIMER, w)
  <2>1. Good(c) /\ Quiet(t, c)
    BY CancelKept, CancelQuiet DEF Kept, Entries, Good
  <2>2. u = SetState(r, CONFIRMED)
    BY <1>3 DEF OnStateCompletedUas
  <2> HIDE DEF c
  <2>3. Good(d) /\ Quiet(c, d)
    BY <2>1, DropKept, DropQuiet DEF Kept, Good
  <2> HIDE DEF d
  <2>4. Good(r) /\ Quiet(d, r) /\ r.heap = d.heap \cup {"to"}
    <3>1. w \in Waits /\ TIMEOUT_TIMER \in 0 .. 3 /\ TIMEOUT_TIMER # TRANSPORT_ERR_TIMER
      BY DEF TIMEOUT_TIMER, TRANSPORT_ERR_TIMER, Waits
    <3> HIDE DEF w
    <3>2. Good(r)
      BY <2>3, <3>1, ResetKept, Zenon DEF Kept
    <3> QED BY <2>3, <3>1, <3>2, ResetQuiet
  <2> HIDE DEF r
  <2>5. Midway(t, r) /\ CONFIRMED \in NULL .. CONFIRMED
    BY <1>0, <2>1, <2>3, <2>4, MidwayQuiet DEF NULL, CONFIRMED
  <2>6. Midway(t, u) /\ u.heap = r.heap /\ u.state = CONFIRMED
    BY <2>2, <2>4, <2>5, MidwayBetween DEF Good
  <2>7. Live(u) /\ Forward(t.role, t.state, u.state) /\ u.role = "UAS"
    BY <2>6 DEF Live, Forward, Midway, CONFIRMED, TERMINATED
  <2>8. Saved(u) /\ Acked(t, u) /\ Timers(t, Fired(ev), u)
    BY <2>4, <2>6, <2>7 DEF Saved, Acked, Timers, Repeats, CALLING, COMPLETED, CONFIRMED
  <2> QED BY <1>0, <2>6, <2>7, <2>8, MidwayLands
<1>4. CASE ev.type = "RX" /\ ~(ev.msg = ACK /\ t.invite)
  <2>1. (u = t \/ u \in Retransmit(t, FALSE)) /\ Fired(ev) = "none"
    BY <1>4 DEF OnStateCompletedUas, Fired
  <2> QED BY <1>0, <2>1, RetransmitLands, StillLands
<1>5. CASE ev.type = "TX"
  <2>1. u = t /\ Fired(ev) = "none"
    BY <1>5 DEF OnStateCompletedUas, Fired
  <2> QED BY <2>1, StillLands
<1> QED BY <1>1, <1>2, <1>3, <1>4, <1>5 DEF ValidEvent, Entries

(* tsx_on_state_completed_uac().                                           *)
LEMMA OnStateCompletedUacLands ==
  ASSUME NEW t, Good(t), Sound(t), Saved(t), t.state = COMPLETED, t.role = "UAC",
         NEW ev, ValidEvent("UAC", ev), NEW u \in OnStateCompletedUac(t, ev)
  PROVE  Lands(t, Fired(ev), u) /\ Pends(t, u)
<1>0. Live(t) /\ Midway(t, t)
  BY Begun DEF Live, COMPLETED, TERMINATED
<1>1. CASE ev.type = "TIMER"
  <2>1. u = SetState(t, TERMINATED)
    BY <1>1 DEF OnStateCompletedUac
  <2> QED BY <1>0, <2>1, EndLands
<1>2. CASE ev.type # "TIMER"
  <2>1. (u = t \/ u \in Retransmit(t, FALSE)) /\ Fired(ev) = "none"
    BY <1>2 DEF OnStateCompletedUac, Fired
  <2> QED BY <1>0, <2>1, RetransmitLands, StillLands
<1> QED BY <1>1, <1>2

(* tsx_on_state_confirmed().                                               *)
LEMMA OnStateConfirmedLands ==
  ASSUME NEW t, Good(t), Sound(t), Saved(t), t.state = CONFIRMED,
         NEW ev, ValidEvent(t.role, ev), NEW u \in OnStateConfirmed(t, ev)
  PROVE  Lands(t, Fired(ev), u) /\ Pends(t, u)
<1>0. Live(t) /\ Midway(t, t) /\ ~Repeats(t)
  BY Begun DEF Live, Repeats, CALLING, COMPLETED, CONFIRMED, TERMINATED
<1>1. CASE ev.type = "TIMER" /\ ev.entry = "to"
  <2>1. u = SetState(t, TERMINATED)
    BY <1>1 DEF OnStateConfirmed
  <2> QED BY <1>0, <2>1, EndLands
<1>2. CASE ~(ev.type = "TIMER" /\ ev.entry = "to")
  <2>1. u = t /\ Fired(ev) # "to"
    BY <1>2 DEF OnStateConfirmed, Fired
  <2> QED BY <1>0, <2>1, StillLands
<1> QED BY <1>1, <1>2

(* tsx_on_state_terminated(): the transaction is destroyed.                *)
LEMMA DestroyLands ==
  ASSUME NEW t, Good(t), Sound(t), t.state = TERMINATED, NEW e
  PROVE  LET u == SetState(t, DESTROYED) IN Lands(t, e, u) /\ Pends(t, u)
<1> DEFINE u == SetState(t, DESTROYED)
<1>1. /\ u.role = t.role /\ u.invite = t.invite /\ u.reliable = t.reliable
      /\ u.last = NoMsg /\ ~u.tp /\ u.tx = t.tx /\ u.out = t.out
      /\ ~u.reg /\ (u.user => t.user) /\ u.wire = t.wire
      /\ u.terms = t.terms /\ u.heap = {}
      /\ \A f \in {"transport", "resolved"} : f \in u.flags <=> f \in t.flags
      /\ u.state = DESTROYED /\ u.told = IF t.user THEN DESTROYED ELSE t.told
      /\ Tame(t) => Tame(u)
  BY SetDestroyed
<1> HIDE DEF u
<1>2. ~Live(u) /\ ~Live(t) /\ Rooted(u)
  BY <1>1 DEF Sound, Live, Rooted, TERMINATED, DESTROYED
<1>3. Sound(u)
  BY <1>1, <1>2 DEF Sound, TERMINATED, DESTROYED, CALLING, CONFIRMED
<1>4. Edge(t, u) /\ Acked(t, u) /\ Timers(t, e, u) /\ Saved(u)
  BY <1>1 DEF Edge, Acked, Timers, Saved, NeedsTimer, Repeats, CALLING, PROCEEDING, COMPLETED,
              CONFIRMED, TERMINATED, DESTROYED
<1>5. Briefed(t) => Briefed(u)
  BY <1>1, <1>2 DEF Briefed, Steadfast, Counted
<1> QED BY <1>1, <1>2, <1>3, <1>4, <1>5 DEF Lands, Pends, u

(* Together: what the handler of any state leaves for any event.           *)
LEMMA StateHandlerLands ==
  ASSUME NEW t, Good(t), Sound(t), Saved(t), NEW ev, ValidEvent(t.role, ev),
         NEW u \in StateHandler(t, ev)
  PROVE  Lands(t, Fired(ev), u) /\ Pends(t, u)
<1>1. t.role \in {"UAC", "UAS"} /\ t.state \in NULL .. DESTROYED
  BY DEF Good, Transactions
<1>2. CASE t.state = NULL
  BY <1>2, Dispatch, OnStateNullLands
<1>3. CASE t.state = CALLING
  <2>1. t.role = "UAC"
    BY <1>1, <1>3 DEF Good, Allowed, CALLING
  <2> QED BY <1>3, <2>1, Dispatch, OnStateCallingLands
<1>4. CASE t.state = TRYING
  <2>1. t.role = "UAS"
    BY <1>1, <1>4 DEF Good, Allowed, TRYING
  <2> QED BY <1>4, <2>1, Dispatch, OnStateTryingLands
<1>5. CASE t.state = PROCEEDING
  <2>1. CASE t.role = "UAC"
    BY <1>5, <2>1, Dispatch, OnStateProceedingUacLands
  <2>2. CASE t.role = "UAS"
    BY <1>5, <2>2, Dispatch, OnStateProceedingUasLands
  <2> QED BY <1>1, <2>1, <2>2
<1>6. CASE t.state = COMPLETED
  <2>1. CASE t.role = "UAC"
    BY <1>6, <2>1, Dispatch, OnStateCompletedUacLands
  <2>2. CASE t.role = "UAS"
    BY <1>6, <2>2, Dispatch, OnStateCompletedUasLands
  <2> QED BY <1>1, <2>1, <2>2
<1>7. CASE t.state = CONFIRMED
  BY <1>7, Dispatch, OnStateConfirmedLands
<1>8. CASE t.state = TERMINATED
  <2>1. u \in OnStateTerminated(t, ev)
    BY <1>8, Dispatch
  <2>2. CASE ev.type = "TIMER"
    BY <1>8, <2>1, <2>2, DestroyLands DEF OnStateTerminated
  <2>3. CASE ev.type # "TIMER"
    <3>1. u = t /\ Fired(ev) = "none"
      BY <2>1, <2>3 DEF OnStateTerminated, Fired
    <3> QED BY <3>1, StillLands
  <2> QED BY <2>2, <2>3
<1>9. CASE t.state = DESTROYED
  <2>1. u = t
    BY <1>9, Dispatch
  <2>2. ~NeedsTimer(t) /\ ~Repeats(t)
    BY <1>9 DEF NeedsTimer, Repeats, CALLING, PROCEEDING, COMPLETED, CONFIRMED, TERMINATED, DESTROYED
  <2> QED BY <2>1, <2>2, StillLands
<1> QED BY <1>1, <1>2, <1>3, <1>4, <1>5, <1>6, <1>7, <1>8, <1>9, StatesTyped
=============================================================================
