----------------------------- MODULE TsxPairProofs -----------------------------
(***************************************************************************)
(* The two ends of a call agree on its final response, for every choice of *)
(* transport faults, methods and answers.  The argument follows one number *)
(* through the system: the server takes one final response from its user,  *)
(* keeps and sends no other, so no other is on the wire, so no other is    *)
(* the client's status; and the ACK that confirms the server is sent by a  *)
(* client that has the rejection.                                          *)
(***************************************************************************)
EXTENDS TsxPair, SipTransactionProofs, FiniteSetTheorems

(* The user has been told the state the transaction is in; a transaction   *)
(* without a user told it of its end before it let go of it.               *)
InStep(t) == IF t.user THEN t.told = t.state
             ELSE t.told >= TERMINATED /\ t.state >= TERMINATED

(* A transaction that has its user and is not about to be destroyed by the *)
(* answer to a send.                                                       *)
Free(t) == t.user /\ "destroy" \notin t.flags

(* What a send of messages of M may do: give them to the transport, and    *)
(* end the transaction with an error.                                      *)
Carries(t, u, M) ==
    /\ u.state = t.state \/ u.state >= TERMINATED
    /\ u.code \in {t.code, TIMEOUT, UNAVAILABLE}
    /\ u.last \in {t.last, NoMsg}
    /\ u.wire \subseteq t.wire \cup M
    /\ InStep(t) => InStep(u)
    /\ Free(t) => Free(u)

(* What a timer or a flag may do: nothing of this.                         *)
Still(t, u) ==
    /\ u.state = t.state /\ u.code = t.code /\ u.last = t.last /\ u.wire = t.wire
    /\ u.user = t.user /\ u.told = t.told
    /\ "destroy" \in u.flags => "destroy" \in t.flags

(* Steps compose.                                                          *)
LEMMA CarriesTrans ==
  ASSUME NEW t, NEW u, NEW v, NEW M, Carries(t, u, M), Carries(u, v, M)
  PROVE  Carries(t, v, M)
  BY DEF Carries, TIMEOUT, UNAVAILABLE

(* Standing still does, too.                                               *)
LEMMA StillTrans ==
  ASSUME NEW t, NEW u, NEW v, Still(t, u), Still(u, v) PROVE Still(t, v)
  BY DEF Still

(* And it carries whatever is asked for.                                   *)
LEMMA StillCarries ==
  ASSUME NEW t, NEW u, NEW M, Still(t, u) PROVE Carries(t, u, M)
  BY DEF Still, Carries, InStep, Free

(* Timers and flags.                                                       *)
LEMMA TimersStill ==
  ASSUME NEW t \in Transactions, NEW e, NEW i, NEW w
  PROVE  /\ Still(t, CancelTimer(t, e)) /\ Still(t, ScheduleTimer(t, e, i, w))
         /\ Still(t, ResetTimeout(t, i, w)) /\ Still(t, PostTransportError(t))
         /\ Still(t, Retransmission(t)) /\ Still(t, StartRetransmission(t))
         /\ Still(t, Drop(t, e)) /\ Still(t, t)
<1>1. Still(t, CancelTimer(t, e)) /\ Still(t, ScheduleTimer(t, e, i, w))
  BY DEF Still, Transactions, CancelTimer, ScheduleTimer
<1>2. \A j, v : Still(t, ResetTimeout(t, j, v))
  BY DEF Still, Transactions, CancelTimer, ScheduleTimer, ResetTimeout
<1>3. Still(t, Retransmission(t))
  BY DEF Still, Transactions, ScheduleTimer, Retransmission
<1>4. Still(t, StartRetransmission(t))
  BY <1>3 DEF Still, Transactions, StartRetransmission
<1>5. Still(t, Drop(t, e)) /\ Still(t, t)
  BY DEF Still, Transactions, Drop
<1> QED BY <1>1, <1>2, <1>3, <1>4, <1>5 DEF PostTransportError

(* tsx_set_state() tells the user, if there is one.                        *)
LEMMA SetStateTells ==
  ASSUME NEW t \in Transactions, NEW s \in NULL .. DESTROYED
  PROVE  LET u == SetState(t, s)
         IN  /\ u.last \in {t.last, NoMsg} /\ u.wire = t.wire
             /\ t.user \/ (InStep(t) /\ s >= TERMINATED) => InStep(u)
             /\ Free(t) /\ s # DESTROYED => Free(u)
<1> DEFINE n == Notify([t EXCEPT !.state = s])
           a == [n EXCEPT !.tx = @ /\ "transport" \notin n.flags, !.flags = @ \ {"transport"}]
           b == [n EXCEPT !.reg = FALSE]
           u == SetState(t, s)
<1>1. /\ n.state = s /\ n.flags = t.flags /\ n.last = t.last /\ n.wire = t.wire
      /\ n.user = t.user /\ n.told = IF t.user THEN s ELSE t.told
  BY DEF Notify, Transactions
<1>2. t.user \/ (InStep(t) /\ s >= TERMINATED) => InStep(n)
  BY <1>1 DEF InStep
<1>6. n \in Transactions
  <2>1. [t EXCEPT !.state = s] \in Transactions
    BY DEF Transactions
  <2>2. ASSUME NEW v \in Transactions PROVE Notify(v) \in Transactions
    <3>1. (IF v.state = TERMINATED /\ v.terms < 2 THEN v.terms + 1 ELSE v.terms) \in 0 .. 2
      BY DEF Transactions
    <3> QED BY <3>1 DEF Notify, Transactions
  <2> QED BY <2>1, <2>2
<1>3. CASE s = TERMINATED
  <2>1. SetState(t, s) = ResetTimeout(a, TIMEOUT_TIMER, "zero")
    <3>1. EnterTerminated(n) = ResetTimeout(a, TIMEOUT_TIMER, "zero")
      BY Zenon DEF EnterTerminated
    <3> HIDE DEF n
    <3>2. SetState(t, s) = CASE s = TERMINATED -> EnterTerminated(n)
                             [] s = DESTROYED  -> EnterDestroyed(n)
                             [] OTHER          -> n
      BY Zenon DEF SetState, n
    <3>3. SetState(t, s) = EnterTerminated(n)
      BY <1>3, <3>2 DEF TERMINATED, DESTROYED
    <3> QED BY <3>1, <3>3 DEF n
  <2>2. Still(n, a)
    BY DEF Still, Notify, Transactions
  <2>3. Still(a, ResetTimeout(a, TIMEOUT_TIMER, "zero"))
    <3> HIDE DEF n
    <3>1. n.flags \ {"transport"} \in SUBSET Flags
          /\ (n.tx /\ "transport" \notin n.flags) \in BOOLEAN
      BY <1>6 DEF Transactions
    <3>2. ASSUME NEW x \in BOOLEAN, NEW f \in SUBSET Flags
          PROVE  [n EXCEPT !.tx = x, !.flags = f] \in Transactions
      BY <1>6 DEF Transactions
    <3>3. a \in Transactions
      BY <3>1, <3>2, Zenon
    <3> HIDE DEF a
    <3> QED BY <3>3, TimersStill
  <2> HIDE DEF a, n
  <2>4. Still(n, u)
    BY <2>1, <2>2, <2>3, StillTrans
  <2> HIDE DEF u
  <2>5. InStep(n) => InStep(u)
    BY <2>4 DEF Still, InStep
  <2>6. Free(t) => Free(u)
    BY <1>1, <2>4 DEF Still, Free
  <2>7. u.last = t.last /\ u.wire = t.wire
    BY <1>1, <2>4 DEF Still
  <2> QED BY <1>2, <2>5, <2>6, <2>7 DEF u
<1>4. CASE s = DESTROYED
  <2>1. SetState(t, s) = Shutdown(b)
    BY <1>4 DEF SetState, EnterDestroyed, TERMINATED, DESTROYED
  <2> HIDE DEF n
  <2>4. b \in Transactions /\ b.state = n.state /\ b.wire = n.wire /\ b.told = n.told
        /\ b.user = n.user
    BY <1>6 DEF Transactions
  <2>5. ASSUME NEW v \in Transactions
        PROVE  LET d == Shutdown(v)
               IN  /\ d.state = v.state /\ d.last = NoMsg /\ d.wire = v.wire
                   /\ d.told = v.told /\ (d.user => v.user)
    BY DEF Shutdown, Transactions, CancelTimer
  <2> HIDE DEF b
  <2>2. /\ Shutdown(b).state = s /\ Shutdown(b).last = NoMsg /\ Shutdown(b).wire = t.wire
        /\ Shutdown(b).told = n.told /\ (Shutdown(b).user => t.user)
    BY <1>1, <2>4, <2>5
  <2>3. t.user \/ (InStep(t) /\ s >= TERMINATED) => InStep(Shutdown(b))
    BY <1>1, <1>4, <2>2 DEF InStep, TERMINATED, DESTROYED
  <2> QED BY <1>4, <2>1, <2>2, <2>3
<1>5. CASE s # TERMINATED /\ s # DESTROYED
  <2>1. u = n
    BY <1>5 DEF SetState
  <2> HIDE DEF n, u
  <2> QED BY <1>1, <1>2, <2>1 DEF Free, u
<1> QED BY <1>3, <1>4, <1>5

(* An end with an error.                                                   *)
LEMMA TerminateCarries ==
  ASSUME NEW t, Good(t), NEW c \in {TIMEOUT, UNAVAILABLE}, NEW M
  PROVE  Carries(t, Terminate(t, c), M) /\ Terminate(t, c).state = TERMINATED
<1> DEFINE a == [t EXCEPT !.code = c]
           u == SetState(a, TERMINATED)
<1>1. a \in Transactions
  BY DEF Good, Transactions, Codes
<1>2. /\ a.code = c /\ a.last = t.last /\ a.wire = t.wire /\ a.flags = t.flags
      /\ a.user = t.user /\ a.told = t.told /\ a.state = t.state
  BY DEF Good, Transactions
<1>3. Terminate(t, c) = u /\ TERMINATED \in NULL .. DESTROYED /\ TERMINATED # DESTROYED
      /\ TERMINATED >= TERMINATED
  BY DEF Terminate, TERMINATED, NULL, DESTROYED
<1> HIDE DEF a
<1>4. u.state = TERMINATED /\ u.code = c
  BY <1>1, <1>2, <1>3, SetStateEffect
<1>5. u.last \in {t.last, NoMsg} /\ u.wire = t.wire
  BY <1>1, <1>2, <1>3, SetStateTells
<1>6. InStep(t) => InStep(u)
  <2>1. InStep(t) => InStep(a)
    BY <1>2 DEF InStep
  <2> QED BY <1>1, <1>3, <2>1, SetStateTells
<1>7. Free(t) => Free(u)
  <2>1. Free(t) => Free(a)
    BY <1>2 DEF Free
  <2> QED BY <1>1, <1>3, <2>1, SetStateTells
<1> HIDE DEF u
<1> QED BY <1>3, <1>4, <1>5, <1>6, <1>7 DEF Carries

(* A permanent error.                                                      *)
LEMMA PermanentCarries ==
  ASSUME NEW t, Good(t), NEW M
  PROVE  Carries(t, PermanentError(t).t, M) /\ PermanentError(t).t.state = TERMINATED
<1> DEFINE u == [t EXCEPT !.tp = FALSE]
<1>1. Good(u) /\ Carries(t, u, M)
  <2>1. Still(t, u)
    BY DEF Still, Good, Transactions
  <2> QED BY <2>1, TpKept, StillCarries DEF Kept
<1>2. PermanentError(t).t = Terminate(u, UNAVAILABLE)
  BY DEF PermanentError, Outcome
<1> HIDE DEF u
<1> QED BY <1>1, <1>2, TerminateCarries, CarriesTrans

(* A message given to the transport.                                       *)
LEMMA EmitCarries ==
  ASSUME NEW t \in Transactions, NEW M, NEW m \in M
  PROVE  Carries(t, Emit(t, m), M) /\ Emit(t, m).state = t.state
  BY DEF Transactions, Carries, Emit, InStep, Free

(* A send on the transaction's transport.                                  *)
LEMMA SendOnTransportCarries ==
  ASSUME NEW t, Good(t), NEW M, NEW m \in M, NEW o \in SendOnTransport(t, m)
  PROVE  Carries(t, o.t, M) /\ o.ok
<1> DEFINE a == [t EXCEPT !.flags = @ \cup {"transport"}, !.out = @ + 1, !.refs = @ + 1]
<1>1. o.t \in {Emit(t, m), Emit(a, m)} /\ o.ok
  BY DEF SendOnTransport, Outcome
<1>2. a \in Transactions /\ Still(t, a)
  <2>1. t.flags \cup {"transport"} \in SUBSET Flags /\ t.out + 1 \in Nat /\ t.refs + 1 \in Nat
    BY DEF Good, Transactions, Flags
  <2> QED BY <2>1 DEF Good, Transactions, Still
<1> HIDE DEF a
<1>3. Carries(a, Emit(a, m), M) /\ Carries(t, Emit(t, m), M) /\ Carries(t, a, M)
  BY <1>2, EmitCarries, StillCarries DEF Good
<1> QED BY <1>1, <1>3, CarriesTrans

(* The message queued behind a send is the one saved.                      *)
LEMMA SendQueuedCarries ==
  ASSUME NEW t, Good(t), NEW M, t.last \in M \cup {NoMsg}, NEW u \in SendQueued(t)
  PROVE  Carries(t, u, M)
<1>1. CASE t.last = NoMsg
  <2>1. u = t
    BY <1>1 DEF SendQueued
  <2> QED BY <2>1, TimersStill, StillCarries DEF Good
<1>2. CASE t.last # NoMsg
  <2>1. u = PermanentError(t).t \/ \E o \in SendOnTransport(t, t.last) : u = o.t
    BY <1>2 DEF SendQueued
  <2> QED BY <1>2, <2>1, SendOnTransportCarries, PermanentCarries
<1> QED BY <1>1, <1>2

(* The transport that a send has found.                                    *)
LEMMA AttachedStill ==
  ASSUME NEW t, Good(t), NEW u \in Attached(t)
  PROVE  Still(t, u)
<1>1. PICK a : /\ \/ a \in Found(t)
                  \/ \E f \in Found(t) : a = PostTransportError(f)
               /\ u = [a EXCEPT !.tx = FALSE,
                                !.flags = (@ \ {"transport"}) \cup {"resolved"}]
  BY DEF Attached
<1>2. ASSUME NEW f \in Found(t)
      PROVE  f \in Transactions /\ Still(t, f)
  <2>1. PICK rel \in BOOLEAN : f = [t EXCEPT !.tp = TRUE, !.reliable = rel]
    BY DEF Found, Good, Transactions
  <2> QED BY <2>1, FoundKept DEF Kept, Good, Transactions, Still
<1>3. a \in Transactions /\ Still(t, a)
  <2>1. CASE a \in Found(t)
    BY <1>2, <2>1
  <2>2. ASSUME NEW f \in Found(t), a = PostTransportError(f)
        PROVE  a \in Transactions /\ Still(t, a)
    <3>1. Good(f)
      BY FoundKept DEF Kept
    <3>2. a \in Transactions /\ Still(f, a)
      BY <2>2, <3>1, PostKept, TimersStill DEF Kept, Good
    <3> QED BY <1>2, <3>2, StillTrans
  <2> QED BY <1>1, <2>1, <2>2
<1>4. Still(a, u)
  BY <1>1, <1>3 DEF Still, Transactions
<1> QED BY <1>3, <1>4, StillTrans

(* The retransmission that waited for the send.                            *)
LEMMA StartWaitingStill ==
  ASSUME NEW t, Good(t)
  PROVE  Still(t, StartWaiting(t))
<1> DEFINE d == Drop(t, {"resched"})
<1>1. Still(t, d) /\ d \in Transactions /\ Still(t, t)
  BY DropKept, TimersStill DEF Good, Kept
<1>2. Still(d, Retransmission(d))
  BY <1>1, TimersStill
<1>3. StartWaiting(t) \in {t, d, Retransmission(d)}
  BY DEF StartWaiting
<1> QED BY <1>1, <1>2, <1>3, StillTrans

(* send_msg_callback(): the message saved is sent, nothing else.           *)
LEMMA SentOkCarries ==
  ASSUME NEW t, Good(t), NEW M, t.last \in M \cup {NoMsg}, NEW u \in SentOk(t)
  PROVE  Carries(t, u, M)
<1>1. PICK a \in Attached(t) :
        \/ "destroy" \in a.flags /\ u = SetState(a, DESTROYED)
        \/ \E b \in SendQueued(Drop(a, {"send"})) : u = StartWaiting(b)
        \/ u = StartWaiting(a)
  BY DEF SentOk
<1>2. Good(a) /\ a \in Transactions /\ Still(t, a) /\ Carries(t, a, M)
  BY AttachedKept, AttachedStill, StillCarries DEF Kept, Good
<1>3. CASE "destroy" \in a.flags /\ u = SetState(a, DESTROYED)
  <2>1. u.state = DESTROYED /\ u.code = a.code
    BY <1>2, <1>3, SetStateEffect DEF NULL, DESTROYED
  <2>2. /\ u.last \in {a.last, NoMsg} /\ u.wire = a.wire
        /\ InStep(a) => InStep(u)
    BY <1>2, <1>3, SetStateTells DEF NULL, DESTROYED, TERMINATED
  <2>3. ~Free(a)
    BY <1>3 DEF Free
  <2>4. Carries(a, u, M)
    BY <2>1, <2>2, <2>3 DEF Carries, DESTROYED, TERMINATED
  <2> QED BY <1>2, <2>4, CarriesTrans
<1>4. CASE u = StartWaiting(a)
  BY <1>2, <1>4, StartWaitingStill, StillCarries, CarriesTrans
<1>5. ASSUME NEW b \in SendQueued(Drop(a, {"send"})), u = StartWaiting(b)
      PROVE  Carries(t, u, M)
  <2> DEFINE d == Drop(a, {"send"})
  <2>1. Good(d) /\ Still(a, d)
    BY <1>2, DropKept, TimersStill DEF Kept
  <2>2. d.last \in M \cup {NoMsg} /\ Carries(a, d, M)
    BY <1>2, <2>1, StillCarries DEF Still
  <2>3. Good(b) /\ Carries(d, b, M)
    BY <2>1, <2>2, SendQueuedKept, SendQueuedCarries DEF Kept
  <2>4. Carries(b, u, M)
    BY <1>5, <2>3, StartWaitingStill, StillCarries
  <2> QED BY <1>2, <2>2, <2>3, <2>4, CarriesTrans
<1> QED BY <1>1, <1>3, <1>4, <1>5

(* And nothing at all when it fails.                                       *)
LEMMA SentErrorCarries ==
  ASSUME NEW t, Good(t), NEW M
  PROVE  Carries(t, SentError(t), M)
<1> DEFINE a == [t EXCEPT !.tx = FALSE, !.code = UNAVAILABLE,
                          !.flags = (@ \ {"transport"}) \cup {"resolved"}]
           u == SentError(t)
<1>1. a \in Transactions
  <2>1. UNAVAILABLE \in Codes
    BY DEF Codes
  <2>2. (t.flags \ {"transport"}) \cup {"resolved"} \in SUBSET Flags
    BY DEF Good, Transactions, Flags
  <2> QED BY <2>1, <2>2 DEF Good, Transactions
<1>2. /\ a.code = UNAVAILABLE /\ a.state = t.state /\ t.state \in NULL .. DESTROYED
      /\ a.last = t.last /\ a.wire = t.wire /\ a.user = t.user /\ a.told = t.told
      /\ ("destroy" \in a.flags <=> "destroy" \in t.flags)
  BY DEF Good, Transactions
<1>3. u = IF a.state < TERMINATED THEN SetState(a, TERMINATED)
          ELSE IF "destroy" \in a.flags THEN SetState(a, DESTROYED) ELSE a
  BY DEF SentError
<1> HIDE DEF a, u
<1>4. (InStep(t) => InStep(a)) /\ (Free(t) => Free(a))
  BY <1>2 DEF InStep, Free
<1>5. ASSUME NEW s \in {TERMINATED, DESTROYED}, u = SetState(a, s),
             s = DESTROYED => "destroy" \in a.flags
      PROVE  Carries(t, u, M)
  <2>1. s \in NULL .. DESTROYED /\ s >= TERMINATED
    BY DEF NULL, TERMINATED, DESTROYED
  <2>2. u.state = s /\ u.code = UNAVAILABLE
    BY <1>1, <1>2, <1>5, <2>1, SetStateEffect
  <2>3. u.last \in {t.last, NoMsg} /\ u.wire = t.wire /\ (InStep(t) => InStep(u))
    BY <1>1, <1>2, <1>4, <1>5, <2>1, SetStateTells
  <2>4. Free(t) => Free(u)
    BY <1>1, <1>4, <1>5, <2>1, SetStateTells DEF Free
  <2> QED BY <2>1, <2>2, <2>3, <2>4 DEF Carries
<1>6. Carries(t, a, M)
  <2>1. /\ a.state = t.state /\ a.code \in {t.code, TIMEOUT, UNAVAILABLE}
        /\ a.last \in {t.last, NoMsg} /\ a.wire \subseteq t.wire \cup M
    BY <1>2
  <2> QED BY <1>4, <2>1, Zenon DEF Carries
<1>7. TERMINATED # DESTROYED
  BY DEF TERMINATED, DESTROYED
<1>8. CASE u = SetState(a, TERMINATED)
  BY <1>5, <1>7, <1>8, Zenon DEF u
<1>9. CASE u = SetState(a, DESTROYED) /\ "destroy" \in a.flags
  BY <1>5, <1>9, Zenon DEF u
<1>10. CASE u = a
  BY <1>6, <1>10, Zenon DEF u
<1> QED BY <1>3, <1>8, <1>9, <1>10, Zenon

(* Another server is tried.                                                *)
LEMMA SentNextCarries ==
  ASSUME NEW t, Good(t), NEW M
  PROVE  Carries(t, SentNext(t), M)
<1> DEFINE a == [t EXCEPT !.tx = TRUE]
<1>1. a \in Transactions /\ Still(t, a)
  BY DEF Good, Transactions, Still
<1> HIDE DEF a
<1>2. Still(t, ResetTimeout(a, TIMEOUT_TIMER, "64T1"))
  BY <1>1, TimersStill, StillTrans
<1>3. SentNext(t) \in {SentError(t), ResetTimeout(a, TIMEOUT_TIMER, "64T1"), a}
  BY DEF SentNext, a
<1> QED BY <1>1, <1>2, <1>3, SentErrorCarries, StillCarries

(* A stateless send.  A client whose message is refused at once has sent   *)
(* nothing; any other failure has ended the transaction.                   *)
LEMMA StatelessFails ==
  ASSUME NEW t, NEW m, NEW o \in SendStateless(t, m), ~o.ok
  PROVE  o.t.state = TERMINATED \/ (o.t = Refusal(t) /\ t.role = "UAC")
  BY StatelessCases

(* What becomes of it carries the message.                                 *)
LEMMA SendStatelessCarries ==
  ASSUME NEW t, Good(t), NEW M, NEW m \in M, M \subseteq Msgs, t.last \in M \cup {NoMsg},
         NEW o \in SendStateless(t, m)
  PROVE  Carries(t, o.t, M)
<1> DEFINE p == Attempt(t, m)
           q == [t EXCEPT !.tx = TRUE, !.flags = t.flags \cup {"transport"}]
<1>1. Good(q) /\ Still(t, q) /\ Still(t, Refusal(t)) /\ p = Emit(q, m)
  <2>1. t.flags \cup {"transport"} \in SUBSET Flags
    BY DEF Good, Transactions, Flags
  <2>2. Good(q)
    BY <2>1, TxKept, Zenon DEF Kept
  <2>3. Still(t, q) /\ Still(t, Refusal(t))
    BY DEF Still, Refusal, Good, Transactions
  <2>4. p = Emit(q, m)
    BY DEF Good, Transactions, Attempt
  <2> QED BY <2>2, <2>3, <2>4
<1> HIDE DEF q, p
<1>2. Good(p) /\ Carries(t, p, M) /\ Carries(t, Refusal(t), M)
  <2>1. Good(p)
    BY <1>1, EmitKept DEF Kept
  <2>2. Carries(q, p, M) /\ Carries(t, q, M)
    BY <1>1, EmitCarries, StillCarries DEF Good
  <2> QED BY <1>1, <2>1, <2>2, CarriesTrans, StillCarries
<1>3. /\ Good(SentNext(p))
      /\ Carries(p, SentNext(p), M) /\ Carries(p, SentError(p), M)
  BY <1>2, SentNextKept, SentNextCarries, SentErrorCarries DEF Kept
<1>4. Carries(t, SentNext(p), M) /\ Carries(t, SentError(p), M)
  BY <1>2, <1>3, CarriesTrans
<1>5. o.t \in {p, SentNext(p), SentError(p), Refusal(t)} \cup SentOk(p) \cup SentOk(SentNext(p))
  BY Sendings DEF p
<1>6. ASSUME NEW r, Good(r), Carries(t, r, M), o.t \in SentOk(r)
      PROVE  Carries(t, o.t, M)
  <2>1. r.last \in M \cup {NoMsg}
    BY <1>6 DEF Carries
  <2> QED BY <1>6, <2>1, SentOkCarries, CarriesTrans
<1>7. o.t \in {p, SentNext(p), SentError(p), Refusal(t)} \/ o.t \in SentOk(p)
      \/ o.t \in SentOk(SentNext(p))
  BY <1>5
<1>8. CASE o.t \in {p, SentNext(p), SentError(p), Refusal(t)}
  BY <1>2, <1>4, <1>8
<1> QED BY <1>2, <1>3, <1>4, <1>6, <1>7, <1>8

(* tsx_send_msg() carries the message, too, and when it fails it has ended *)
(* the transaction or sent nothing.                                        *)
LEMMA SendMsgCarries ==
  ASSUME NEW t, Good(t), NEW M, NEW m \in M, M \subseteq Msgs, t.last \in M \cup {NoMsg},
         NEW o \in SendMsg(t, m)
  PROVE  /\ Carries(t, o.t, M)
         /\ ~o.ok => o.t.state = TERMINATED \/ (o.t.wire = t.wire /\ t.role = "UAC")
<1> DEFINE n == [t EXCEPT !.tp = FALSE]
           f == [t EXCEPT !.flags = @ \cup {"send"}]
<1>1. /\ Good(n) /\ Still(t, n) /\ Still(t, f) /\ Still(t, t)
      /\ n.role = t.role /\ n.wire = t.wire
  <2>1. Still(t, n) /\ Still(t, f) /\ Still(t, t) /\ n.role = t.role /\ n.wire = t.wire
    BY DEF Still, Good, Transactions
  <2> QED BY <2>1, TpKept DEF Kept
<1>2. \/ o = Outcome(f, TRUE) \/ o = Outcome(t, TRUE)
      \/ o = PermanentError(t)
      \/ o \in SendOnTransport(t, m)
      \/ o \in SendStateless(n, m)
      \/ o \in SendStateless(t, m)
  BY DEF SendMsg
<1> HIDE DEF n, f
<1>3. CASE o = Outcome(f, TRUE) \/ o = Outcome(t, TRUE)
  BY <1>1, <1>3, StillCarries DEF Outcome
<1>4. CASE o = PermanentError(t)
  BY <1>4, PermanentCarries
<1>5. CASE o \in SendOnTransport(t, m)
  BY <1>5, SendOnTransportCarries
<1>6. ASSUME NEW r, Good(r), Still(t, r), r.role = t.role, o \in SendStateless(r, m)
      PROVE  /\ Carries(t, o.t, M)
             /\ ~o.ok => o.t.state = TERMINATED \/ (o.t.wire = t.wire /\ t.role = "UAC")
  <2>1. Carries(t, r, M) /\ r.last \in M \cup {NoMsg}
    BY <1>6, StillCarries DEF Still
  <2>2. Carries(r, o.t, M)
    BY <1>6, <2>1, SendStatelessCarries
  <2>3. Refusal(r).wire = t.wire
    BY <1>6 DEF Refusal, Still, Good, Transactions
  <2>4. ~o.ok => o.t.state = TERMINATED \/ (o.t = Refusal(r) /\ r.role = "UAC")
    BY <1>6, StatelessFails
  <2> QED BY <1>6, <2>1, <2>2, <2>3, <2>4, CarriesTrans
<1> QED BY <1>1, <1>2, <1>3, <1>4, <1>5, <1>6

(* tsx_retransmit() sends the message saved.                               *)
LEMMA RetransmitCarries ==
  ASSUME NEW t, Good(t), NEW M, M \subseteq Msgs, t.last \in M \cup {NoMsg},
         NEW b \in BOOLEAN, NEW u \in Retransmit(t, b)
  PROVE  Carries(t, u, M)
<1> DEFINE a == IF b THEN StartRetransmission(t) ELSE t
<1>1. CASE (b /\ "rt" \in t.heap) \/ t.last = NoMsg
  <2>1. u = t
    BY <1>1 DEF Retransmit
  <2> QED BY <2>1, TimersStill, StillCarries DEF Good
<1>2. CASE ~((b /\ "rt" \in t.heap) \/ t.last = NoMsg)
  <2>1. Good(a) /\ Still(t, a)
    BY StartRetransmissionKept, TimersStill DEF Kept, Good
  <2>2. \E o \in SendMsg(a, a.last) : u = o.t
    BY <1>2 DEF Retransmit
  <2> HIDE DEF a
  <2>3. a.last \in M /\ Carries(t, a, M)
    BY <1>2, <2>1, StillCarries DEF Still
  <2>4. Carries(a, u, M)
    BY <2>1, <2>2, <2>3, SendMsgCarries
  <2> QED BY <2>3, <2>4, CarriesTrans
<1> QED BY <1>1, <1>2

(* The same without the state, which a handler changes on top of it.       *)
Says(t, u, M) ==
    /\ u.code \in {t.code, TIMEOUT, UNAVAILABLE}
    /\ u.last \in {t.last, NoMsg}
    /\ u.wire \subseteq t.wire \cup M

(* What carries says no more, and a change of state says nothing.          *)
LEMMA CarriesSays ==
  ASSUME NEW t, NEW u, NEW M, Carries(t, u, M) \/ Still(t, u)
  PROVE  Says(t, u, M)
  BY DEF Carries, Still, Says

(* Steps compose.                                                          *)
LEMMA SaysTrans ==
  ASSUME NEW t, NEW u, NEW v, NEW M, Says(t, u, M), Says(u, v, M)
  PROVE  Says(t, v, M)
  BY DEF Says, TIMEOUT, UNAVAILABLE

(* tsx_set_state().                                                        *)
LEMMA SetStateSays ==
  ASSUME NEW t, Good(t), NEW M,
         NEW s \in {NULL, CALLING, TRYING, PROCEEDING, COMPLETED, CONFIRMED, TERMINATED,
                    DESTROYED}
  PROVE  Says(t, SetState(t, s), M) /\ SetState(t, s).state = s
<1> DEFINE u == SetState(t, s)
<1>1. t \in Transactions /\ s \in NULL .. DESTROYED
  BY StatesTyped DEF Good
<1>2. u.state = s /\ u.code = t.code
  BY <1>1, SetStateEffect
<1>3. u.last \in {t.last, NoMsg} /\ u.wire = t.wire
  BY <1>1, SetStateTells
<1> HIDE DEF u
<1>4. Says(t, u, M) /\ u.state = s
  BY <1>2, <1>3 DEF Says
<1> QED BY <1>4 DEF u

-----------------------------------------------------------------------------
(* The client.  Its ACK is there from COMPLETED on only.                   *)
Acks(t) == t.last = ACK \/ ACK \in t.wire

ClientLast(t) == /\ t.last \in {NoMsg, REQ, ACK}
                 /\ t.last = ACK => t.state >= COMPLETED

(* What the handling of an event does to a client: its status is that of a *)
(* response, and the ACK answers a rejection it has recorded.              *)
ClientStep(t, u, ev) ==
    /\ t.state >= COMPLETED => u.state >= COMPLETED
    /\ u.code \in {t.code, TIMEOUT, UNAVAILABLE} \/ (ev.type = "RX" /\ u.code = ev.msg)
    /\ u.last \in {NoMsg, REQ, ACK}
    /\ u.wire \subseteq t.wire \cup {REQ, ACK}
    /\ Acks(u) => Acks(t) \/ (u.state >= COMPLETED /\ ev.type = "RX" /\ ev.msg = 300)

(* A step that repeats the request, or the ACK if that is the message      *)
(* saved.                                                                  *)
LEMMA SaysClient ==
  ASSUME NEW t, NEW u, NEW ev, NEW M, M \subseteq {REQ, ACK}, ACK \in M => Acks(t),
         ClientLast(t), Says(t, u, M), t.state >= COMPLETED => u.state >= COMPLETED
  PROVE  ClientStep(t, u, ev)
<1>1. /\ u.code \in {t.code, TIMEOUT, UNAVAILABLE} /\ u.last \in {NoMsg, REQ, ACK}
      /\ u.wire \subseteq t.wire \cup {REQ, ACK}
  BY DEF Says, ClientLast
<1>2. u.last = ACK => t.last = ACK
  BY DEF Says, ACK, NoMsg
<1>3. ACK \in u.wire => ACK \in t.wire \/ Acks(t)
  BY DEF Says
<1>4. Acks(u) => Acks(t)
  BY <1>2, <1>3 DEF Acks
<1> QED BY <1>1, <1>4, Zenon DEF ClientStep

(* Before COMPLETED it has no ACK.                                         *)
LEMMA ClientRequest ==
  ASSUME NEW t, Good(t), ClientLast(t), t.state < COMPLETED
  PROVE  /\ t.last \in {REQ} \cup {NoMsg} /\ ~(t.state >= COMPLETED)
         /\ {REQ} \subseteq {REQ, ACK} /\ ACK \notin {REQ} /\ {REQ} \subseteq Msgs
         /\ REQ \in {REQ}
  BY DEF ClientLast, Good, Transactions, COMPLETED, REQ, ACK, NoMsg, Msgs, NULL, DESTROYED

(* The request is sent.                                                    *)
LEMMA NullClient ==
  ASSUME NEW t, Good(t), ClientLast(t), t.state = NULL, t.role = "UAC",
         NEW ev, ValidEvent("UAC", ev), NEW u \in OnStateNull(t, ev)
  PROVE  ClientStep(t, u, ev)
<1>0. t.state < COMPLETED /\ ~(t.state >= COMPLETED)
  BY DEF NULL, COMPLETED
<1>1. CASE ev.type = "TX"
  <2> DEFINE l == [t EXCEPT !.last = REQ]
  <2>1. ev.msg = REQ /\ REQ \in Msgs
    BY <1>1 DEF ValidEvent, Msgs
  <2>2. Good(l) /\ l.last = REQ /\ l.code = t.code /\ l.wire = t.wire
    <3>1. Good(l)
      BY <2>1, LastKept DEF Kept
    <3> QED BY <3>1 DEF Good, Transactions
  <2>3. PICK o \in SendMsg(l, REQ) : u = IF o.ok THEN Started(o.t) ELSE o.t
    <3>1. t.role # "UAS"
      OBVIOUS
    <3> QED BY <1>1, <2>1, <3>1 DEF OnStateNull
  <2> HIDE DEF l
  <2>4. Good(o.t) /\ Says(l, o.t, {REQ})
    <3>1. REQ \in {REQ} /\ {REQ} \subseteq Msgs /\ l.last \in {REQ} \cup {NoMsg}
      BY <2>1, <2>2
    <3> QED BY <2>1, <2>2, <2>3, <3>1, SendMsgKept, SendMsgCarries, CarriesSays DEF Kept
  <2> DEFINE b == ResetTimeout(o.t, TIMEOUT_TIMER, "64T1")
             c == IF b.reliable THEN b ELSE StartRetransmission(b)
  <2>5. Good(b) /\ Still(o.t, b)
    <3>1. o.t \in Transactions
      BY <2>4 DEF Good
    <3>2. Still(o.t, b)
      BY <3>1, TimersStill
    <3> QED BY <2>4, <3>2, ResetKept DEF Kept, TIMEOUT_TIMER, Waits
  <2>6. Good(c) /\ Still(b, c)
    <3>1. b \in Transactions
      BY <2>5 DEF Good
    <3> QED BY <2>5, <3>1, TimersStill, StartRetransmissionKept DEF Kept
  <2>7. Started(o.t) = SetState(c, CALLING)
    BY DEF Started
  <2> HIDE DEF b, c
  <2>8. Says(l, Started(o.t), {REQ})
    <3>1. Says(o.t, b, {REQ}) /\ Says(b, c, {REQ})
      BY <2>5, <2>6, CarriesSays
    <3>2. Says(c, Started(o.t), {REQ})
      BY <2>6, <2>7, SetStateSays
    <3> QED BY <2>4, <3>1, <3>2, SaysTrans
  <2>9. Says(l, u, {REQ})
    BY <2>3, <2>4, <2>8
  <2> QED BY <1>0, <2>2, <2>9 DEF Says, ClientStep, Acks, REQ, ACK, NoMsg
<1>2. CASE ev.type # "TX"
  <2>1. u = t
    BY <1>2 DEF OnStateNull
  <2> QED BY <2>1 DEF ClientStep, ClientLast
<1> QED BY <1>1, <1>2

(* A rejection: only a client that has recorded it acknowledges it.        *)
LEMMA RejectedDoneSays ==
  ASSUME NEW t, Good(t), NEW m \in Msgs \cup {NoMsg}
  PROVE  LET u == RejectedDone(t, m)
         IN  u.state = COMPLETED /\ u.code = t.code /\ u.last = m /\ u.wire = t.wire
<1> DEFINE n == SetState(t, COMPLETED)
           l == [n EXCEPT !.last = m]
           u == ResetTimeout(l, TIMEOUT_TIMER, Linger(n))
<1>1. Good(n)
  BY AllowedStates, SetStateKept DEF Kept
<1>2. n.state = COMPLETED /\ n.code = t.code /\ n.wire = t.wire
  BY StatesTyped, SetStateEffect, SetStateTells DEF Good
<1>3. RejectedDone(t, m) = u
  BY DEF RejectedDone
<1> HIDE DEF n
<1>4. /\ l \in Transactions /\ l.state = n.state /\ l.code = n.code /\ l.last = m
      /\ l.wire = n.wire
  <2>1. Good(l)
    BY <1>1, LastKept DEF Kept
  <2> QED BY <1>1, <2>1 DEF Good, Transactions
<1> HIDE DEF l
<1>5. Still(l, u)
  BY <1>4, TimersStill
<1> HIDE DEF u
<1> QED BY <1>2, <1>3, <1>4, <1>5 DEF Still

(* tsx_send_msg() of the ACK comes first, and its failure prevents the     *)
(* change of state only if nothing was sent.                               *)
LEMMA RejectedClient ==
  ASSUME NEW t, Good(t), t.last \in {NoMsg, REQ}, NEW u \in Rejected(t)
  PROVE  /\ u.code \in {t.code, TIMEOUT, UNAVAILABLE}
         /\ u.last \in {NoMsg, REQ, ACK}
         /\ u.wire \subseteq t.wire \cup {REQ, ACK}
         /\ Acks(u) => ACK \in t.wire \/ u.state >= COMPLETED
<1> DEFINE b == CancelTimer(t, "rt")
           c == CancelTimer(b, "to")
           M == {REQ, ACK}
<1>1. Good(b) /\ Good(c) /\ Still(t, c)
  <2>1. Good(b) /\ Still(t, b)
    BY CancelKept, TimersStill DEF Kept, Entries, Good
  <2>2. Good(c) /\ Still(b, c)
    BY <2>1, CancelKept, TimersStill DEF Kept, Entries, Good
  <2> QED BY <2>1, <2>2, StillTrans
<1>2. ACK \in Msgs /\ ACK \in M /\ M \subseteq Msgs /\ c.last \in Msgs \cup {NoMsg}
      /\ c.last \in M \cup {NoMsg} /\ COMPLETED >= COMPLETED /\ TERMINATED >= COMPLETED
      /\ ACK \notin {NoMsg, REQ}
  BY <1>1 DEF Msgs, Still, REQ, ACK, NoMsg, COMPLETED, TERMINATED
<1>3. u = RejectedDone(c, c.last)
      \/ \E o \in SendMsg(c, ACK) : u = IF o.ok THEN RejectedDone(o.t, ACK) ELSE o.t
  BY DEF Rejected
<1> HIDE DEF b, c
<1>4. CASE u = RejectedDone(c, c.last)
  <2>1. u.code = c.code /\ u.last = c.last /\ u.wire = c.wire
    BY <1>1, <1>2, <1>4, RejectedDoneSays
  <2> QED BY <1>1, <1>2, <2>1 DEF Still, Acks
<1>5. ASSUME NEW o \in SendMsg(c, ACK), u = IF o.ok THEN RejectedDone(o.t, ACK) ELSE o.t
      PROVE  /\ u.code \in {t.code, TIMEOUT, UNAVAILABLE}
             /\ u.last \in {NoMsg, REQ, ACK}
             /\ u.wire \subseteq t.wire \cup {REQ, ACK}
             /\ Acks(u) => ACK \in t.wire \/ u.state >= COMPLETED
  <2>1. /\ Good(o.t) /\ Carries(c, o.t, M)
        /\ ~o.ok => o.t.state = TERMINATED \/ o.t.wire = c.wire
    BY <1>1, <1>2, SendMsgKept, SendMsgCarries DEF Kept
  <2>2. CASE o.ok
    <3>1. u.state = COMPLETED /\ u.code = o.t.code /\ u.last = ACK /\ u.wire = o.t.wire
      BY <1>2, <1>5, <2>1, <2>2, RejectedDoneSays
    <3> QED BY <1>1, <1>2, <2>1, <3>1 DEF Carries, Still
  <2>3. CASE ~o.ok
    <3>1. u = o.t
      BY <1>5, <2>3
    <3> QED BY <1>1, <1>2, <2>1, <2>3, <3>1 DEF Carries, Still, Acks
  <2> QED BY <2>2, <2>3
<1> QED BY <1>3, <1>4, <1>5

(* A client waiting for a response.                                        *)
LEMMA ProceedingClient ==
  ASSUME NEW t, Good(t), ClientLast(t), t.state < COMPLETED,
         NEW ev, ValidEvent("UAC", ev), NEW u \in OnStateProceedingUac(t, ev)
  PROVE  ClientStep(t, u, ev)
<1>0. /\ t.last \in {REQ} \cup {NoMsg} /\ ~(t.state >= COMPLETED)
      /\ {REQ} \subseteq {REQ, ACK} /\ ACK \notin {REQ} /\ {REQ} \subseteq Msgs
      /\ REQ \in {REQ}
  BY ClientRequest
<1>1. ASSUME Says(t, u, {REQ}) PROVE ClientStep(t, u, ev)
  BY <1>0, <1>1, SaysClient
<1>2. CASE ev.type = "TIMER" /\ ev.entry = "rt"
  <2>1. u \in Retransmit(t, TRUE)
    BY <1>2 DEF OnStateProceedingUac
  <2> QED BY <1>0, <1>1, <2>1, RetransmitCarries, CarriesSays
<1>3. CASE ev.type = "TIMER" /\ ev.entry = "to"
  <2>1. u = Terminate(t, TIMEOUT)
    BY <1>3 DEF OnStateProceedingUac
  <2> QED BY <1>1, <2>1, TerminateCarries, CarriesSays
<1>4. CASE ev.type = "RX"
  <2> DEFINE c == [t EXCEPT !.code = ev.msg]
             a == CancelTimer(c, "to")
             b == ScheduleTimer(a, "to", TIMEOUT_TIMER,
                                IF a.reliable THEN "zero" ELSE "T4")
             d == CancelTimer(b, "rt")
  <2>1. ev.msg \in Codes /\ ev.msg \in Responses
    BY <1>4 DEF ValidEvent, Codes
  <2>2. /\ Good(c) /\ c.code = ev.msg /\ c.last = t.last /\ c.wire = t.wire
        /\ c.state = t.state
    <3>1. Good(c)
      BY <2>1, CodeKept DEF Kept
    <3> QED BY <3>1 DEF Good, Transactions
  <2>3. Good(a) /\ Still(c, a)
    <3> HIDE DEF c
    <3> QED BY <2>2, CancelKept, TimersStill DEF Kept, Entries, Good
  <2>4. Good(b) /\ Still(a, b)
    <3> HIDE DEF a
    <3> QED BY <2>3, ScheduleKept, TimersStill DEF Kept, Entries, TIMEOUT_TIMER, Waits, Good
  <2>5. Good(d) /\ Still(b, d)
    <3> HIDE DEF b
    <3> QED BY <2>4, CancelKept, TimersStill DEF Kept, Entries, Good
  <2>6. \/ u = SetState(c, PROCEEDING)
        \/ u \in {SetState(a, TERMINATED), SetState(d, COMPLETED)}
        \/ Class(ev.msg) > 2 /\ u \in Rejected(c)
        \/ u = t
    BY <1>4 DEF OnStateProceedingUac
  <2> HIDE DEF a, b, c, d
  <2>7. Says(c, a, {REQ}) /\ Says(c, d, {REQ}) /\ Says(c, c, {REQ})
    <3>1. Still(c, d) /\ Still(c, c)
      BY <2>2, <2>3, <2>4, <2>5, TimersStill, StillTrans DEF Good
    <3> QED BY <2>3, <3>1, CarriesSays
  <2>8. ASSUME Says(c, u, {REQ}) PROVE ClientStep(t, u, ev)
    BY <1>0, <1>4, <2>2, <2>8 DEF Says, ClientStep, Acks, ACK, NoMsg
  <2>9. CASE u = SetState(c, PROCEEDING)
    BY <2>2, <2>8, <2>9, SetStateSays
  <2>10. CASE u \in {SetState(a, TERMINATED), SetState(d, COMPLETED)}
    <3>1. Says(a, SetState(a, TERMINATED), {REQ}) /\ Says(d, SetState(d, COMPLETED), {REQ})
      BY <2>3, <2>5, SetStateSays
    <3> QED BY <2>7, <2>8, <2>10, <3>1, SaysTrans
  <2>11. CASE Class(ev.msg) > 2 /\ u \in Rejected(c)
    <3>1. ev.msg = 300
      BY <2>1, <2>11 DEF Class, Responses
    <3>2. c.last \in {NoMsg, REQ}
      BY <1>0, <2>2
    <3>3. /\ u.code \in {c.code, TIMEOUT, UNAVAILABLE}
          /\ u.last \in {NoMsg, REQ, ACK}
          /\ u.wire \subseteq c.wire \cup {REQ, ACK}
          /\ Acks(u) => ACK \in c.wire \/ u.state >= COMPLETED
      BY <2>2, <2>11, <3>2, RejectedClient
    <3>4. ACK \in t.wire => Acks(t)
      BY DEF Acks
    <3> QED BY <1>0, <1>4, <2>2, <3>1, <3>3, <3>4 DEF ClientStep
  <2>12. CASE u = t
    BY <1>0, <2>12 DEF ClientStep
  <2> QED BY <2>6, <2>9, <2>10, <2>11, <2>12
<1>5. CASE ev.type = "TX"
  <2>1. u = t
    BY <1>5 DEF OnStateProceedingUac
  <2> QED BY <1>0, <2>1 DEF ClientStep
<1> QED BY <1>2, <1>3, <1>4, <1>5 DEF ValidEvent, Entries

(* A client that has none yet stops timer A and does the same.             *)
LEMMA CallingClient ==
  ASSUME NEW t, Good(t), ClientLast(t), t.state < COMPLETED,
         NEW ev, ValidEvent("UAC", ev), NEW u \in OnStateCalling(t, ev)
  PROVE  ClientStep(t, u, ev)
<1>0. /\ t.last \in {REQ} \cup {NoMsg} /\ ~(t.state >= COMPLETED)
      /\ {REQ} \subseteq {REQ, ACK} /\ ACK \notin {REQ} /\ {REQ} \subseteq Msgs
      /\ REQ \in {REQ}
  BY ClientRequest
<1>1. ASSUME Says(t, u, {REQ}) PROVE ClientStep(t, u, ev)
  BY <1>0, <1>1, SaysClient
<1> DEFINE c == CancelTimer(t, "rt")
<1>2. Good(c) /\ Still(t, c)
  BY CancelKept, TimersStill DEF Kept, Entries, Good
<1>3. CASE ev.type = "TIMER" /\ ev.entry = "rt"
  <2>1. u \in Retransmit(t, TRUE)
    BY <1>3 DEF OnStateCalling
  <2> QED BY <1>0, <1>1, <2>1, RetransmitCarries, CarriesSays
<1>4. CASE ev.type = "TIMER" /\ ev.entry = "to"
  <2>1. u = Terminate(Drop(c, {"resched"}), TIMEOUT)
    BY <1>4 DEF OnStateCalling
  <2> HIDE DEF c
  <2>2. Good(Drop(c, {"resched"})) /\ Still(c, Drop(c, {"resched"}))
    BY <1>2, DropKept, TimersStill DEF Kept, Good
  <2>3. Says(t, Drop(c, {"resched"}), {REQ})
    BY <1>2, <2>2, StillTrans, CarriesSays
  <2>4. Says(Drop(c, {"resched"}), u, {REQ})
    BY <2>1, <2>2, TerminateCarries, CarriesSays
  <2> QED BY <1>1, <2>3, <2>4, SaysTrans
<1>5. CASE ev.type = "RX"
  <2>1. PICK d : /\ d \in {c, CancelTimer(c, "to"), Retransmission(c)}
                 /\ u \in OnStateProceedingUac(Drop(d, {"resched"}), ev)
    BY <1>5 DEF OnStateCalling
  <2> HIDE DEF c
  <2>2. Good(d) /\ Still(c, d)
    BY <1>2, <2>1, CancelKept, RetransmissionKept, TimersStill DEF Kept, Entries, Good
  <2> DEFINE r == Drop(d, {"resched"})
  <2>3. Good(r) /\ Still(d, r)
    BY <2>2, DropKept, TimersStill DEF Kept, Good
  <2>4. Still(t, r)
    BY <1>2, <2>2, <2>3, StillTrans
  <2> HIDE DEF r
  <2>5. ClientLast(r) /\ r.state < COMPLETED
    BY <2>4 DEF ClientLast, Still
  <2>6. ClientStep(r, u, ev)
    BY <2>1, <2>3, <2>5, ProceedingClient DEF r
  <2> QED BY <2>4, <2>6 DEF ClientStep, Still, Acks
<1>6. CASE ev.type = "TX"
  <2>1. u = t
    BY <1>6 DEF OnStateCalling
  <2> QED BY <1>0, <2>1 DEF ClientStep
<1> QED BY <1>3, <1>4, <1>5, <1>6 DEF ValidEvent, Entries

(* All events of a client.                                                 *)
LEMMA HandlerClient ==
  ASSUME NEW t, Good(t), t.role = "UAC", ClientLast(t),
         NEW ev, ValidEvent("UAC", ev), NEW u \in StateHandler(t, ev)
  PROVE  ClientStep(t, u, ev)
<1>1. t.state \in NULL .. DESTROYED
  BY DEF Good, Transactions
<1>2. CASE t.state = NULL
  BY <1>2, Dispatch, NullClient
<1>3. CASE t.state = CALLING
  <2>1. t.state < COMPLETED
    BY <1>3 DEF CALLING, COMPLETED
  <2> QED BY <1>3, <2>1, Dispatch, CallingClient
<1>4. CASE t.state = PROCEEDING
  <2>1. t.state < COMPLETED
    BY <1>4 DEF PROCEEDING, COMPLETED
  <2> QED BY <1>4, <2>1, Dispatch, ProceedingClient
<1>5. CASE t.state \in {COMPLETED, CONFIRMED, TERMINATED, DESTROYED}
  <2> DEFINE M == {t.last} \ {NoMsg}
  <2>1. u \in Retransmit(t, FALSE) \/ u \in {t, SetState(t, TERMINATED), SetState(t, DESTROYED)}
    <3>1. CASE t.state = COMPLETED
      <4>1. u \in OnStateCompletedUac(t, ev)
        BY <3>1, Dispatch
      <4>2. CASE ev.type = "TIMER"
        BY <4>1, <4>2 DEF OnStateCompletedUac
      <4>3. CASE ev.type # "TIMER"
        BY <4>1, <4>3 DEF OnStateCompletedUac
      <4> QED BY <4>2, <4>3
    <3>2. CASE t.state = CONFIRMED
      <4>1. u \in OnStateConfirmed(t, ev)
        BY <3>2, Dispatch
      <4> QED BY <4>1 DEF OnStateConfirmed
    <3>3. CASE t.state = TERMINATED
      <4>1. u \in OnStateTerminated(t, ev)
        BY <3>3, Dispatch
      <4> QED BY <4>1 DEF OnStateTerminated
    <3>4. CASE t.state = DESTROYED
      <4>1. u \in {t}
        BY <3>4, Dispatch
      <4> QED BY <4>1
    <3> QED BY <1>5, <3>1, <3>2, <3>3, <3>4
  <2>2. /\ t.state >= COMPLETED /\ TERMINATED >= COMPLETED /\ DESTROYED >= COMPLETED
    BY <1>5 DEF COMPLETED, CONFIRMED, TERMINATED, DESTROYED
  <2>3. /\ M \subseteq {REQ, ACK} /\ M \subseteq Msgs /\ t.last \in M \cup {NoMsg}
        /\ ACK \in M => Acks(t)
    BY DEF ClientLast, Acks, Msgs
  <2> HIDE DEF M
  <2>4. Says(t, u, M) /\ u.state >= COMPLETED
    <3>1. CASE u \in Retransmit(t, FALSE)
      <4>1. Carries(t, u, M)
        BY <2>3, <3>1, RetransmitCarries
      <4>2. u.state = t.state \/ u.state >= TERMINATED
        BY <4>1 DEF Carries
      <4>3. u.state \in NULL .. DESTROYED
        <5>1. Good(u)
          BY <3>1, RetransmitKept DEF Kept
        <5> QED BY <5>1 DEF Good, Transactions
      <4>4. u.state >= COMPLETED
        BY <2>2, <4>2, <4>3 DEF NULL, DESTROYED, TERMINATED, COMPLETED
      <4> QED BY <4>1, <4>4, CarriesSays
    <3>2. CASE u = t
      BY <2>2, <3>2, TimersStill, CarriesSays DEF Good
    <3>3. CASE u \in {SetState(t, TERMINATED), SetState(t, DESTROYED)}
      BY <2>2, <3>3, SetStateSays
    <3> QED BY <2>1, <3>1, <3>2, <3>3
  <2> QED BY <2>3, <2>4, SaysClient
<1>6. t.state # TRYING
  BY DEF Good, Allowed
<1> QED BY <1>1, <1>2, <1>3, <1>4, <1>5, <1>6, StatesTyped

-----------------------------------------------------------------------------
(* The server.  The response its user gives, if it still takes one.        *)
Offered(t, ev) == IF ev.type = "TX" /\ t.state < COMPLETED THEN {ev.msg} ELSE {}

(* What the handling of an event does to a server: it keeps and sends what *)
(* it had saved or is offered, the user is told its state, the ACK alone   *)
(* confirms, and a final response it is offered brings it to COMPLETED at  *)
(* least.                                                                  *)
ServerStep(t, u, ev) ==
    /\ t.state >= COMPLETED => u.state >= COMPLETED
    /\ u.last \in {t.last, NoMsg} \cup Offered(t, ev)
    /\ u.wire \subseteq t.wire \cup ({t.last} \ {NoMsg}) \cup Offered(t, ev)
    /\ InStep(u)
    /\ u.state = CONFIRMED => t.state = CONFIRMED \/ (ev.type = "RX" /\ ev.msg = ACK)
    /\ ev.type = "TX" /\ t.state \in {TRYING, PROCEEDING} /\ ev.msg >= 200
         => u.state >= COMPLETED

(* Before its end a server has its user and no mark.                       *)
LEMMA ServerFree ==
  ASSUME NEW t, Good(t), Ended(t), InStep(t), t.state < TERMINATED
  PROVE  Free(t)
<1>1. "destroy" \notin t.flags
  BY Unmarked DEF Good
<1>2. ~(t.state >= TERMINATED)
  BY DEF Good, Transactions, TERMINATED, NULL, DESTROYED
<1> QED BY <1>1, <1>2 DEF Free, InStep

(* A step that sends what is saved at most.                                *)
LEMMA CarriesServer ==
  ASSUME NEW t, Good(t), NEW u, Good(u), NEW ev, InStep(t),
         Carries(t, u, {t.last} \ {NoMsg}),
         ~(ev.type = "TX" /\ t.state \in {TRYING, PROCEEDING})
  PROVE  ServerStep(t, u, ev)
<1>1. t.state \in NULL .. DESTROYED /\ u.state \in NULL .. DESTROYED
  BY DEF Good, Transactions
<1>2. u.state = t.state \/ u.state >= TERMINATED
  BY DEF Carries
<1>3. /\ t.state >= COMPLETED => u.state >= COMPLETED
      /\ u.state = CONFIRMED => t.state = CONFIRMED
  BY <1>1, <1>2 DEF NULL, COMPLETED, CONFIRMED, TERMINATED, DESTROYED
<1>4. u.last \in {t.last, NoMsg} /\ u.wire \subseteq t.wire \cup ({t.last} \ {NoMsg})
      /\ InStep(u)
  BY DEF Carries
<1> QED BY <1>3, <1>4 DEF ServerStep

(* A change of state of a server with its user.                            *)
LEMMA SetStateFree ==
  ASSUME NEW t, Good(t), Free(t),
         NEW s \in {NULL, CALLING, TRYING, PROCEEDING, COMPLETED, CONFIRMED, TERMINATED,
                    DESTROYED}
  PROVE  LET u == SetState(t, s)
         IN  /\ u.state = s /\ u.last \in {t.last, NoMsg} /\ u.wire = t.wire
             /\ InStep(u)
<1> DEFINE u == SetState(t, s)
<1>1. t \in Transactions /\ s \in NULL .. DESTROYED /\ t.user
  BY StatesTyped DEF Good, Free
<1>2. u.state = s
  BY <1>1, SetStateEffect
<1>3. u.last \in {t.last, NoMsg} /\ u.wire = t.wire /\ InStep(u)
  BY <1>1, SetStateTells
<1> QED BY <1>2, <1>3

(* Its end, with a user or after one.                                      *)
LEMMA EndServer ==
  ASSUME NEW t, Good(t), InStep(t), NEW ev, ~(ev.type = "TX" /\ t.state \in {TRYING, PROCEEDING}),
         NEW s \in {TERMINATED, DESTROYED}
  PROVE  ServerStep(t, SetState(t, s), ev)
<1> DEFINE u == SetState(t, s)
<1>1. t \in Transactions /\ s \in NULL .. DESTROYED /\ s >= TERMINATED /\ s >= COMPLETED
      /\ s # CONFIRMED
  BY DEF Good, NULL, TERMINATED, DESTROYED, COMPLETED, CONFIRMED
<1>2. u.state = s
  BY <1>1, SetStateEffect
<1>3. u.last \in {t.last, NoMsg} /\ u.wire = t.wire /\ InStep(u)
  BY <1>1, SetStateTells
<1> HIDE DEF u
<1>4. ServerStep(t, u, ev)
  BY <1>1, <1>2, <1>3 DEF ServerStep
<1> QED BY <1>4 DEF u

(* What follows the send of a response.                                    *)
RespondedStep(t, u, m) ==
    /\ u.state \in {PROCEEDING, COMPLETED, TERMINATED}
    /\ u.last \in {m, NoMsg} /\ u.wire = t.wire /\ InStep(u)

(* A provisional one.                                                      *)
LEMMA ProvisionalServer ==
  ASSUME NEW t, Good(t), Free(t), NEW m \in Msgs
  PROVE  RespondedStep(t, Provisional(t, m), m)
<1> DEFINE l == [t EXCEPT !.last = m]
           n == SetState(l, PROCEEDING)
           c == CancelTimer(n, "rt")
           u == Provisional(t, m)
<1>1. Good(l) /\ Free(l) /\ l.last = m /\ l.wire = t.wire
  <2>1. Good(l)
    BY LastKept DEF Kept
  <2> QED BY <2>1 DEF Good, Transactions, Free
<1> HIDE DEF l
<1>2. Good(n) /\ n.state = PROCEEDING /\ n.last \in {m, NoMsg} /\ n.wire = t.wire /\ InStep(n)
  <2>1. Good(n)
    BY <1>1, AllowedStates, SetStateKept DEF Kept
  <2> QED BY <1>1, <2>1, SetStateFree
<1> HIDE DEF n
<1>3. Good(c) /\ Still(n, c)
  BY <1>2, CancelKept, TimersStill DEF Kept, Entries, Good
<1>4. Still(c, StartRetransmission(c)) /\ Still(n, n)
  BY <1>2, <1>3, TimersStill DEF Good
<1>5. u \in {n, StartRetransmission(c)}
  BY DEF Provisional, n, l
<1> HIDE DEF c, u
<1>6. Still(n, u)
  BY <1>3, <1>4, <1>5, StillTrans
<1>7. RespondedStep(t, u, m)
  BY <1>2, <1>6 DEF RespondedStep, Still, InStep
<1> QED BY <1>7 DEF u

(* A 2xx.                                                                  *)
LEMMA AcceptedServer ==
  ASSUME NEW t, Good(t), Free(t), NEW m \in Msgs, t.last \in {m, NoMsg}
  PROVE  RespondedStep(t, Accepted(t, m), m) /\ Accepted(t, m).state # PROCEEDING
<1> DEFINE c == CancelTimer(t, "rt")
           r == IF c.invite THEN StartRetransmission(c) ELSE c
           l == [r EXCEPT !.last = m]
           w == ResetTimeout(l, TIMEOUT_TIMER, FinalWait(r))
           u == Accepted(t, m)
<1>1. Good(c) /\ Still(t, c)
  BY CancelKept, TimersStill DEF Kept, Entries, Good
<1>2. Good(r) /\ Still(c, r)
  <2> HIDE DEF c
  <2> QED BY <1>1, StartRetransmissionKept, TimersStill DEF Kept, Good
<1>3. /\ Good(l) /\ l.last = m /\ l.wire = r.wire /\ (Free(r) => Free(l))
  <2> HIDE DEF r
  <2>1. Good(l)
    BY <1>2, LastKept DEF Kept
  <2> QED BY <1>2, <2>1 DEF Good, Transactions, Free
<1>4. Good(w) /\ Still(l, w)
  <2>1. FinalWait(r) \in Waits /\ TIMEOUT_TIMER \in 0 .. 3
    BY FinalWaitType DEF TIMEOUT_TIMER
  <2>2. Good(w)
    BY <1>3, <2>1, ResetKept, Zenon DEF Kept
  <2>3. l \in Transactions
    BY <1>3 DEF Good
  <2> HIDE DEF l, r
  <2> QED BY <2>2, <2>3, TimersStill
<1>5. u \in {SetState(c, TERMINATED), SetState(w, COMPLETED)}
  BY DEF Accepted
<1> HIDE DEF c, r, l, w, u
<1>6. Free(c) /\ c.last \in {m, NoMsg} /\ c.wire = t.wire
  BY <1>1 DEF Still, Free
<1>7. Free(w) /\ w.last = m /\ w.wire = t.wire
  BY <1>2, <1>3, <1>4, <1>6 DEF Still, Free
<1>8. RespondedStep(t, u, m) /\ u.state \in {COMPLETED, TERMINATED}
  <2>1. CASE u = SetState(c, TERMINATED)
    BY <1>1, <1>6, <2>1, SetStateFree DEF RespondedStep
  <2>2. CASE u = SetState(w, COMPLETED)
    BY <1>4, <1>7, <2>2, SetStateFree DEF RespondedStep
  <2> QED BY <1>5, <2>1, <2>2
<1> QED BY <1>8 DEF u, PROCEEDING, COMPLETED, TERMINATED

(* A rejection.                                                            *)
LEMMA RefusedServer ==
  ASSUME NEW t, Good(t), Free(t), NEW m \in Msgs
  PROVE  RespondedStep(t, Refused(t, m), m) /\ Refused(t, m).state # PROCEEDING
<1> DEFINE c == CancelTimer(t, "rt")
           l == [c EXCEPT !.last = m]
           r == ResetTimeout(l, TIMEOUT_TIMER, FinalWait(c))
           q == IF r.invite /\ ~r.reliable THEN StartRetransmission(r) ELSE r
           u == Refused(t, m)
<1>1. Good(c) /\ Still(t, c)
  BY CancelKept, TimersStill DEF Kept, Entries, Good
<1>2. /\ Good(l) /\ l.last = m /\ l.wire = c.wire /\ (Free(c) => Free(l))
  <2> HIDE DEF c
  <2>1. Good(l)
    BY <1>1, LastKept DEF Kept
  <2> QED BY <1>1, <2>1 DEF Good, Transactions, Free
<1>3. Good(r) /\ Still(l, r)
  <2>1. FinalWait(c) \in Waits /\ TIMEOUT_TIMER \in 0 .. 3
    BY FinalWaitType DEF TIMEOUT_TIMER
  <2>2. Good(r)
    BY <1>2, <2>1, ResetKept, Zenon DEF Kept
  <2>3. l \in Transactions
    BY <1>2 DEF Good
  <2> HIDE DEF l, c
  <2> QED BY <2>2, <2>3, TimersStill
<1>4. Good(q) /\ Still(r, q)
  <2> HIDE DEF r
  <2> QED BY <1>3, StartRetransmissionKept, TimersStill DEF Kept, Good
<1>5. u = SetState(q, COMPLETED)
  BY DEF Refused
<1> HIDE DEF c, l, r, q, u
<1>6. Free(q) /\ q.last = m /\ q.wire = t.wire
  BY <1>1, <1>2, <1>3, <1>4 DEF Still, Free
<1>7. RespondedStep(t, u, m) /\ u.state = COMPLETED
  BY <1>4, <1>5, <1>6, SetStateFree DEF RespondedStep
<1> QED BY <1>7 DEF u, PROCEEDING, COMPLETED

(* The user gives a response: the one saved is replaced by it or dropped.  *)
LEMMA RespondServer ==
  ASSUME NEW t, Good(t), Free(t), InStep(t), t.role = "UAS", t.state < COMPLETED,
         NEW m \in Responses, NEW ev, ev.type = "TX", ev.msg = m, NEW u \in Respond(t, m)
  PROVE  ServerStep(t, u, ev)
<1>0. PICK l \in {NoMsg} \cup ({t.last} \cap {m}) :
         \E o \in SendMsg([t EXCEPT !.code = m, !.last = l], m) :
            u = IF o.ok THEN Responded(o.t, m) ELSE o.t
  BY DEF Respond
<1> DEFINE c == [t EXCEPT !.code = m]
           a == [c EXCEPT !.last = l]
<1>1. a = [t EXCEPT !.code = m, !.last = l]
  BY DEF Good, Transactions
<1>2. PICK o \in SendMsg(a, m) : u = IF o.ok THEN Responded(o.t, m) ELSE o.t
  BY <1>0, <1>1
<1>3. m \in Msgs /\ m \in Codes /\ l \in Msgs \cup {NoMsg} /\ l \in {m} \cup {NoMsg}
      /\ {m} \subseteq Msgs /\ m \in {m}
  BY DEF Msgs, Codes
<1>4. Good(a)
  BY <1>3, CodeKept, LastKept DEF Kept
<1>5. /\ a.state = t.state /\ a.flags = t.flags /\ a.code = m /\ a.last = l
      /\ a.wire = t.wire /\ a.user = t.user /\ a.told = t.told /\ a.role = "UAS"
  BY DEF Good, Transactions
<1> HIDE DEF c, a
<1>6. Free(a) /\ InStep(a)
  BY <1>5 DEF Free, InStep
<1>7. /\ Good(o.t) /\ Carries(a, o.t, {m}) /\ (~o.ok => o.t.state = TERMINATED)
  BY <1>3, <1>4, <1>5, SendMsgKept, SendMsgCarries DEF Kept
<1>8. /\ Free(o.t) /\ InStep(o.t) /\ o.t.code \in {m, TIMEOUT, UNAVAILABLE}
      /\ o.t.last \in {m, NoMsg} /\ o.t.wire \subseteq t.wire \cup {m}
      /\ (o.t.state = t.state \/ o.t.state >= TERMINATED)
  BY <1>3, <1>5, <1>6, <1>7 DEF Carries
<1>9. Offered(t, ev) = {m} /\ ~(t.state >= COMPLETED)
  BY DEF Offered, Good, Transactions, COMPLETED, NULL, DESTROYED
<1>10. CASE o.ok
  <2>1. u = Responded(o.t, m)
    BY <1>2, <1>10
  <2>2. RespondedStep(o.t, u, m) /\ (Class(o.t.code) # 1 => u.state # PROCEEDING)
    <3>1. CASE Class(o.t.code) = 1
      BY <1>3, <1>7, <1>8, <2>1, <3>1, ProvisionalServer DEF Responded
    <3>2. CASE Class(o.t.code) = 2
      BY <1>3, <1>7, <1>8, <2>1, <3>2, AcceptedServer DEF Responded
    <3>3. CASE Class(o.t.code) \notin {1, 2}
      BY <1>3, <1>7, <1>8, <2>1, <3>3, RefusedServer DEF Responded
    <3> QED BY <3>1, <3>2, <3>3
  <2>3. m >= 200 => Class(o.t.code) # 1
    BY <1>8 DEF Class, Responses, TIMEOUT, UNAVAILABLE
  <2>4. /\ u.state # CONFIRMED
        /\ m >= 200 => u.state >= COMPLETED
    BY <2>2, <2>3 DEF RespondedStep, PROCEEDING, COMPLETED, CONFIRMED, TERMINATED
  <2>5. /\ u.last \in {t.last, NoMsg} \cup {m}
        /\ u.wire \subseteq t.wire \cup ({t.last} \ {NoMsg}) \cup {m} /\ InStep(u)
    BY <1>8, <2>2 DEF RespondedStep
  <2> QED BY <1>9, <2>4, <2>5 DEF ServerStep
<1>11. CASE ~o.ok
  <2>1. u = o.t /\ u.state = TERMINATED
    BY <1>2, <1>7, <1>11
  <2>2. TERMINATED >= COMPLETED /\ TERMINATED # CONFIRMED
    BY DEF TERMINATED, COMPLETED, CONFIRMED
  <2>3. /\ u.last \in {t.last, NoMsg} \cup {m}
        /\ u.wire \subseteq t.wire \cup ({t.last} \ {NoMsg}) \cup {m} /\ InStep(u)
    BY <1>8, <2>1
  <2> QED BY <1>9, <2>1, <2>2, <2>3 DEF ServerStep
<1> QED BY <1>10, <1>11

(* A server that has no final response yet.                                *)
LEMMA ProceedingServer ==
  ASSUME NEW t, Good(t), Free(t), InStep(t), t.role = "UAS", t.state < COMPLETED,
         NEW ev, ValidEvent("UAS", ev), NEW u \in OnStateProceedingUas(t, ev)
  PROVE  ServerStep(t, u, ev)
<1> DEFINE M == {t.last} \ {NoMsg}
<1>0. M \subseteq Msgs /\ t.last \in M \cup {NoMsg} /\ Good(u)
  BY OnStateProceedingUasKept DEF Good, Transactions, Kept
<1>1. ASSUME Carries(t, u, M), ev.type # "TX" PROVE ServerStep(t, u, ev)
  BY <1>0, <1>1, CarriesServer
<1> HIDE DEF M
<1>2. CASE ev.type = "TIMER" /\ ev.entry = "rt"
  <2>1. u \in Retransmit(t, TRUE)
    BY <1>2 DEF OnStateProceedingUas
  <2> QED BY <1>0, <1>1, <1>2, <2>1, RetransmitCarries
<1>3. CASE ev.type = "TIMER" /\ ev.entry = "to"
  <2>1. u = Terminate(t, TIMEOUT)
    BY <1>3 DEF OnStateProceedingUas
  <2> QED BY <1>1, <1>3, <2>1, TerminateCarries
<1>4. CASE ev.type = "RX" /\ t.last = NoMsg
  <2>1. u = t
    BY <1>4 DEF OnStateProceedingUas
  <2> QED BY <1>1, <1>4, <2>1, TimersStill, StillCarries DEF Good
<1>5. CASE ev.type = "RX" /\ t.last # NoMsg
  <2>1. t.last \in M
    BY <1>0, <1>5
  <2>2. PICK o \in SendMsg(t, t.last) : u = o.t
    BY <1>5 DEF OnStateProceedingUas
  <2>3. Carries(t, u, M)
    BY <1>0, <2>1, <2>2, SendMsgCarries
  <2> QED BY <1>1, <1>5, <2>3
<1>6. CASE ev.type = "TX"
  <2>1. u \in Respond(t, ev.msg) /\ ev.msg \in Responses
    BY <1>6 DEF OnStateProceedingUas, ValidEvent
  <2> QED BY <1>6, <2>1, RespondServer
<1> QED BY <1>2, <1>3, <1>4, <1>5, <1>6 DEF ValidEvent, Entries

(* A server that has: it repeats the response, is confirmed by the ACK or  *)
(* ends.                                                                   *)
LEMMA CompletedServer ==
  ASSUME NEW t, Good(t), Free(t), InStep(t), t.role = "UAS", t.state = COMPLETED,
         NEW ev, NEW u \in OnStateCompletedUas(t, ev)
  PROVE  ServerStep(t, u, ev)
<1> DEFINE M == {t.last} \ {NoMsg}
<1>0. /\ M \subseteq Msgs /\ t.last \in M \cup {NoMsg} /\ Good(u)
      /\ t.state \notin {TRYING, PROCEEDING}
  BY OnStateCompletedUasKept DEF Good, Transactions, Kept, TRYING, PROCEEDING, COMPLETED
<1>1. ASSUME Carries(t, u, M) PROVE ServerStep(t, u, ev)
  BY <1>0, <1>1, CarriesServer
<1> HIDE DEF M
<1>2. ASSUME NEW b \in BOOLEAN, u \in Retransmit(t, b) PROVE ServerStep(t, u, ev)
  BY <1>0, <1>1, <1>2, RetransmitCarries
<1>3. ASSUME NEW w \in {"T4", "zero"}, ev.type = "RX", ev.msg = ACK,
             u = SetState(ResetTimeout(Drop(CancelTimer(t, "rt"), {"resched"}),
                                       TIMEOUT_TIMER, w), CONFIRMED)
      PROVE  ServerStep(t, u, ev)
  <2> DEFINE c == CancelTimer(t, "rt")
             d == Drop(c, {"resched"})
             r == ResetTimeout(d, TIMEOUT_TIMER, w)
  <2>1. Good(c) /\ Still(t, c)
    BY CancelKept, TimersStill DEF Kept, Entries, Good
  <2>2. Good(d) /\ Still(c, d)
    <3> HIDE DEF c
    <3> QED BY <2>1, DropKept, TimersStill DEF Kept, Good
  <2>3. Good(r) /\ Still(d, r)
    <3>1. d \in Transactions
      BY <2>2 DEF Good
    <3>2. Still(d, r)
      BY <3>1, TimersStill
    <3> QED BY <2>2, <3>2, ResetKept DEF Kept, TIMEOUT_TIMER, Waits
  <2> HIDE DEF c, d, r
  <2>4. Free(r) /\ r.last = t.last /\ r.wire = t.wire
    BY <2>1, <2>2, <2>3 DEF Still, Free
  <2>5. u = SetState(r, CONFIRMED)
    BY <1>3 DEF c, d, r
  <2>6. u.state = CONFIRMED /\ u.last \in {t.last, NoMsg} /\ u.wire = t.wire /\ InStep(u)
    BY <2>3, <2>4, <2>5, SetStateFree
  <2>7. CONFIRMED >= COMPLETED
    BY DEF CONFIRMED, COMPLETED
  <2> QED BY <1>3, <2>6, <2>7 DEF ServerStep
<1>4. \/ \E b \in BOOLEAN : u \in Retransmit(t, b)
      \/ \E w \in {"T4", "zero"} :
           /\ ev.type = "RX" /\ ev.msg = ACK
           /\ u = SetState(ResetTimeout(Drop(CancelTimer(t, "rt"), {"resched"}),
                                        TIMEOUT_TIMER, w), CONFIRMED)
      \/ u \in {t, Terminate(t, TIMEOUT), SetState(t, TERMINATED)}
  BY DEF OnStateCompletedUas
<1>5. CASE u = t
  BY <1>1, <1>5, TimersStill, StillCarries DEF Good
<1>6. CASE u = Terminate(t, TIMEOUT)
  BY <1>1, <1>6, TerminateCarries
<1>7. CASE u = SetState(t, TERMINATED)
  BY <1>0, <1>7, EndServer
<1> QED BY <1>2, <1>3, <1>4, <1>5, <1>6, <1>7

(* All events of a server.                                                 *)
LEMMA HandlerServer ==
  ASSUME NEW t, Good(t), Ended(t), InStep(t), t.role = "UAS",
         NEW ev, ValidEvent("UAS", ev), NEW u \in StateHandler(t, ev),
         t.state = NULL => ev.type # "TX"
  PROVE  ServerStep(t, u, ev)
<1>1. t.state \in NULL .. DESTROYED /\ t.role # "UAC" /\ Good(u)
  BY StateHandlerKept DEF Good, Transactions, Kept
<1>2. t.state < TERMINATED => Free(t)
  BY ServerFree
<1>3. ASSUME u = t, ~(ev.type = "TX" /\ t.state \in {TRYING, PROCEEDING})
      PROVE  ServerStep(t, u, ev)
  <2>1. Carries(t, u, {t.last} \ {NoMsg})
    BY <1>3, TimersStill, StillCarries DEF Good
  <2> QED BY <1>1, <1>3, <2>1, CarriesServer
<1>4. CASE t.state = NULL
  <2>0. Free(t)
    BY <1>2, <1>4 DEF NULL, TERMINATED
  <2>1. u = SetState(t, TRYING) /\ Free(t)
    <3>1. u \in OnStateNull(t, ev)
      BY <1>4, Dispatch
    <3> QED BY <2>0, <3>1 DEF OnStateNull
  <2>2. u.state = TRYING /\ u.last \in {t.last, NoMsg} /\ u.wire = t.wire /\ InStep(u)
    BY <2>1, SetStateFree
  <2> QED BY <1>4, <2>2 DEF ServerStep, NULL, TRYING, PROCEEDING, COMPLETED, CONFIRMED
<1>5. CASE t.state \in {TRYING, PROCEEDING}
  <2>1. t.state < COMPLETED /\ Free(t)
    BY <1>2, <1>5 DEF TRYING, PROCEEDING, COMPLETED, TERMINATED
  <2>2. u \in OnStateProceedingUas(t, ev) \/ (u = t /\ ev.type # "TX")
    <3>1. CASE t.state = TRYING
      BY <3>1, Dispatch DEF OnStateTrying
    <3>2. CASE t.state = PROCEEDING
      BY <1>1, <3>2, Dispatch
    <3> QED BY <1>5, <3>1, <3>2
  <2> QED BY <1>3, <2>1, <2>2, ProceedingServer
<1>6. CASE t.state = COMPLETED
  <2>1. Free(t)
    BY <1>2, <1>6 DEF COMPLETED, TERMINATED
  <2>2. u \in OnStateCompletedUas(t, ev)
    BY <1>1, <1>6, Dispatch
  <2> QED BY <1>6, <2>1, <2>2, CompletedServer
<1>7. CASE t.state \in {CONFIRMED, TERMINATED, DESTROYED}
  <2>1. t.state \notin {TRYING, PROCEEDING}
    BY <1>7 DEF TRYING, PROCEEDING, CONFIRMED, TERMINATED, DESTROYED
  <2>2. u \in {t, SetState(t, TERMINATED), SetState(t, DESTROYED)}
    BY <1>7, Dispatch DEF OnStateConfirmed, OnStateTerminated
  <2> QED BY <1>3, <2>1, <2>2, EndServer
<1>8. t.state # CALLING
  BY <1>1 DEF Good, Allowed
<1> QED BY <1>1, <1>4, <1>5, <1>6, <1>7, <1>8, StatesTyped

-----------------------------------------------------------------------------
(* The two together.  Both are well typed and hold their references; the   *)
(* server has a status when it ends, and its user knows its state.         *)
Ends == /\ Good(uac) /\ uac.role = "UAC"
        /\ Good(uas) /\ uas.role = "UAS" /\ Ended(uas) /\ InStep(uas)

(* One final response is taken, and none before COMPLETED.                 *)
Taken == /\ given \in {{}, {200}, {300}}
         /\ uas.state < COMPLETED => given = {}

(* Only that one is saved or on its way.                                   *)
Answered == /\ uas.last \in Responses \cup {NoMsg} /\ toUac \subseteq Responses
            /\ \A m \in {200, 300} : m = uas.last \/ m \in toUac => m \in given

(* Only that one is the client's status.                                   *)
Heard == \A m \in {200, 300} : uac.code = m => given = {m}

(* The client sends its request, and the ACK to a rejection it has.        *)
Asked == /\ uac.last \in {NoMsg, REQ, ACK} /\ toUas \subseteq {REQ, ACK}
         /\ uac.last = ACK \/ ACK \in toUas => uac.state >= COMPLETED /\ given = {300}

(* Only the ACK confirms.                                                  *)
Confirmed == uas.state = CONFIRMED => ACK \in toUas

PairInv == Ends /\ Taken /\ Answered /\ Heard /\ Asked /\ Confirmed

(* A transaction before a step: what it has to say, with nothing said yet. *)
Ready(t, q) == /\ Good(q) /\ q.role = t.role /\ q.state = t.state /\ q.code = t.code
               /\ q.last = t.last /\ q.wire = {} /\ q.user = t.user /\ q.told = t.told
               /\ q.flags = t.flags

(* As the steps take it.                                                   *)
LEMMA ClearReady == ASSUME NEW t, Good(t) PROVE Ready(t, Clear(t)) /\ Kept(t, Clear(t))
<1> DEFINE u == Clear(t)
<1>1. t \in Transactions
  BY DEF Good
<1>2. u \in Transactions
  BY <1>1 DEF Transactions, Clear
<1>3. /\ u.refs = t.refs /\ u.heap = t.heap /\ u.out = t.out /\ u.live = t.live
      /\ u.reg = t.reg /\ u.role = t.role /\ u.state = t.state
  BY <1>1 DEF Transactions, Clear
<1>4. Kept(t, u)
  BY <1>2, <1>3, SameRefs DEF Good
<1>5. /\ u.code = t.code /\ u.last = t.last /\ u.wire = {} /\ u.user = t.user
      /\ u.told = t.told /\ u.flags = t.flags
  BY <1>1 DEF Transactions, Clear
<1> QED BY <1>3, <1>4, <1>5 DEF Ready, Kept

(* Two transactions that differ in their references, timers and flags.     *)
Alike(x, u) == /\ u.state = x.state /\ u.code = x.code /\ u.last = x.last
               /\ u.wire = x.wire /\ u.user = x.user /\ u.told = x.told
               /\ "destroy" \in u.flags => "destroy" \in x.flags

(* A timer that fires: its handler runs on a transaction that still holds  *)
(* the entry's reference, which is given back then.                        *)
LEMMA ExpireReady ==
  ASSUME NEW t, Good(t), NEW e \in Entries, e \in t.heap, NEW u \in Expire(t, e)
  PROVE  \E q, x : /\ Ready(t, q) /\ x \in StateHandler(q, Timer(e))
                   /\ Kept(q, x) /\ Alike(x, u) /\ Good(u) /\ u.role = t.role
<1> DEFINE c == Clear(t)
           q == [c EXCEPT !.heap = @ \ {e}, !.id[e] = TIMER_INACTIVE]
<1>1. Ready(t, c) /\ Good(c) /\ c.heap = t.heap
  <2>1. Ready(t, c) /\ Good(c)
    BY ClearReady DEF Kept
  <2> QED BY <2>1 DEF Clear, Good, Transactions
<1> HIDE DEF c
<1>2. /\ q \in Transactions /\ q.heap = c.heap \ {e} /\ q.refs = c.refs /\ q.out = c.out
      /\ q.live = c.live /\ q.reg = c.reg /\ q.state = c.state /\ q.role = c.role
      /\ q.code = c.code /\ q.last = c.last /\ q.wire = c.wire /\ q.user = c.user
      /\ q.told = c.told /\ q.flags = c.flags
  <2>1. [c.id EXCEPT ![e] = 0] \in [Entries -> 0 .. 3]
    BY <1>1 DEF Good, Transactions
  <2> QED BY <1>1, <2>1 DEF Good, Transactions, TIMER_INACTIVE
<1>3. PICK x \in StateHandler(q, Timer(e)) : u = [x EXCEPT !.refs = @ - 1]
  BY DEF Expire, c
<1> HIDE DEF q
<1>4. /\ Own(q) = Own(c) - 1 /\ Own(q) \in Nat /\ Own(c) \in Nat
      /\ q.refs \in Nat /\ Own(c) <= c.refs
  BY <1>1, <1>2, OwnType DEF Own, One, Entries, Good, Transactions
<1>5. Good(q) /\ Ready(t, q)
  BY <1>1, <1>2, <1>4 DEF Good, Ready
<1>6. ValidEvent(q.role, Timer(e))
  BY DEF ValidEvent, Timer
<1>7. Kept(q, x)
  BY <1>3, <1>5, <1>6, StateHandlerKept
<1>8. x \in Transactions /\ Own(x) \in Nat /\ x.refs \in Nat /\ x.refs - Own(x) >= 1
      /\ x.role = t.role
  <2>1. x \in Transactions /\ x.role = t.role /\ x.refs - Own(x) = q.refs - Own(q)
    BY <1>5, <1>7 DEF Kept, Good, Ready
  <2>2. Own(x) \in Nat /\ x.refs \in Nat
    BY <2>1, OwnType DEF Transactions
  <2> QED BY <1>2, <1>4, <2>1, <2>2
<1>9. /\ u \in Transactions /\ u.refs = x.refs - 1 /\ Own(u) = Own(x) /\ u.role = x.role
      /\ u.live = x.live /\ u.reg = x.reg /\ Alike(x, u)
  <2>1. x.refs - 1 \in Nat
    BY <1>8
  <2>2. u \in Transactions /\ u.refs = x.refs - 1
    BY <1>3, <1>8, <2>1 DEF Transactions
  <2>3. /\ u.heap = x.heap /\ u.out = x.out /\ u.live = x.live /\ u.reg = x.reg
        /\ u.role = x.role /\ Alike(x, u)
    BY <1>3, <1>8 DEF Transactions, Alike
  <2> QED BY <2>2, <2>3 DEF Own
<1>10. Good(u) /\ u.role = t.role
  BY <1>7, <1>8, <1>9 DEF Good, Kept, Alike
<1> QED BY <1>3, <1>5, <1>7, <1>9, <1>10

(* The transport answers a send and gives its reference back.              *)
LEMMA CompletedReady ==
  ASSUME NEW t, Good(t), t.out > 0
  PROVE  LET u == Completed(t)
         IN  Good(u) /\ u.role = t.role /\ Still(Clear(t), u)
<1> DEFINE d == Drop(Clear(t), {"transport"})
           u == Completed(t)
<1>1. Good(Clear(t)) /\ Good(d) /\ Still(Clear(t), d) /\ d.role = t.role /\ d.out = t.out
  <2>1. Good(Clear(t)) /\ Clear(t).role = t.role /\ Clear(t).out = t.out
    BY ClearReady DEF Kept, Good, Transactions, Clear
  <2>2. Good(d) /\ Still(Clear(t), d) /\ d.role = Clear(t).role
    BY <2>1, DropKept, TimersStill DEF Kept, Good
  <2>3. d.out = Clear(t).out
    BY <2>1 DEF Drop, Good, Transactions
  <2> QED BY <2>1, <2>2, <2>3
<1>2. u = [d EXCEPT !.out = @ - 1, !.refs = @ - 1]
  BY DEF Completed
<1> HIDE DEF d, u
<1>3. d \in Transactions /\ d.out \in Nat /\ d.out > 0 /\ d.refs \in Nat /\ d.refs > 0
  <2>1. d \in Transactions /\ Own(d) <= d.refs /\ d.out > 0
    BY <1>1 DEF Good
  <2> QED BY <2>1 DEF Transactions, Own, One
<1>4. /\ u \in Transactions /\ u.out = d.out - 1 /\ u.refs = d.refs - 1 /\ u.heap = d.heap
      /\ u.live = d.live /\ u.reg = d.reg /\ u.role = d.role /\ u.state = d.state
      /\ Still(d, u)
  <2>1. d.out - 1 \in Nat /\ d.refs - 1 \in Nat
    BY <1>3
  <2> QED BY <1>2, <1>3, <2>1 DEF Transactions, Still
<1>5. Own(u) = Own(d) - 1 /\ Own(d) \in Nat
  BY <1>3, <1>4, OwnType DEF Own, One, Transactions
<1>6. Good(u)
  BY <1>1, <1>3, <1>4, <1>5 DEF Good
<1> QED BY <1>1, <1>4, <1>6, StillTrans DEF u

(* A transaction that answers, and one that goes on being alike.           *)
LEMMA AlikeSteps ==
  ASSUME NEW q, NEW x, NEW u, NEW ev, Alike(x, u)
  PROVE  /\ ClientStep(q, x, ev) => ClientStep(q, u, ev)
         /\ ServerStep(q, x, ev) => ServerStep(q, u, ev)
         /\ Ended(x) => Ended(u)
<1>1. ClientStep(q, x, ev) => ClientStep(q, u, ev)
  BY DEF Alike, ClientStep, Acks
<1>2. ServerStep(q, x, ev) => ServerStep(q, u, ev)
  BY DEF Alike, ServerStep, InStep
<1>3. Ended(x) => Ended(u)
  BY DEF Alike, Ended
<1> QED BY <1>1, <1>2, <1>3

(* A step of the client keeps the invariant: a response that moves it is   *)
(* on its way, and so is the one the server took.                          *)
LEMMA ClientMoves ==
  ASSUME PairInv, NEW t, Good(t), t.role = "UAC", NEW q, Ready(uac, q),
         NEW ev, ev.type = "RX" => ev.msg \in toUac,
         ClientStep(q, t, ev), Client(t), given' = given
  PROVE  PairInv'
<1>1. /\ uac' = t /\ toUas' = toUas \cup t.wire /\ uas' = uas /\ toUac' = toUac
      /\ given' = given
  BY DEF Client
<1>2. Ends' /\ Taken' /\ Answered'
  <2>1. Ends'
    BY <1>1 DEF PairInv, Ends
  <2>2. Taken' /\ Answered'
    BY <1>1 DEF PairInv, Taken, Answered
  <2> QED BY <2>1, <2>2
<1>3. Heard'
  <2> SUFFICES ASSUME NEW m \in {200, 300}, t.code = m PROVE given = {m}
    BY <1>1 DEF Heard
  <2>1. t.code = uac.code \/ (ev.type = "RX" /\ t.code = ev.msg)
    BY DEF ClientStep, Ready, TIMEOUT, UNAVAILABLE
  <2>2. CASE t.code = uac.code
    BY <2>2 DEF PairInv, Heard
  <2>3. CASE ev.type = "RX" /\ t.code = ev.msg
    <3>1. m \in given
      BY <2>3 DEF PairInv, Answered
    <3> QED BY <3>1 DEF PairInv, Taken
  <2> QED BY <2>1, <2>2, <2>3
<1>4. Asked'
  <2>1. t.last \in {NoMsg, REQ, ACK} /\ toUas \cup t.wire \subseteq {REQ, ACK}
    BY DEF ClientStep, Ready, PairInv, Asked
  <2>2. ASSUME t.last = ACK \/ ACK \in toUas \cup t.wire
        PROVE  t.state >= COMPLETED /\ given = {300}
    <3>1. CASE uac.last = ACK \/ ACK \in toUas
      BY <3>1 DEF PairInv, Asked, ClientStep, Ready
    <3>2. CASE ~(uac.last = ACK \/ ACK \in toUas)
      <4>1. Acks(t) /\ ~Acks(q)
        BY <2>2, <3>2 DEF Acks, Ready
      <4>2. t.state >= COMPLETED /\ ev.type = "RX" /\ ev.msg = 300
        BY <4>1 DEF ClientStep
      <4>3. 300 \in given
        BY <4>2 DEF PairInv, Answered
      <4> QED BY <4>2, <4>3 DEF PairInv, Taken
    <3> QED BY <3>1, <3>2
  <2> QED BY <1>1, <2>1, <2>2 DEF Asked
<1>5. Confirmed'
  BY <1>1 DEF PairInv, Confirmed
<1> QED BY <1>2, <1>3, <1>4, <1>5 DEF PairInv

(* A step of the server keeps it: what it comes to keep or to send is what *)
(* it had, or the one response it takes now.                               *)
LEMMA ServerMoves ==
  ASSUME PairInv, NEW t, Good(t), t.role = "UAS", Ended(t), NEW q, Ready(uas, q),
         NEW ev, ServerStep(q, t, ev), Server(t),
         ev.type = "RX" => ev.msg \in toUas,
         ev.type = "TX" => ev.msg \in Responses /\ uas.told \in {TRYING, PROCEEDING, COMPLETED},
         given' = IF ev.type = "TX" /\ ev.msg >= 200 /\ uas.told # COMPLETED
                  THEN given \cup {ev.msg} ELSE given
  PROVE  PairInv'
<1>1. /\ uas' = t /\ toUac' = toUac \cup t.wire /\ uac' = uac /\ toUas' = toUas
  BY DEF Server
<1>2. uas.state \in NULL .. DESTROYED /\ t.state \in NULL .. DESTROYED /\ q.state = uas.state
  BY DEF PairInv, Ends, Good, Transactions, Ready
<1>3. ev.type = "TX" => uas.state = uas.told
  BY DEF PairInv, Ends, InStep, TRYING, PROCEEDING, COMPLETED, TERMINATED
<1>4. Ends'
  BY <1>1 DEF PairInv, Ends, ServerStep
<1>5. Confirmed'
  BY <1>1, <1>2 DEF PairInv, Confirmed, ServerStep
<1>6. CASE ev.type = "TX" /\ uas.told # COMPLETED
  <2>1. /\ uas.state \in {TRYING, PROCEEDING} /\ uas.state < COMPLETED /\ given = {}
        /\ ev.msg \in Responses /\ Offered(q, ev) = {ev.msg}
    BY <1>2, <1>3, <1>6 DEF PairInv, Taken, Offered, TRYING, PROCEEDING, COMPLETED
  <2>2. given' = IF ev.msg >= 200 THEN {ev.msg} ELSE {}
    BY <1>6, <2>1
  <2>3. Taken'
    <3>1. given' \in {{}, {200}, {300}}
      BY <2>1, <2>2 DEF Responses
    <3>2. ev.msg >= 200 => ~(t.state < COMPLETED)
      BY <1>2, <1>6, <2>1 DEF ServerStep, COMPLETED, NULL, DESTROYED
    <3> QED BY <1>1, <2>2, <3>1, <3>2 DEF Taken
  <2>4. Answered'
    <3>1. /\ t.last \in {uas.last, NoMsg} \cup {ev.msg}
          /\ t.wire \subseteq ({uas.last} \ {NoMsg}) \cup {ev.msg}
      BY <2>1 DEF ServerStep, Ready
    <3>2. t.last \in Responses \cup {NoMsg} /\ toUac \cup t.wire \subseteq Responses
      BY <2>1, <3>1 DEF PairInv, Answered
    <3>3. ASSUME NEW m \in {200, 300}, m = t.last \/ m \in toUac \cup t.wire
          PROVE  m \in given'
      <4>1. m # uas.last /\ m \notin toUac
        BY <2>1 DEF PairInv, Answered
      <4>2. m = ev.msg
        BY <3>1, <3>3, <4>1 DEF NoMsg
      <4> QED BY <2>2, <4>2
    <3> QED BY <1>1, <3>2, <3>3 DEF Answered
  <2>5. Heard' /\ Asked'
    <3>1. \A m \in {200, 300} : uac.code # m
      BY <2>1 DEF PairInv, Heard
    <3>2. ~(uac.last = ACK \/ ACK \in toUas)
      BY <2>1 DEF PairInv, Asked
    <3>3. Heard'
      BY <1>1, <3>1 DEF Heard
    <3>4. Asked'
      BY <1>1, <3>2 DEF PairInv, Asked
    <3> QED BY <3>3, <3>4
  <2> QED BY <1>4, <1>5, <2>3, <2>4, <2>5 DEF PairInv
<1>7. CASE ~(ev.type = "TX" /\ uas.told # COMPLETED)
  <2>1. given' = given
    BY <1>7
  <2>2. Offered(q, ev) = {}
    BY <1>2, <1>3, <1>7 DEF Offered, COMPLETED
  <2>3. Taken'
    <3>1. t.state < COMPLETED => uas.state < COMPLETED
      BY <1>2 DEF ServerStep, NULL, DESTROYED, COMPLETED
    <3> QED BY <1>1, <2>1, <3>1 DEF PairInv, Taken
  <2>4. Answered'
    <3>1. t.last \in {uas.last, NoMsg} /\ t.wire \subseteq {uas.last} \ {NoMsg}
      BY <2>2 DEF ServerStep, Ready
    <3>2. t.last \in Responses \cup {NoMsg} /\ toUac \cup t.wire \subseteq Responses
      BY <3>1 DEF PairInv, Answered
    <3>3. ASSUME NEW m \in {200, 300}, m = t.last \/ m \in toUac \cup t.wire
          PROVE  m \in given
      BY <3>1, <3>3 DEF PairInv, Answered, NoMsg
    <3> QED BY <1>1, <2>1, <3>2, <3>3 DEF Answered
  <2>5. Heard' /\ Asked'
    BY <1>1, <2>1 DEF PairInv, Heard, Asked
  <2> QED BY <1>4, <1>5, <2>3, <2>4, <2>5 DEF PairInv
<1> QED BY <1>6, <1>7

(* Sends that are answered.                                                *)
LEMMA SentClient ==
  ASSUME PairInv, NEW t, Client(t), given' = given,
         (uac.out > 0 /\ t = Completed(uac)) \/ t \in SentOk(Clear(uac))
  PROVE  PairInv'
<1> DEFINE q == Clear(uac)
           M == {uac.last} \ {NoMsg}
           ev == Timer("to")
<1>1. Good(uac) /\ uac.role = "UAC"
  BY DEF PairInv, Ends
<1>2. Ready(uac, q) /\ Good(q) /\ q.role = "UAC"
  BY <1>1, ClearReady DEF Ready
<1> HIDE DEF q
<1>3. ClientLast(q) /\ q.last \in M \cup {NoMsg} /\ M \subseteq {REQ, ACK} /\ (ACK \in M => Acks(q))
  BY <1>2 DEF PairInv, Asked, ClientLast, Ready, Acks
<1>4. Good(t) /\ t.role = "UAC" /\ Carries(q, t, M)
  <2>1. CASE uac.out > 0 /\ t = Completed(uac)
    <3>1. Good(t) /\ t.role = "UAC" /\ Still(q, t)
      BY <1>1, <2>1, CompletedReady DEF q
    <3> QED BY <3>1, StillCarries
  <2>2. CASE t \in SentOk(q)
    BY <1>2, <1>3, <2>2, SentOkKept, SentOkCarries DEF Kept
  <2> QED BY <2>1, <2>2 DEF q
<1>5. q.state >= COMPLETED => t.state >= COMPLETED
  <2>1. q.state \in NULL .. DESTROYED /\ t.state \in NULL .. DESTROYED
    BY <1>2, <1>4 DEF Good, Transactions
  <2> QED BY <1>4, <2>1 DEF Carries, NULL, DESTROYED, COMPLETED, TERMINATED
<1>6. ClientStep(q, t, ev)
  BY <1>3, <1>4, <1>5, CarriesSays, SaysClient
<1>7. ev.type # "RX"
  BY DEF Timer
<1> QED BY <1>2, <1>4, <1>6, <1>7, ClientMoves

(* And those of the server.                                                *)
LEMMA SentServer ==
  ASSUME PairInv, NEW t, Server(t), given' = given,
         (uas.out > 0 /\ t = Completed(uas)) \/ t \in SentOk(Clear(uas))
  PROVE  PairInv'
<1> DEFINE q == Clear(uas)
           M == {uas.last} \ {NoMsg}
           ev == Timer("to")
<1>1. Good(uas) /\ uas.role = "UAS" /\ Ended(uas) /\ InStep(uas)
  BY DEF PairInv, Ends
<1>2. Ready(uas, q) /\ Good(q) /\ q.role = "UAS"
  BY <1>1, ClearReady DEF Ready
<1> HIDE DEF q
<1>3. Ended(q) /\ InStep(q) /\ M = {q.last} \ {NoMsg} /\ q.last \in M \cup {NoMsg}
  BY <1>1, <1>2 DEF Ready, Ended, InStep
<1>4. Good(t) /\ t.role = "UAS" /\ Carries(q, t, M) /\ Ended(t)
  <2>1. CASE uas.out > 0 /\ t = Completed(uas)
    <3>1. Good(t) /\ t.role = "UAS" /\ Still(q, t)
      BY <1>1, <2>1, CompletedReady DEF q
    <3>2. Ended(t)
      BY <1>3, <3>1 DEF Still, Ended
    <3> QED BY <3>1, <3>2, StillCarries
  <2>2. CASE t \in SentOk(q)
    BY <1>2, <1>3, <2>2, SentOkKept, SentOkCarries, SentOkSafe DEF Kept, Safe
  <2> QED BY <2>1, <2>2 DEF q
<1>5. ev.type # "RX" /\ ev.type # "TX"
  BY DEF Timer
<1>6. ServerStep(q, t, ev)
  BY <1>2, <1>3, <1>4, <1>5, CarriesServer
<1> QED BY <1>2, <1>4, <1>5, <1>6, ServerMoves

-----------------------------------------------------------------------------
(* A new transaction.                                                      *)
LEMMA NewGood ==
  ASSUME NEW r \in {"UAC", "UAS"}, NEW i \in BOOLEAN, NEW p \in BOOLEAN
  PROVE  LET t == NewTsx(r, i, FALSE, TRUE, p)
         IN  Good(t) /\ t.role = r
<1> DEFINE t == NewTsx(r, i, FALSE, TRUE, p)
<1>1. [e \in Entries |-> TIMER_INACTIVE] \in [Entries -> 0 .. 3]
  BY DEF TIMER_INACTIVE
<1>2. t \in Transactions
  BY <1>1 DEF NewTsx, Transactions, Codes, Msgs, NULL, DESTROYED, Waits, Flags, Entries
<1>3. Own(t) = 1 /\ t.refs = 1 /\ t.live /\ t.state = NULL /\ t.role = r
  BY DEF NewTsx, Own, One
<1>4. NULL \in Allowed(r)
  BY AllowedStates
<1> HIDE DEF t
<1>5. Good(t) /\ t.role = r
  BY <1>2, <1>3, <1>4 DEF Good
<1> QED BY <1>5 DEF t

(* Nothing has been said yet.                                              *)
LEMMA PairInit == Init => PairInv
<1> SUFFICES ASSUME Init PROVE PairInv
  OBVIOUS
<1>1. PICK i \in Invites : /\ uac = NewTsx("UAC", i, FALSE, TRUE, FALSE)
                           /\ uas = NewTsx("UAS", i, FALSE, TRUE, TRUE)
  BY DEF Init
<1>2. toUas = {} /\ toUac = {} /\ given = {}
  BY DEF Init
<1>3. i \in BOOLEAN
  BY PairAssumption
<1>4. Good(uac) /\ uac.role = "UAC" /\ Good(uas) /\ uas.role = "UAS"
  BY <1>1, <1>3, NewGood
<1>5. /\ uac.code = 0 /\ uac.last = REQ
      /\ uas.state = NULL /\ uas.told = NULL /\ uas.user = TRUE /\ uas.last = NoMsg
      /\ uas.flags = {}
  BY <1>1 DEF NewTsx
<1>6. Ends
  BY <1>4, <1>5 DEF Ends, Ended, InStep, NULL, COMPLETED
<1>7. Taken /\ Confirmed
  BY <1>2, <1>5 DEF Taken, Confirmed, NULL, CONFIRMED
<1>8. Answered
  BY <1>2, <1>5 DEF Answered, NoMsg
<1>9. Heard /\ Asked
  BY <1>2, <1>5 DEF Heard, Asked, REQ, ACK
<1> QED BY <1>6, <1>7, <1>8, <1>9 DEF PairInv

(* An event of the client.                                                 *)
LEMMA EventClient ==
  ASSUME PairInv, NEW q, Ready(uac, q), NEW ev, ValidEvent("UAC", ev),
         NEW x \in StateHandler(q, ev)
  PROVE  Good(x) /\ x.role = "UAC" /\ ClientStep(q, x, ev)
<1>1. Good(q) /\ q.role = "UAC" /\ ClientLast(q)
  BY DEF PairInv, Ends, Asked, Ready, ClientLast
<1> QED BY <1>1, HandlerClient, StateHandlerKept DEF Kept

(* An event of the server.                                                 *)
LEMMA EventServer ==
  ASSUME PairInv, NEW q, Ready(uas, q), NEW ev, ValidEvent("UAS", ev),
         uas.state = NULL => ev.type # "TX", NEW x \in StateHandler(q, ev)
  PROVE  Good(x) /\ x.role = "UAS" /\ Ended(x) /\ ServerStep(q, x, ev)
<1>1. Good(q) /\ q.role = "UAS" /\ Ended(q) /\ InStep(q) /\ q.state = uas.state
  BY DEF PairInv, Ends, Ready, Ended, InStep
<1>2. Good(x) /\ x.role = "UAS" /\ Ended(x)
  BY <1>1, StateHandlerKept, StateHandlerEnded DEF Kept
<1> QED BY <1>1, <1>2, HandlerServer

(* Every step keeps the invariant.                                         *)
LEMMA PairStep == PairInv /\ [Next]_vars => PairInv'
<1> SUFFICES ASSUME PairInv, [Next]_vars PROVE PairInv'
  OBVIOUS
<1>0. /\ Good(uac) /\ uac.role = "UAC" /\ Good(uas) /\ uas.role = "UAS"
      /\ Ready(uac, Clear(uac)) /\ Ready(uas, Clear(uas))
  BY ClearReady DEF PairInv, Ends
<1>1. CASE SendRequest
  <2> DEFINE ev == Tx(REQ)
  <2>1. PICK t \in StateHandler(Clear(uac), ev) : Client(t)
    BY <1>1 DEF SendRequest
  <2>2. ValidEvent("UAC", ev) /\ ev.type # "RX" /\ given' = given
    BY <1>1 DEF SendRequest, ValidEvent, Tx
  <2> HIDE DEF ev
  <2> QED BY <1>0, <2>1, <2>2, EventClient, ClientMoves
<1>2. ASSUME NEW m \in Msgs, ReceiveResponse(m)
      PROVE  PairInv'
  <2> DEFINE ev == Rx(m)
  <2>1. PICK t \in StateHandler(Clear(uac), ev) : Client(t)
    BY <1>2 DEF ReceiveResponse
  <2>2. ValidEvent("UAC", ev) /\ ev.msg \in toUac /\ given' = given
    BY <1>2 DEF ReceiveResponse, ValidEvent, Rx, PairInv, Answered
  <2> HIDE DEF ev
  <2> QED BY <1>0, <2>1, <2>2, EventClient, ClientMoves
<1>3. ASSUME NEW m \in Msgs, ReceiveRequest(m)
      PROVE  PairInv'
  <2> DEFINE ev == Rx(m)
  <2>1. PICK t \in StateHandler(Clear(uas), ev) : Server(t)
    BY <1>3 DEF ReceiveRequest
  <2>2. ValidEvent("UAS", ev) /\ ev.msg \in toUas /\ ev.type # "TX" /\ given' = given
    BY <1>3 DEF ReceiveRequest, ValidEvent, Rx, PairInv, Asked
  <2> HIDE DEF ev
  <2> QED BY <1>0, <2>1, <2>2, EventServer, ServerMoves
<1>4. ASSUME NEW m \in Msgs, Answer(m)
      PROVE  PairInv'
  <2> DEFINE ev == Tx(m)
  <2>1. PICK t \in StateHandler(Clear(uas), ev) :
          /\ Server(t)
          /\ given' = IF m >= 200 /\ uas.told # COMPLETED THEN given \cup {m} ELSE given
    BY <1>4 DEF Answer
  <2>2. m \in Responses /\ uas.told \in {TRYING, PROCEEDING, COMPLETED}
    BY <1>4, PairAssumption DEF Answer
  <2>3. ev.type = "TX" /\ ev.msg = m /\ ValidEvent("UAS", ev)
    BY <2>2 DEF ValidEvent, Tx
  <2>4. uas.state # NULL
    BY <2>2 DEF PairInv, Ends, InStep, NULL, TRYING, PROCEEDING, COMPLETED, TERMINATED
  <2>5. given' = IF ev.type = "TX" /\ ev.msg >= 200 /\ uas.told # COMPLETED
                 THEN given \cup {ev.msg} ELSE given
    BY <2>1, <2>3
  <2> HIDE DEF ev
  <2>6. Good(t) /\ t.role = "UAS" /\ Ended(t) /\ ServerStep(Clear(uas), t, ev)
    BY <1>0, <2>1, <2>3, <2>4, EventServer
  <2>7. ev.type # "RX" /\ ev.msg \in Responses
    BY <2>2, <2>3
  <2> QED BY <1>0, <2>1, <2>2, <2>5, <2>6, <2>7, ServerMoves
<1>5. ASSUME NEW e \in Entries, ClientTimer(e)
      PROVE  PairInv'
  <2> DEFINE ev == Timer(e)
  <2>1. PICK t \in Expire(uac, e) : Client(t)
    BY <1>5 DEF ClientTimer
  <2>2. e \in uac.heap /\ given' = given /\ ValidEvent("UAC", ev) /\ ev.type # "RX"
    BY <1>5 DEF ClientTimer, ValidEvent, Timer
  <2>3. PICK q, x : /\ Ready(uac, q) /\ x \in StateHandler(q, ev)
                    /\ Kept(q, x) /\ Alike(x, t) /\ Good(t) /\ t.role = uac.role
    BY <1>0, <2>1, <2>2, ExpireReady
  <2> HIDE DEF ev
  <2>4. ClientStep(q, t, ev)
    BY <2>2, <2>3, EventClient, AlikeSteps
  <2> QED BY <1>0, <2>1, <2>2, <2>3, <2>4, ClientMoves
<1>6. ASSUME NEW e \in Entries, ServerTimer(e)
      PROVE  PairInv'
  <2> DEFINE ev == Timer(e)
  <2>1. PICK t \in Expire(uas, e) : Server(t)
    BY <1>6 DEF ServerTimer
  <2>2. /\ e \in uas.heap /\ given' = given /\ ValidEvent("UAS", ev)
        /\ ev.type # "RX" /\ ev.type # "TX"
    BY <1>6 DEF ServerTimer, ValidEvent, Timer
  <2>3. PICK q, x : /\ Ready(uas, q) /\ x \in StateHandler(q, ev)
                    /\ Kept(q, x) /\ Alike(x, t) /\ Good(t) /\ t.role = uas.role
    BY <1>0, <2>1, <2>2, ExpireReady
  <2> HIDE DEF ev
  <2>4. ServerStep(q, t, ev) /\ Ended(t)
    BY <2>2, <2>3, EventServer, AlikeSteps
  <2> QED BY <1>0, <2>1, <2>2, <2>3, <2>4, ServerMoves
<1>7. CASE ClientSent
  <2>1. PICK t : Client(t) /\ ((uac.out > 0 /\ t = Completed(uac)) \/ t \in SentOk(Clear(uac)))
    BY <1>7 DEF ClientSent
  <2> QED BY <1>7, <2>1, SentClient DEF ClientSent
<1>8. CASE ServerSent
  <2>1. PICK t : Server(t) /\ ((uas.out > 0 /\ t = Completed(uas)) \/ t \in SentOk(Clear(uas)))
    BY <1>8 DEF ServerSent
  <2> QED BY <1>8, <2>1, SentServer DEF ServerSent
<1>9. CASE UNCHANGED vars
  BY <1>9 DEF vars, PairInv, Ends, Taken, Answered, Heard, Asked, Confirmed
<1> QED BY <1>1, <1>2, <1>3, <1>4, <1>5, <1>6, <1>7, <1>8, <1>9 DEF Next

(* The server has taken one final response from its user at most, and the  *)
(* client's status, if it is a final response, is that one: whatever is    *)
(* lost, repeated, reordered or fails.                                     *)
THEOREM PairAgreement == Spec => []Agreement
<1>1. PairInv => Agreement
  <2> SUFFICES ASSUME PairInv PROVE Agreement
    OBVIOUS
  <2>1. Cardinality(given) <= 1
    <3>1. given = {} \/ \E m \in {200, 300} : given = {m}
      BY DEF PairInv, Taken
    <3>2. Cardinality({}) = 0
      BY FS_EmptySet
    <3>3. \A m \in {200, 300} : Cardinality({m}) = 1
      BY FS_Singleton
    <3> QED BY <3>1, <3>2, <3>3
  <2> QED BY <2>1 DEF Agreement, PairInv, Heard
<1> QED BY <1>1, PairInit, PairStep, PTL DEF Spec

(* A server is confirmed only when the client has recorded the rejection.  *)
THEOREM PairConfirmed == Spec => []ConfirmedRejected
<1>1. PairInv => ConfirmedRejected
  BY DEF PairInv, Confirmed, Asked, ConfirmedRejected
<1> QED BY <1>1, PairInit, PairStep, PTL DEF Spec
=============================================================================
