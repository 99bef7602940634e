------------------------- MODULE InviteSessionProofs -------------------------
(***************************************************************************)
(* Proofs about the invite sessions of the two ends of a call, for any     *)
(* number of INVITEs, any codes and any faults.                            *)
(*                                                                         *)
(* Three parts hold together.  Calls: where each INVITE is, at the end     *)
(* that sent it, at the one that serves it and on the way between them.    *)
(* Callers: how far the caller has come when the callee moves.  Offers:    *)
(* which offers an end may have open.  A fourth, Accord, rests on them:    *)
(* what the two negotiators have to do with each other, and with the       *)
(* descriptions in the messages under way, while an INVITE is served.      *)
(***************************************************************************)
EXTENDS InviteSession, FiniteSetTheorems, TLAPS

-----------------------------------------------------------------------------
(* Types.                                                                  *)

Requests == {"INVITE", "ACK", "NACK", "CANCEL", "BYE"}
Provisionals == {"100", "18x"}
Finals == {"200"} \cup Rejections

Message == [to: Ends, t: Requests \cup Provisionals \cup Finals \cup {"OK"},
            i: 0..MaxInvites, sdp: Nat]

Neg == [st: NegStates, loc: Nat, rem: Nat, act: Nat \X Nat]

Session == [role: Ends, state: NULL..DISCONNECTED, itsx: 0..MaxInvites,
            tsx: [Ids -> TsxStates], mine: SUBSET Ids, neg: Neg,
            done: SUBSET (0..MaxInvites), ack: [i: Nat, sdp: Nat],
            cancelling: BOOLEAN, pending_cancel: BOOLEAN, pending_bye: BOOLEAN,
            cause: Nat, bye: BOOLEAN, lapsed: BOOLEAN, out: SUBSET Message]

TypeOK == /\ inv \in [Ends -> Session]
          /\ \A e \in Ends : inv[e].role = e /\ inv[e].out = {}
          /\ net \subseteq Message

-----------------------------------------------------------------------------
(* Calls: the INVITE transactions of the two ends and the messages.        *)

Open == {"calling", "proceeding"}

(* The INVITEs are numbered in the order they were sent.                   *)
Numbered == /\ \E k \in 0..MaxInvites : Used = 1..k
            /\ inv["uac"].mine \cap inv["uas"].mine = {}

(* What one session says of its transactions: it has none before it was    *)
(* used; those of its own INVITEs are a client's; the one that is pending  *)
(* is invite_tsx.                                                          *)
Owns(v) == \A i \in Ids :
    /\ i \in v.mine => v.tsx[i] \in Open \cup {"over"}
    /\ i \notin v.mine => v.tsx[i] # "calling"
    /\ v.tsx[i] \in Open \cup {"accepted"} => v.itsx = i
    /\ i = v.itsx => v.tsx[i] # "none"

Fresh(v) == v.state = NULL => /\ v.itsx = 0 /\ v.mine = {}
                              /\ \A i \in Ids : v.tsx[i] = "none"

(* A callee calls back only once it is confirmed; until it has answered,   *)
(* its pending transaction can be.                                         *)
Callee(v) == /\ v.state # CALLING
             /\ v.state < CONFIRMED => v.mine = {}
             /\ v.state \in {INCOMING, EARLY} /\ v.itsx # 0
                => v.tsx[v.itsx] = "proceeding"

(* The rule that NoGlare states, of one session.                           *)
Glareless(v) == (\E i \in Ids : v.tsx[i] = "accepted")
                => \A i \in v.mine : v.tsx[i] = "over"

(* A message on its way from p, the session of its sender, to c.           *)
Carried(m, c, p) ==
    /\ m.t = "INVITE" => /\ m.i \in p.mine /\ p.tsx[m.i] \in Open
                         /\ c.tsx[m.i] = "none"
    /\ m.t \in Provisionals \cup Finals => m.i \in c.mine
    /\ m.t \in Provisionals => c.tsx[m.i] \in Open
    /\ m.t \in Finals => p.tsx[m.i] \notin {"none", "proceeding"}
    /\ m.t = "CANCEL" => m.to = "uas"
    /\ m.t \notin {"BYE", "OK"} => m.i \in Ids

(* An INVITE that is served without a final response is open at its end.   *)
Served(c, p) == \A i \in c.mine : p.tsx[i] = "proceeding" => c.tsx[i] \in Open

Calls == /\ Numbered
         /\ \A e \in Ends : /\ Owns(inv[e]) /\ Fresh(inv[e]) /\ Glareless(inv[e])
                            /\ Served(inv[e], inv[Peer(e)])
                            /\ \A i \in Ids : inv[e].tsx[i] # "none" => i \in Used
         /\ Callee(inv["uas"])
         /\ \A m \in net : Carried(m, inv[m.to], inv[Peer(m.to)])
         /\ \A m, n \in net : m.t = "INVITE" /\ n.t = "INVITE" /\ m.i = n.i => m = n

-----------------------------------------------------------------------------
(* Callers: what the caller has seen when the callee goes on.  A callee's  *)
(* BYE does not wait once the cause of the session is one that passes.     *)
(* Unless its user gave it, the missing ACK has.                           *)

Callers ==
    LET v == inv["uac"]
        u == inv["uas"]
    IN  /\ v.state # INCOMING
        /\ u.state = CONFIRMED \/ u.mine # {} => v.state >= CONNECTING
        /\ \A i \in Ids : v.tsx[i] \in {"accepted", "rejected", "over"}
                          => v.state >= CONNECTING
        /\ \A m \in net : m.t = "ACK" /\ m.to = "uas" => v.state >= CONNECTING
        /\ Codes \cap Passing = {} => (u.cause \in Passing => u.lapsed)

-----------------------------------------------------------------------------
(* Offers: an offer of one end is to an established session only while an  *)
(* INVITE of it is pending that was not rejected.                          *)

Closable(v) ==
    /\ v.neg.st = "NULL" \/ v.state = NULL => v.neg.act = <<0, 0>>
    /\ v.state < CONFIRMED /\ v.neg.st = "LOCAL_OFFER" => v.neg.act = <<0, 0>>
    /\ /\ v.state = CONFIRMED /\ ~v.lapsed
       /\ v.neg.st = "LOCAL_OFFER" /\ v.neg.act # <<0, 0>>
       => v.itsx # 0 /\ v.tsx[v.itsx] # "rejected"

Offers == \A e \in Ends : Closable(inv[e])

IInv == TypeOK /\ Calls /\ Callers /\ Offers /\ CallerKnows

-----------------------------------------------------------------------------
(* The operators that the handlers are built from.                         *)

(* What no helper changes: the role, the transactions, what has lapsed.    *)
Core(v, w) == /\ w \in Session /\ w.role = v.role /\ w.itsx = v.itsx
              /\ w.tsx = v.tsx /\ w.mine = v.mine /\ w.lapsed = v.lapsed

(* The negotiation is as it was, or no offer of this end is open.          *)
Settles(v, w) == w.neg = v.neg \/ w.neg.st \notin {"NULL", "LOCAL_OFFER"}

(* What an end may have sent besides.                                      *)
Out(e, T) == {m \in Message : /\ m.to = Peer(e) /\ m.t \in T
                              /\ m.t \notin {"BYE", "OK"} => m.i \in Ids}
Says(v, w, T) == w.out \subseteq v.out \cup Out(v.role, T)

MessageTypes == Requests \cup Provisionals \cup Finals \cup {"OK"}

(* A state is a number; the numbers are those of the code.                 *)
LEMMA StateOrder == /\ NULL = 0 /\ CALLING = 1 /\ INCOMING = 2 /\ EARLY = 3
                    /\ CONNECTING = 4 /\ CONFIRMED = 5 /\ DISCONNECTED = 6
BY DEF NULL, CALLING, INCOMING, EARLY, CONNECTING, CONFIRMED, DISCONNECTED

(* A message that is sent changes nothing of the session but what it has   *)
(* sent.                                                                   *)
LEMMA SendLemma ==
    ASSUME NEW v \in Session, NEW t \in MessageTypes, NEW i \in 0..MaxInvites, NEW sdp \in Nat,
           t \notin {"BYE", "OK"} => i \in Ids
    PROVE  LET w == Send(v, t, i, sdp)
           IN  /\ Core(v, w) /\ w.state = v.state /\ w.neg = v.neg /\ w.cause = v.cause
               /\ w.out = v.out \cup {[to |-> Peer(v.role), t |-> t, i |-> i, sdp |-> sdp]}
               /\ Says(v, w, {t})
<1>1. Peer(v.role) \in Ends
  BY DEF Peer, Ends, Session
<1>2. [to |-> Peer(v.role), t |-> t, i |-> i, sdp |-> sdp] \in Out(v.role, {t})
  BY <1>1 DEF Out, Message, MessageTypes
<1>3. Out(v.role, {t}) \subseteq Message
  BY DEF Out
<1> QED BY <1>2, <1>3 DEF Send, Core, Says, Session

(* inv_set_cause() changes the cause, if at all, to the one given.         *)
LEMMA SetCauseLemma ==
    ASSUME NEW v \in Session, NEW c \in Nat
    PROVE  LET w == SetCause(v, c)
           IN  /\ Core(v, w) /\ w.state = v.state /\ w.neg = v.neg /\ w.out = v.out
               /\ w.cause \in {v.cause, c}
BY DEF SetCause, Core, Session

(* A BYE may be kept back; a callee that has answered keeps it until the   *)
(* ACK, unless the ACK did not come.                                       *)
LEMMA SendByeLemma ==
    ASSUME NEW v \in Session
    PROVE  LET w == SendBye(v)
           IN  /\ Core(v, w) /\ w.state = v.state /\ w.neg = v.neg /\ w.cause = v.cause
               /\ Says(v, w, {"BYE"})
               /\ v.role = "uas" /\ v.state = CONNECTING /\ v.cause \notin Passing => w.out = v.out
<1>1. CASE v.role = "uas" /\ v.state = CONNECTING /\ v.cause \notin Passing
  <2>1. PICK b \in BOOLEAN : b = TRUE
    OBVIOUS
  <2>2. SendBye(v) = [v EXCEPT !.pending_bye = b]
    BY <1>1, <2>1 DEF SendBye
  <2> QED BY <2>2 DEF Core, Session, Says
<1>2. CASE ~(v.role = "uas" /\ v.state = CONNECTING /\ v.cause \notin Passing)
  <2> DEFINE u == [v EXCEPT !.bye = TRUE]
  <2>1. /\ Core(v, u) /\ u.state = v.state /\ u.neg = v.neg /\ u.cause = v.cause
        /\ u.out = v.out
    <3>1. PICK b \in BOOLEAN : b = TRUE
      OBVIOUS
    <3>2. u = [v EXCEPT !.bye = b]
      BY <3>1
    <3> HIDE DEF u
    <3> QED BY <3>2 DEF Core, Session
  <2>2. SendBye(v) = Send(u, "BYE", 0, 0)
    BY <1>2 DEF SendBye
  <2>3. "BYE" \in MessageTypes /\ 0 \in 0..MaxInvites /\ 0 \in Nat /\ u \in Session
    BY <2>1, InviteAssumption DEF MessageTypes, Requests, Core
  <2> HIDE DEF u
  <2>4. LET w == Send(u, "BYE", 0, 0)
        IN  /\ Core(u, w) /\ w.state = u.state /\ w.neg = u.neg /\ w.cause = u.cause
            /\ Says(u, w, {"BYE"})
    BY <2>3, SendLemma
  <2> QED BY <1>2, <2>1, <2>2, <2>4 DEF Core, Says
<1> QED BY <1>1, <1>2

(* The end of a session does no more than that, and sets a cause.          *)
LEMMA EndSessionLemma ==
    ASSUME NEW v \in Session, NEW c \in Nat
    PROVE  LET w == EndSession(v, c)
           IN  /\ Core(v, w) /\ w.state = v.state /\ w.neg = v.neg
               /\ w.cause \in {v.cause, c} /\ Says(v, w, {"BYE"})
               /\ v.role = "uas" /\ v.state = CONNECTING /\ {v.cause, c} \cap Passing = {}
                  => w.out = v.out
<1> DEFINE u == SetCause(v, c)
           x == [u EXCEPT !.cancelling = TRUE]
<1>1. /\ Core(v, u) /\ u.state = v.state /\ u.neg = v.neg /\ u.out = v.out
      /\ u.cause \in {v.cause, c}
  BY SetCauseLemma
<1> HIDE DEF u
<1>2. /\ Core(u, x) /\ x.state = u.state /\ x.neg = u.neg /\ x.cause = u.cause
      /\ x.out = u.out
  <2>1. PICK b \in BOOLEAN : b = TRUE
    OBVIOUS
  <2>2. x = [u EXCEPT !.cancelling = b] /\ u \in Session
    BY <2>1, <1>1 DEF Core
  <2> HIDE DEF x
  <2> QED BY <2>2 DEF Core, Session
<1>3. EndSession(v, c) = SendBye(x)
  BY DEF EndSession, u
<1> HIDE DEF x
<1>4. LET w == SendBye(x)
      IN  /\ Core(x, w) /\ w.state = x.state /\ w.neg = x.neg /\ w.cause = x.cause
          /\ Says(x, w, {"BYE"})
          /\ x.role = "uas" /\ x.state = CONNECTING /\ x.cause \notin Passing => w.out = x.out
  BY <1>2, SendByeLemma DEF Core
<1> QED BY <1>1, <1>2, <1>3, <1>4 DEF Core, Says

(* A session that is disconnected keeps its transactions and its           *)
(* negotiation, and forgets the cause.                                     *)
LEMMA DisconnectLemma ==
    ASSUME NEW v \in Session
    PROVE  LET w == Disconnect(v)
           IN  /\ Core(v, w) /\ w.state = DISCONNECTED /\ w.neg = v.neg /\ w.cause = 0
               /\ w.out = v.out
<1>1. PICK b \in BOOLEAN : b = FALSE
  OBVIOUS
<1>2. PICK z \in Nat, d \in NULL..DISCONNECTED : z = 0 /\ d = DISCONNECTED
  BY StateOrder
<1>3. Disconnect(v) = [v EXCEPT !.state = d, !.pending_bye = b, !.cause = z]
  BY <1>1, <1>2 DEF Disconnect
<1> QED BY <1>2, <1>3 DEF Core, Session

(* A session that is confirmed, or ended as it has negotiated nothing,     *)
(* keeps its negotiation.                                                  *)
LEMMA ConfirmLemma ==
    ASSUME NEW v \in Session
    PROVE  LET w == Confirm(v)
           IN  /\ Core(v, w) /\ w.state \in {v.state, CONFIRMED} /\ w.neg = v.neg
               /\ w.cause \in {v.cause, 406} /\ Says(v, w, {"BYE"})
<1>1. CASE v.neg.st # "DONE" /\ v.itsx # 0 /\ v.itsx \notin v.done
  BY <1>1, EndSessionLemma DEF Confirm
<1>2. CASE ~(v.neg.st # "DONE" /\ v.itsx # 0 /\ v.itsx \notin v.done)
  <2>1. PICK d \in NULL..DISCONNECTED : d = CONFIRMED
    BY StateOrder
  <2>2. Confirm(v) = [v EXCEPT !.state = d]
    BY <1>2, <2>1 DEF Confirm
  <2> QED BY <2>1, <2>2 DEF Core, Session, Says
<1> QED BY <1>1, <1>2

(* A transaction of v goes to s, and invite_tsx to j.                      *)
Goes(v, w, i, s, j) ==
    /\ w \in Session /\ w.role = v.role /\ w.mine = v.mine
    /\ w.itsx = j /\ w.tsx = [v.tsx EXCEPT ![i] = s]

(* A transaction that is over: it is invite_tsx no longer, and no other    *)
(* changes.                                                                *)
LEMMA OverLemma ==
    ASSUME NEW v \in Session, NEW i \in Ids
    PROVE  LET w == Over(v, i)
           IN  /\ Goes(v, w, i, "over", IF v.itsx = i THEN 0 ELSE v.itsx)
               /\ w.state = v.state /\ w.neg = v.neg /\ w.cause = v.cause
               /\ w.lapsed = v.lapsed
               /\ w.out = v.out
<1>1. PICK j \in 0..MaxInvites : j = IF v.itsx = i THEN 0 ELSE v.itsx
  BY InviteAssumption DEF Session
<1>2. PICK t \in [Ids -> TsxStates] : t = [v.tsx EXCEPT ![i] = "over"]
  BY DEF Session, TsxStates
<1>3. Over(v, i) = [v EXCEPT !.tsx = t, !.itsx = j]
  BY <1>1, <1>2 DEF Over, Session
<1> QED BY <1>1, <1>2, <1>3 DEF Goes, Session

(* An INVITE that is rejected stays invite_tsx if it was, and its          *)
(* rejection is all that is sent.                                          *)
LEMMA RejectLemma ==
    ASSUME NEW v \in Session, NEW i \in Ids, NEW t \in Rejections
    PROVE  LET w == Reject(v, i, t)
           IN  /\ Goes(v, w, i, "rejected", v.itsx)
               /\ w.state = v.state /\ w.neg = v.neg /\ w.cause = v.cause
               /\ w.lapsed = v.lapsed
               /\ w.out = v.out \cup {[to |-> Peer(v.role), t |-> t, i |-> i, sdp |-> 0]}
               /\ Says(v, w, {t})
<1> DEFINE u == [v EXCEPT !.tsx[i] = "rejected"]
<1>1. PICK r \in [Ids -> TsxStates] : r = [v.tsx EXCEPT ![i] = "rejected"]
  BY DEF Session, TsxStates
<1>2. u = [v EXCEPT !.tsx = r]
  BY <1>1 DEF Session
<1> HIDE DEF u
<1>3. /\ Goes(v, u, i, "rejected", v.itsx)
      /\ u.state = v.state /\ u.neg = v.neg /\ u.cause = v.cause /\ u.out = v.out
      /\ u.lapsed = v.lapsed
  BY <1>1, <1>2 DEF Goes, Session
<1>4. Reject(v, i, t) = Send(u, t, i, 0)
  BY DEF Reject, u
<1>5. t \in MessageTypes /\ i \in 0..MaxInvites /\ 0 \in Nat /\ u \in Session
  BY <1>3, InviteAssumption DEF MessageTypes, Finals, Goes, Ids
<1>6. LET w == Send(u, t, i, 0)
      IN  /\ Core(u, w) /\ w.state = u.state /\ w.neg = u.neg /\ w.cause = u.cause
          /\ w.out = u.out \cup {[to |-> Peer(u.role), t |-> t, i |-> i, sdp |-> 0]}
          /\ Says(u, w, {t})
  BY <1>5, SendLemma
<1> QED BY <1>3, <1>4, <1>6 DEF Core, Goes, Says

(* An INVITE that is accepted, and its 200.                                *)
LEMMA AcceptLemma ==
    ASSUME NEW v \in Session, NEW i \in Ids, NEW sdp \in Nat
    PROVE  LET w == Accept(v, i, sdp)
           IN  /\ Goes(v, w, i, "accepted", v.itsx)
               /\ w.state = v.state /\ w.neg = v.neg /\ w.cause = v.cause
               /\ w.lapsed = v.lapsed
               /\ w.out = v.out \cup {[to |-> Peer(v.role), t |-> "200", i |-> i, sdp |-> sdp]}
               /\ Says(v, w, {"200"})
<1> DEFINE u == [v EXCEPT !.tsx[i] = "accepted"]
<1>1. PICK r \in [Ids -> TsxStates] : r = [v.tsx EXCEPT ![i] = "accepted"]
  BY DEF Session, TsxStates
<1>2. u = [v EXCEPT !.tsx = r]
  BY <1>1 DEF Session
<1> HIDE DEF u
<1>3. /\ Goes(v, u, i, "accepted", v.itsx)
      /\ u.state = v.state /\ u.neg = v.neg /\ u.cause = v.cause /\ u.out = v.out
      /\ u.lapsed = v.lapsed
  BY <1>1, <1>2 DEF Goes, Session
<1>4. Accept(v, i, sdp) = Send(u, "200", i, sdp)
  BY DEF Accept, u
<1>5. "200" \in MessageTypes /\ i \in 0..MaxInvites /\ u \in Session
  BY <1>3, InviteAssumption DEF MessageTypes, Finals, Goes, Ids
<1>6. LET w == Send(u, "200", i, sdp)
      IN  /\ Core(u, w) /\ w.state = u.state /\ w.neg = u.neg /\ w.cause = u.cause
          /\ w.out = u.out \cup {[to |-> Peer(u.role), t |-> "200", i |-> i, sdp |-> sdp]}
          /\ Says(u, w, {"200"})
  BY <1>5, SendLemma
<1> QED BY <1>3, <1>4, <1>6 DEF Core, Goes, Says

(* What the negotiator's operations return.                                *)
LEMMA NegLemma ==
    ASSUME NEW n \in Neg, NEW o \in Nat
    PROVE  /\ LocalOffer(n, o) \in Neg /\ LocalOffer(n, o).act = n.act
           /\ n.st \in {"NULL", "DONE"} => LocalOffer(n, o).st = "LOCAL_OFFER"
           /\ n.st \notin {"NULL", "DONE"} => LocalOffer(n, o) = n
           /\ RemoteOffer(n, o) \in Neg /\ RemoteOffer(n, o).st = "REMOTE_OFFER"
           /\ LocalAnswer(n) \in Neg /\ LocalAnswer(n).st = "WAIT_NEGO"
           /\ RemoteAnswer(n, o) \in Neg /\ RemoteAnswer(n, o).st = "WAIT_NEGO"
           /\ Negotiate(n) \in Neg /\ Negotiate(n).st = "DONE"
           /\ CancelOffer(n) \in Neg /\ CancelOffer(n).act = n.act
           /\ n.st \in {"LOCAL_OFFER", "REMOTE_OFFER"} => CancelOffer(n).st = "DONE"
           /\ n.st \notin {"LOCAL_OFFER", "REMOTE_OFFER"} => CancelOffer(n) = n
<1>1. /\ LocalOffer(n, o) \in Neg /\ LocalOffer(n, o).act = n.act
      /\ n.st \in {"NULL", "DONE"} => LocalOffer(n, o).st = "LOCAL_OFFER"
      /\ n.st \notin {"NULL", "DONE"} => LocalOffer(n, o) = n
  BY DEF LocalOffer, Neg, NegStates
<1>2. RemoteOffer(n, o) \in Neg /\ RemoteOffer(n, o).st = "REMOTE_OFFER"
  BY DEF RemoteOffer, Neg, NegStates
<1>3. LocalAnswer(n) \in Neg /\ LocalAnswer(n).st = "WAIT_NEGO"
  BY DEF LocalAnswer, Neg, NegStates
<1>4. RemoteAnswer(n, o) \in Neg /\ RemoteAnswer(n, o).st = "WAIT_NEGO"
  BY DEF RemoteAnswer, Neg, NegStates
<1>5. Negotiate(n) \in Neg /\ Negotiate(n).st = "DONE"
  <2>1. PICK a \in Nat \X Nat : a = <<n.loc, n.rem>>
    BY DEF Neg
  <2>2. PICK z \in Nat : z = 0
    OBVIOUS
  <2>3. Negotiate(n) = [n EXCEPT !.st = "DONE", !.act = a, !.loc = z, !.rem = z]
    BY <2>1, <2>2 DEF Negotiate
  <2> QED BY <2>3 DEF Neg, NegStates
<1>6. /\ CancelOffer(n) \in Neg /\ CancelOffer(n).act = n.act
      /\ n.st \in {"LOCAL_OFFER", "REMOTE_OFFER"} => CancelOffer(n).st = "DONE"
      /\ n.st \notin {"LOCAL_OFFER", "REMOTE_OFFER"} => CancelOffer(n) = n
  BY DEF CancelOffer, Neg, NegStates
<1> QED BY <1>1, <1>2, <1>3, <1>4, <1>5, <1>6

(* Only the negotiation of v and what it has done are different in w.      *)
Negotiates(v, w) == /\ Core(v, w) /\ w.state = v.state /\ w.cause = v.cause
                    /\ w.out = v.out

(* A change of the negotiator and of the bodies seen is a negotiation.     *)
LEMMA NegotiatesLemma ==
    ASSUME NEW v \in Session, NEW n \in Neg, NEW d \in SUBSET (0..MaxInvites)
    PROVE  LET w == [v EXCEPT !.neg = n, !.done = d]
           IN  Negotiates(v, w) /\ w.neg = n
BY DEF Negotiates, Core, Session

(* A negotiator that is given an answer waits to negotiate, or was in no   *)
(* state for one.                                                          *)
LEMMA AnsweredLemma ==
    ASSUME NEW n \in Neg, NEW x \in Answered(n)
    PROVE  x \in Neg /\ (x = n \/ x.st = "WAIT_NEGO")
BY NegLemma, InviteAssumption, 0 \in Nat DEF Answered

(* The description of a message closes an open offer or leaves the         *)
(* negotiation as it was.                                                  *)
LEMMA CheckSdpLemma ==
    ASSUME NEW v \in Session, NEW m \in Message, NEW w \in CheckSdp(v, m)
    PROVE  Negotiates(v, w) /\ Settles(v, w)
<1>1. CASE m.sdp = 0 \/ m.i \in v.done \/ v.neg.st \in {"REMOTE_OFFER", "WAIT_NEGO"}
  <2>1. w = v
    BY <1>1 DEF CheckSdp
  <2> QED BY <2>1 DEF Negotiates, Core, Settles
<1>2. CASE ~(m.sdp = 0 \/ m.i \in v.done) /\ v.neg.st \in {"NULL", "DONE"}
  <2>1. PICK n \in Answered(RemoteOffer(v.neg, m.sdp)) : w = [v EXCEPT !.neg = n]
    BY <1>2 DEF CheckSdp
  <2>2. v.neg \in Neg /\ m.sdp \in Nat
    BY DEF Session, Message
  <2>3. n \in Neg /\ n.st \in {"REMOTE_OFFER", "WAIT_NEGO"}
    BY <2>2, NegLemma, AnsweredLemma
  <2>4. w = [v EXCEPT !.neg = n, !.done = v.done] /\ v.done \in SUBSET (0..MaxInvites)
    BY <2>1 DEF Session
  <2> QED BY <2>3, <2>4, NegotiatesLemma DEF Settles
<1>3. CASE ~(m.sdp = 0 \/ m.i \in v.done) /\ v.neg.st = "LOCAL_OFFER"
  <2>1. v.neg \in Neg /\ m.sdp \in Nat /\ v.done \cup {m.i} \in SUBSET (0..MaxInvites)
    BY DEF Session, Message
  <2>2. PICK n \in Neg : n = Negotiate(RemoteAnswer(v.neg, m.sdp)) /\ n.st = "DONE"
    BY <2>1, NegLemma
  <2>3. w = [v EXCEPT !.neg = n, !.done = v.done \cup {m.i}]
    BY <1>3, <2>2 DEF CheckSdp, Session
  <2>4. PICK d \in SUBSET (0..MaxInvites) : d = v.done \cup {m.i}
    BY <2>1
  <2>5. Negotiates(v, w) /\ w.neg = n
    BY <2>3, <2>4, NegotiatesLemma
  <2> QED BY <2>2, <2>5 DEF Settles
<1>4. v.neg.st \in NegStates
  BY DEF Session, Neg
<1> QED BY <1>1, <1>2, <1>3, <1>4 DEF NegStates

(* So does the answer in an ACK.                                           *)
LEMMA CreateAckLemma ==
    ASSUME NEW v \in Session, NEW i \in Ids
    PROVE  LET w == CreateAck(v, i)
           IN  Negotiates(v, w) /\ Settles(v, w) /\ w.ack.sdp \in Nat
<1>0. i \in Nat /\ 0 \in Nat /\ v.ack \in [i : Nat, sdp : Nat]
  BY DEF Ids, Session
<1>1. CASE v.ack.i = i
  BY <1>1, <1>0 DEF CreateAck, Negotiates, Core, Settles
<1>2. CASE v.ack.i # i /\ v.neg.st = "WAIT_NEGO"
  <2>1. v.neg \in Neg /\ v.done \cup ({v.itsx} \ {0}) \in SUBSET (0..MaxInvites)
    BY DEF Session
  <2>2. PICK n \in Neg : n = Negotiate(v.neg) /\ n.st = "DONE"
    BY <2>1, <1>0, NegLemma
  <2>3. PICK d \in SUBSET (0..MaxInvites) : d = v.done \cup ({v.itsx} \ {0})
    BY <2>1
  <2>4. PICK a \in [i : Nat, sdp : Nat] : a = [i |-> i, sdp |-> v.neg.loc]
    BY <1>0, <2>1 DEF Neg
  <2>5. CreateAck(v, i) = [v EXCEPT !.neg = n, !.done = d, !.ack = a]
    BY <1>2, <2>2, <2>3, <2>4 DEF CreateAck, Session
  <2> QED BY <2>2, <2>5 DEF Negotiates, Core, Settles, Session
<1>3. CASE v.ack.i # i /\ v.neg.st # "WAIT_NEGO"
  <2>1. PICK a \in [i : Nat, sdp : Nat] : a = [i |-> i, sdp |-> 0]
    BY <1>0
  <2>2. CreateAck(v, i) = [v EXCEPT !.ack = a]
    BY <1>3, <2>1 DEF CreateAck
  <2> QED BY <2>2 DEF Negotiates, Core, Settles, Session
<1> QED BY <1>1, <1>2, <1>3

(* The ACK of a caller, with a BYE only if the session was not confirmed   *)
(* before; it is confirmed or stays what it was.                           *)
LEMMA SendAckLemma ==
    ASSUME NEW v \in Session, NEW i \in Ids
    PROVE  LET w == SendAck(v, i)
           IN  /\ Core(v, w) /\ Settles(v, w) /\ Says(v, w, {"ACK", "BYE"})
               /\ w.cause \in {v.cause, 406}
               /\ (w.state = v.state \/ (v.state < CONFIRMED /\ w.state = CONFIRMED))
               /\ v.state >= CONFIRMED => Says(v, w, {"ACK"})
<1> DEFINE a == CreateAck(v, i)
           s == Send(a, "ACK", i, a.ack.sdp)
<1>1. Negotiates(v, a) /\ Settles(v, a) /\ a.ack.sdp \in Nat
  BY CreateAckLemma
<1>2. "ACK" \in MessageTypes /\ i \in 0..MaxInvites
  BY InviteAssumption DEF MessageTypes, Requests, Ids
<1> HIDE DEF a
<1>a. PICK d \in Nat : d = a.ack.sdp
  BY <1>1
<1>b. a \in Session
  BY <1>1 DEF Negotiates, Core
<1>c. LET w == Send(a, "ACK", i, d)
      IN  /\ Core(a, w) /\ w.state = a.state /\ w.neg = a.neg /\ w.cause = a.cause
          /\ Says(a, w, {"ACK"})
  BY <1>2, <1>b, SendLemma
<1>3. /\ Core(a, s) /\ s.state = a.state /\ s.neg = a.neg /\ s.cause = a.cause
      /\ Says(a, s, {"ACK"})
  BY <1>a, <1>c
<1>4. /\ Core(v, s) /\ s.state = v.state /\ Settles(v, s) /\ s.cause = v.cause
      /\ Says(v, s, {"ACK"})
  BY <1>1, <1>3 DEF Core, Negotiates, Settles, Says
<1>5. SendAck(v, i) = IF s.state < CONFIRMED THEN Confirm(s) ELSE s
  BY DEF SendAck, a, s
<1> HIDE DEF s
<1>6. CASE v.state < CONFIRMED
  <2>1. LET w == Confirm(s)
        IN  /\ Core(s, w) /\ w.state \in {s.state, CONFIRMED} /\ w.neg = s.neg
            /\ w.cause \in {s.cause, 406} /\ Says(s, w, {"BYE"})
    BY <1>4, ConfirmLemma DEF Core
  <2>2. SendAck(v, i) = Confirm(s)
    BY <1>4, <1>5, <1>6
  <2>3. v.state \in NULL..DISCONNECTED
    BY DEF Session
  <2>4. ~(v.state >= CONFIRMED)
    BY <1>6, <2>3, StateOrder
  <2> DEFINE w == SendAck(v, i)
  <2>5. /\ Core(s, w) /\ w.state \in {s.state, CONFIRMED} /\ w.neg = s.neg
        /\ w.cause \in {s.cause, 406} /\ Says(s, w, {"BYE"})
    BY <2>1, <2>2
  <2> HIDE DEF w
  <2>6. Says(v, w, {"ACK", "BYE"})
    BY <1>4, <2>5 DEF Core, Says, Out
  <2>7. Core(v, w) /\ Settles(v, w) /\ w.cause \in {v.cause, 406}
    BY <1>4, <2>5 DEF Core, Settles
  <2>8. (w.state = v.state \/ (v.state < CONFIRMED /\ w.state = CONFIRMED))
    BY <1>4, <1>6, <2>5
  <2> QED BY <2>4, <2>6, <2>7, <2>8 DEF w
<1>7. CASE ~(v.state < CONFIRMED)
  <2>1. SendAck(v, i) = s
    BY <1>4, <1>5, <1>7
  <2>2. Says(v, s, {"ACK", "BYE"})
    BY <1>4 DEF Says, Out
  <2> QED BY <1>4, <2>1, <2>2
<1> QED BY <1>6, <1>7

(* A CANCEL is a message about the pending INVITE; what it marks is not    *)
(* part of anything proved here.                                           *)
LEMMA CancelLemma ==
    ASSUME NEW v \in Session, v.itsx # 0
    PROVE  LET w == Cancel(v)
           IN  /\ Core(v, w) /\ w.state = v.state /\ w.neg = v.neg /\ w.cause = v.cause
               /\ Says(v, w, {"CANCEL"})
<1> DEFINE u == [v EXCEPT !.cancelling = TRUE]
<1>1. /\ Core(v, u) /\ u.state = v.state /\ u.neg = v.neg /\ u.cause = v.cause
      /\ u.out = v.out
  <2>1. PICK b \in BOOLEAN : b = TRUE
    OBVIOUS
  <2>2. u = [v EXCEPT !.cancelling = b]
    BY <2>1
  <2> HIDE DEF u
  <2> QED BY <2>2 DEF Core, Session
<1>2. Cancel(v) = Send(u, "CANCEL", v.itsx, 0)
  BY DEF Cancel
<1> HIDE DEF u
<1>3. PICK i \in Ids : i = v.itsx /\ i \in 0..MaxInvites
  BY InviteAssumption DEF Session, Ids
<1>4. /\ "CANCEL" \in MessageTypes /\ "CANCEL" \notin {"BYE", "OK"}
      /\ i \in 0..MaxInvites /\ 0 \in Nat /\ u \in Session
  BY <1>1, <1>3 DEF MessageTypes, Requests, Core
<1> HIDE DEF u
<1>5. LET w == Send(u, "CANCEL", i, 0)
      IN  /\ Core(u, w) /\ w.state = u.state /\ w.neg = u.neg /\ w.cause = u.cause
          /\ Says(u, w, {"CANCEL"})
  BY <1>4, SendLemma
<1> QED BY <1>1, <1>2, <1>3, <1>5 DEF Core, Says

-----------------------------------------------------------------------------
(* Calls are kept by a step that moves one transaction.                    *)

(* The session of e becomes w, of which only transaction i is new, and of  *)
(* the messages that were there the rest stays.                            *)
Moves(e, w, i, rest) ==
    LET v == inv[e]
        p == inv[Peer(e)]
    IN  /\ i \in Ids /\ w \in Session /\ w.role = e /\ w.mine = v.mine
        /\ \A j \in Ids \ {i} : w.tsx[j] = v.tsx[j]
        /\ Owns(w) /\ Fresh(w) /\ Glareless(w) /\ (e = "uas" => Callee(w))
        /\ w.tsx[i] # "none" => i \in Used
        /\ i \in v.mine /\ p.tsx[i] = "proceeding" => w.tsx[i] \in Open
        /\ i \in p.mine /\ w.tsx[i] = "proceeding" => p.tsx[i] \in Open
        /\ rest \subseteq net
        /\ \A n \in rest : n.i = i => IF n.to = e THEN Carried(n, w, p) ELSE Carried(n, p, w)
        /\ \A n \in w.out : n.to = Peer(e) /\ n.t # "INVITE" /\ Carried(n, p, w)

(* The two ends of a call are each other's peer.                           *)
LEMMA Peers == \A e \in Ends : Peer(e) \in Ends /\ Peer(e) # e /\ Peer(Peer(e)) = e
BY DEF Ends, Peer

(* The session as the step leaves it, with its messages on their way.      *)
LEMMA SentLemma ==
    ASSUME NEW w \in Session
    PROVE  LET x == [w EXCEPT !.out = {}]
           IN  /\ x \in Session /\ x.role = w.role /\ x.state = w.state /\ x.itsx = w.itsx
               /\ x.tsx = w.tsx /\ x.mine = w.mine /\ x.neg = w.neg /\ x.cause = w.cause
               /\ x.lapsed = w.lapsed /\ x.out = {}
BY DEF Session

(* What Becomes does to the two sessions and the messages.                 *)
LEMMA BecomesLemma ==
    ASSUME TypeOK, NEW e \in Ends, NEW w \in Session, w.role = e, NEW rest \in SUBSET net,
           Becomes(e, w, rest)
    PROVE  /\ TypeOK' /\ net' = rest \cup w.out
           /\ inv'[e] = [w EXCEPT !.out = {}] /\ inv'[Peer(e)] = inv[Peer(e)]
<1> DEFINE x == [w EXCEPT !.out = {}]
<1>1. x \in Session /\ x.role = e /\ x.out = {}
  BY SentLemma
<1>2. inv' = [inv EXCEPT ![e] = x] /\ net' = rest \cup w.out
  BY DEF Becomes
<1> HIDE DEF x
<1>3. inv'[e] = x /\ \A d \in Ends \ {e} : inv'[d] = inv[d]
  BY <1>2 DEF TypeOK
<1>4. inv' \in [Ends -> Session]
  BY <1>1, <1>2 DEF TypeOK
<1>5. w.out \subseteq Message
  BY DEF Session
<1>6. TypeOK'
  BY <1>1, <1>2, <1>3, <1>4, <1>5 DEF TypeOK
<1> QED BY <1>2, <1>3, <1>6, Peers DEF x

(* One session moves: if its own transactions and messages are in order    *)
(* for its peer and the messages left, so is the whole call.               *)
LEMMA CallsKept ==
    ASSUME TypeOK, Calls, NEW e \in Ends, NEW w, NEW i, NEW rest,
           Moves(e, w, i, rest), Becomes(e, w, rest)
    PROVE  TypeOK' /\ Calls'
<1> DEFINE f == Peer(e)
           v == inv[e]
           p == inv[f]
           x == [w EXCEPT !.out = {}]
<1>1. f \in Ends /\ f # e /\ Peer(f) = e /\ Ends = {e, f}
  BY Peers DEF Ends, Peer
<1>2. w \in Session /\ w.role = e /\ rest \in SUBSET net /\ i \in Ids
  BY DEF Moves
<1>3. TypeOK' /\ net' = rest \cup w.out /\ inv'[e] = x /\ inv'[f] = p
  BY <1>2, BecomesLemma
<1>4. /\ x \in Session /\ x.role = w.role /\ x.state = w.state /\ x.itsx = w.itsx
      /\ x.tsx = w.tsx /\ x.mine = w.mine
  BY <1>2, SentLemma
<1> HIDE DEF x
<1>5. x.mine = v.mine /\ \A j \in Ids \ {i} : x.tsx[j] = v.tsx[j]
  BY <1>4 DEF Moves
<1>6. v \in Session /\ p \in Session
  BY <1>1 DEF TypeOK
<1>7. Used' = Used /\ Numbered'
  <2>1. inv["uac"].mine = inv'["uac"].mine /\ inv["uas"].mine = inv'["uas"].mine
    BY <1>1, <1>3, <1>5 DEF Ends
  <2> QED BY <2>1 DEF Used, Numbered, Calls
<1>8. /\ Owns(x) /\ Fresh(x) /\ Glareless(x) /\ (e = "uas" => Callee(x))
      /\ Owns(p) /\ Fresh(p) /\ Glareless(p) /\ (f = "uas" => Callee(p))
  <2>1. Owns(w) /\ Fresh(w) /\ Glareless(w) /\ (e = "uas" => Callee(w))
    BY DEF Moves
  <2>2. Owns(x) /\ Fresh(x) /\ Glareless(x) /\ (e = "uas" => Callee(x))
    BY <2>1, <1>4 DEF Owns, Fresh, Glareless, Callee
  <2>3. Owns(p) /\ Fresh(p) /\ Glareless(p) /\ (f = "uas" => Callee(p))
    BY <1>1 DEF Calls
  <2> QED BY <2>2, <2>3
<1>9. Served(x, p) /\ Served(p, x)
  <2>1. Served(v, p) /\ Served(p, v)
    BY <1>1 DEF Calls
  <2>2. /\ i \in v.mine /\ p.tsx[i] = "proceeding" => x.tsx[i] \in Open
        /\ i \in p.mine /\ x.tsx[i] = "proceeding" => p.tsx[i] \in Open
    BY <1>4 DEF Moves
  <2>3. v.mine \subseteq Ids /\ p.mine \subseteq Ids
    BY <1>6 DEF Session
  <2> QED BY <1>5, <2>1, <2>2, <2>3 DEF Served
<1>10. /\ \A j \in Ids : x.tsx[j] # "none" => j \in Used
       /\ \A j \in Ids : p.tsx[j] # "none" => j \in Used
  <2>1. x.tsx[i] # "none" => i \in Used
    BY <1>4 DEF Moves
  <2>2. /\ \A j \in Ids : v.tsx[j] # "none" => j \in Used
        /\ \A j \in Ids : p.tsx[j] # "none" => j \in Used
    BY <1>1 DEF Calls
  <2> QED BY <1>5, <2>1, <2>2
<1>11. ASSUME NEW n \in net'
       PROVE  Carried(n, inv'[n.to], inv'[Peer(n.to)])
  <2>1. CASE n \in w.out
    <3>1. n.to = f /\ Carried(n, p, w)
      BY <2>1 DEF Moves
    <3>2. Carried(n, p, x)
      BY <3>1, <1>4 DEF Carried
    <3> QED BY <1>1, <1>3, <3>1, <3>2
  <2>2. CASE n \in rest
    <3>1. n \in net /\ n \in Message
      BY <2>2, <1>2 DEF TypeOK
    <3>2. n.to \in {e, f} /\ n.i \in 0..MaxInvites
      BY <1>1, <3>1 DEF Message
    <3>3. Carried(n, inv[n.to], inv[Peer(n.to)])
      BY <3>1 DEF Calls
    <3>4. CASE n.i = i
      <4>1. IF n.to = e THEN Carried(n, w, p) ELSE Carried(n, p, w)
        BY <2>2, <3>4 DEF Moves
      <4>2. CASE n.to = e
        <5>1. Carried(n, x, p)
          BY <4>1, <4>2, <1>4 DEF Carried
        <5> QED BY <5>1, <4>2, <1>1, <1>3
      <4>3. CASE n.to = f
        <5>1. Carried(n, p, x)
          BY <4>1, <4>3, <1>1, <1>4 DEF Carried
        <5> QED BY <5>1, <4>3, <1>1, <1>3
      <4> QED BY <4>2, <4>3, <3>2
    <3>5. CASE n.i # i
      <4>0. p.mine \subseteq Ids /\ v.mine \subseteq Ids
        BY <1>6 DEF Session
      <4>1. CASE n.to = e
        <5>1. Carried(n, v, p)
          BY <3>3, <4>1, <1>1
        <5>2. n.i \in Ids => x.tsx[n.i] = v.tsx[n.i]
          BY <1>5, <3>5
        <5>3. Carried(n, x, p)
          BY <5>1, <5>2, <4>0, <1>5 DEF Carried
        <5> QED BY <5>3, <4>1, <1>1, <1>3
      <4>2. CASE n.to = f
        <5>1. Carried(n, p, v)
          BY <3>3, <4>2, <1>1
        <5>2. n.i \in Ids => x.tsx[n.i] = v.tsx[n.i]
          BY <1>5, <3>5
        <5>3. Carried(n, p, x)
          BY <5>1, <5>2, <4>0, <1>5 DEF Carried, Provisionals, Finals
        <5> QED BY <5>3, <4>2, <1>1, <1>3
      <4> QED BY <4>1, <4>2, <3>2
    <3> QED BY <3>4, <3>5
  <2> QED BY <2>1, <2>2, <1>3
<1>12. \A m, n \in net' : m.t = "INVITE" /\ n.t = "INVITE" /\ m.i = n.i => m = n
  <2>1. \A n \in net' : n.t = "INVITE" => n \in net
    BY <1>2, <1>3 DEF Moves
  <2> QED BY <2>1 DEF Calls
<1>13. Callee(inv["uas"])'
  BY <1>1, <1>3, <1>8 DEF Ends
<1> QED BY <1>1, <1>3, <1>7, <1>8, <1>9, <1>10, <1>11, <1>12, <1>13 DEF Calls

-----------------------------------------------------------------------------
(* The kinds of moves.                                                     *)

(* Messages that are about no transaction, or end one that is over.        *)
Chat(e) == Out(e, {"ACK", "NACK", "BYE", "OK"} \cup (IF e = "uac" THEN {"CANCEL"} ELSE {}))

(* Messages without a claim on a transaction may be sent at any time.      *)
LEMMA ChatLemma ==
    ASSUME NEW e \in Ends, NEW n \in Chat(e), NEW c, NEW p
    PROVE  n.to = Peer(e) /\ n.t # "INVITE" /\ Carried(n, c, p)
<1>1. /\ n.to = Peer(e)
      /\ n.t \in {"ACK", "NACK", "BYE", "OK"} \cup (IF e = "uac" THEN {"CANCEL"} ELSE {})
      /\ n.t \notin {"BYE", "OK"} => n.i \in Ids
  BY DEF Chat, Out
<1>2. n.t = "CANCEL" => e = "uac"
  BY <1>1
<1> QED BY <1>1, <1>2 DEF Carried, Provisionals, Finals, Rejections, Peer

(* A state stays or goes on; only a caller rings after it has called.      *)
Stepped(v, w) == \/ w.state = v.state
                 \/ w.state >= CONNECTING /\ w.state >= v.state
                 \/ v.state \in {INCOMING, EARLY} /\ w.state = EARLY
                 \/ v.role = "uac" /\ v.state = CALLING /\ w.state = EARLY

(* What the order of the states says of a session that takes a step.       *)
LEMMA SteppedLemma ==
    ASSUME NEW v \in Session, NEW w \in Session, Stepped(v, w)
    PROVE  /\ v.state <= w.state
           /\ w.state = NULL => v.state = NULL
           /\ w.state = CALLING => v.state = CALLING
           /\ w.state < CONFIRMED => v.state < CONFIRMED
           /\ w.state = INCOMING => v.state = INCOMING
           /\ v.role = "uas" /\ w.state \in {INCOMING, EARLY} => v.state \in {INCOMING, EARLY}
           /\ v.state >= CONNECTING => w.state >= CONNECTING
<1>1. v.state \in 0..6 /\ w.state \in 0..6
  BY StateOrder DEF Session
<1> QED BY <1>1, StateOrder DEF Stepped

(* What the lemmas about moves have in common.                             *)
Ctx(e, w, i, rest) == /\ TypeOK /\ Calls /\ e \in Ends /\ w \in Session /\ w.role = e
                      /\ i \in Ids /\ rest \subseteq net

(* What a step of an end may use of the other end and of the messages.     *)
LEMMA CtxLemma ==
    ASSUME NEW e, NEW w, NEW i, NEW rest, Ctx(e, w, i, rest)
    PROVE  LET v == inv[e]
               p == inv[Peer(e)]
           IN  /\ e \in Ends /\ Peer(e) \in Ends /\ Peer(e) # e /\ Peer(Peer(e)) = e
               /\ v \in Session /\ v.role = e /\ v.out = {} /\ p \in Session
               /\ Owns(v) /\ Fresh(v) /\ Glareless(v) /\ (e = "uas" => Callee(v))
               /\ Owns(p) /\ Served(v, p) /\ Served(p, v)
               /\ \A j \in Ids : v.tsx[j] # "none" => j \in Used
               /\ v.mine \cap p.mine = {} /\ Used = v.mine \cup p.mine
               /\ v.mine \subseteq Ids /\ p.mine \subseteq Ids
               /\ \A n \in rest : IF n.to = e THEN Carried(n, v, p) ELSE Carried(n, p, v)
<1>1. e \in Ends /\ Peer(e) \in Ends /\ Peer(e) # e /\ Peer(Peer(e)) = e
  BY Peers DEF Ctx
<1>2. /\ inv[e] \in Session /\ inv[e].role = e /\ inv[e].out = {} /\ inv[Peer(e)] \in Session
  BY <1>1 DEF Ctx, TypeOK
<1>3. inv[e].mine \subseteq Ids /\ inv[Peer(e)].mine \subseteq Ids
  BY <1>2 DEF Session
<1>4. inv[e].mine \cap inv[Peer(e)].mine = {} /\ Used = inv[e].mine \cup inv[Peer(e)].mine
  BY <1>1 DEF Ctx, Calls, Numbered, Used, Ends
<1>5. ASSUME NEW n \in rest
      PROVE  IF n.to = e THEN Carried(n, inv[e], inv[Peer(e)])
             ELSE Carried(n, inv[Peer(e)], inv[e])
  <2>1. Carried(n, inv[n.to], inv[Peer(n.to)]) /\ n \in Message
    BY DEF Ctx, Calls, TypeOK
  <2>2. n.to = e \/ n.to = Peer(e)
    BY <1>1, <2>1 DEF Message, Ends
  <2> QED BY <1>1, <2>1, <2>2
<1> QED BY <1>1, <1>2, <1>3, <1>4, <1>5 DEF Ctx, Calls

(* No transaction changes; what is sent may be a provisional response.     *)
LEMMA StillMoves ==
    ASSUME NEW e, NEW w, NEW i, NEW rest, Ctx(e, w, i, rest),
           Core(inv[e], w), Stepped(inv[e], w),
           \A n \in w.out : \/ n \in Chat(e)
                            \/ /\ n.to = Peer(e) /\ n.t \in Provisionals /\ n.i \in Ids
                               /\ n.i \in inv[Peer(e)].mine
                               /\ inv[e].tsx[n.i] = "proceeding"
    PROVE  Moves(e, w, i, rest)
<1> DEFINE v == inv[e]
           p == inv[Peer(e)]
<1>1. /\ e \in Ends /\ v \in Session /\ v.role = e /\ p \in Session
      /\ Owns(v) /\ Fresh(v) /\ Glareless(v) /\ (e = "uas" => Callee(v))
      /\ Served(v, p) /\ Served(p, v)
      /\ \A j \in Ids : v.tsx[j] # "none" => j \in Used
      /\ \A n \in rest : IF n.to = e THEN Carried(n, v, p) ELSE Carried(n, p, v)
  BY CtxLemma
<1>2. /\ w \in Session /\ w.role = e /\ w.itsx = v.itsx /\ w.tsx = v.tsx /\ w.mine = v.mine
      /\ i \in Ids /\ rest \subseteq net
  BY <1>1 DEF Core, Ctx
<1>3. /\ w.state = NULL => v.state = NULL
      /\ w.state = CALLING => v.state = CALLING
      /\ w.state < CONFIRMED => v.state < CONFIRMED
      /\ e = "uas" /\ w.state \in {INCOMING, EARLY} => v.state \in {INCOMING, EARLY}
  BY <1>1, <1>2, SteppedLemma
<1> HIDE DEF v, p
<1>4. Owns(w) /\ Fresh(w) /\ Glareless(w) /\ (e = "uas" => Callee(w))
  BY <1>1, <1>2, <1>3 DEF Owns, Fresh, Glareless, Callee
<1>5. ASSUME NEW n \in rest
      PROVE  IF n.to = e THEN Carried(n, w, p) ELSE Carried(n, p, w)
  BY <1>1, <1>2 DEF Carried
<1>6. ASSUME NEW n \in w.out
      PROVE  n.to = Peer(e) /\ n.t # "INVITE" /\ Carried(n, p, w)
  <2>1. CASE n \in Chat(e)
    BY <2>1, <1>1, ChatLemma
  <2>2. CASE n.to = Peer(e) /\ n.t \in Provisionals /\ n.i \in p.mine /\ n.i \in Ids
             /\ v.tsx[n.i] = "proceeding"
    <3>1. p.tsx[n.i] \in Open
      BY <1>1, <2>2 DEF Served
    <3> QED BY <2>2, <3>1 DEF Carried, Provisionals, Finals, Rejections
  <2> QED BY <2>1, <2>2 DEF v, p
<1>7. /\ i \in v.mine /\ p.tsx[i] = "proceeding" => w.tsx[i] \in Open
      /\ i \in p.mine /\ w.tsx[i] = "proceeding" => p.tsx[i] \in Open
  BY <1>1, <1>2 DEF Served
<1> QED BY <1>1, <1>2, <1>4, <1>5, <1>6, <1>7 DEF Moves, v, p

(* A transaction is over: one that this end serves and has answered, or    *)
(* one of its own that was answered.                                       *)
LEMMA OverMoves ==
    ASSUME NEW e, NEW w, NEW i, NEW rest, Ctx(e, w, i, rest),
           Goes(inv[e], w, i, "over", IF inv[e].itsx = i THEN 0 ELSE inv[e].itsx),
           Stepped(inv[e], w), w.out \subseteq Chat(e),
           \/ inv[e].tsx[i] \in {"accepted", "rejected"}
           \/ /\ i \in inv[e].mine /\ inv[Peer(e)].tsx[i] \notin {"none", "proceeding"}
              /\ \A n \in rest : n.i = i => n.t \notin Provisionals
    PROVE  Moves(e, w, i, rest)
<1> DEFINE v == inv[e]
           p == inv[Peer(e)]
<1>1. /\ e \in Ends /\ v \in Session /\ v.role = e /\ p \in Session
      /\ Owns(v) /\ Fresh(v) /\ Glareless(v) /\ (e = "uas" => Callee(v))
      /\ Served(v, p) /\ Served(p, v)
      /\ \A j \in Ids : v.tsx[j] # "none" => j \in Used
      /\ v.mine \cap p.mine = {} /\ v.mine \subseteq Ids
      /\ \A n \in rest : IF n.to = e THEN Carried(n, v, p) ELSE Carried(n, p, v)
  BY CtxLemma
<1>2. /\ w \in Session /\ w.role = e /\ w.mine = v.mine
      /\ w.itsx = (IF v.itsx = i THEN 0 ELSE v.itsx)
      /\ i \in Ids /\ rest \subseteq net
  BY <1>1 DEF Goes, Ctx
<1>2a. w.tsx[i] = "over" /\ \A j \in Ids \ {i} : w.tsx[j] = v.tsx[j]
  BY <1>1, <1>2 DEF Goes, Session
<1>3. /\ w.state = NULL => v.state = NULL
      /\ w.state = CALLING => v.state = CALLING
      /\ w.state < CONFIRMED => v.state < CONFIRMED
      /\ e = "uas" /\ w.state \in {INCOMING, EARLY} => v.state \in {INCOMING, EARLY}
  BY <1>1, <1>2, SteppedLemma
<1>4. \/ v.tsx[i] \in {"accepted", "rejected"} /\ i \notin v.mine
      \/ /\ i \in v.mine /\ p.tsx[i] \notin {"none", "proceeding"}
         /\ \A n \in rest : n.i = i => n.t \notin Provisionals
  BY <1>1, <1>2 DEF Owns, Open
<1>5. v.tsx[i] # "none"
  BY <1>1, <1>2, <1>4 DEF Owns, Open
<1>6. w.out \subseteq Chat(e) /\ v.itsx \in 0..MaxInvites
  BY <1>1 DEF Session
<1> HIDE DEF v, p
<1>7. Owns(w)
  <2> SUFFICES ASSUME NEW j \in Ids
               PROVE  /\ j \in w.mine => w.tsx[j] \in Open \cup {"over"}
                      /\ j \notin w.mine => w.tsx[j] # "calling"
                      /\ w.tsx[j] \in Open \cup {"accepted"} => w.itsx = j
                      /\ j = w.itsx => w.tsx[j] # "none"
    BY DEF Owns
  <2>1. CASE j = i
    BY <2>1, <1>2, <1>2a DEF Open
  <2>2. CASE j # i
    BY <2>2, <1>1, <1>2, <1>2a DEF Owns, Ids
  <2> QED BY <2>1, <2>2
<1>8. Fresh(w)
  BY <1>1, <1>2, <1>3, <1>5 DEF Fresh
<1>9. Glareless(w)
  BY <1>1, <1>2, <1>2a DEF Glareless
<1>10. e = "uas" => Callee(w)
  <2> SUFFICES ASSUME e = "uas" PROVE Callee(w)
    OBVIOUS
  <2>1. w.state # CALLING /\ (w.state < CONFIRMED => w.mine = {})
    BY <1>1, <1>2, <1>3 DEF Callee
  <2>2. ASSUME w.state \in {INCOMING, EARLY}, w.itsx # 0
        PROVE  w.tsx[w.itsx] = "proceeding"
    <3>1. w.itsx = v.itsx /\ w.itsx # i /\ w.itsx \in Ids
      BY <2>2, <1>2, <1>6 DEF Ids
    <3> QED BY <3>1, <2>2, <1>1, <1>2a, <1>3 DEF Callee
  <2> QED BY <2>1, <2>2 DEF Callee
<1>11. ASSUME NEW n \in rest, n.i = i
       PROVE  IF n.to = e THEN Carried(n, w, p) ELSE Carried(n, p, w)
  <2>1. CASE n.to = e
    <3>1. Carried(n, v, p)
      BY <1>1, <2>1
    <3>2. n.t # "INVITE" /\ n.t \notin Provisionals
      BY <3>1, <1>4, <1>5, <1>11 DEF Carried, Provisionals, Finals
    <3> QED BY <3>1, <3>2, <2>1, <1>2, <1>11 DEF Carried
  <2>2. CASE n.to # e
    <3>1. Carried(n, p, v)
      BY <1>1, <2>2
    <3>2. n.t # "INVITE"
      BY <3>1, <1>4, <1>11 DEF Carried
    <3> QED BY <3>1, <3>2, <2>2, <1>2, <1>2a, <1>11 DEF Carried
  <2> QED BY <2>1, <2>2
<1>12. ASSUME NEW n \in w.out
       PROVE  n.to = Peer(e) /\ n.t # "INVITE" /\ Carried(n, p, w)
  BY <1>1, <1>6, ChatLemma
<1>13. /\ w.tsx[i] # "none" => i \in Used
       /\ i \in v.mine /\ p.tsx[i] = "proceeding" => w.tsx[i] \in Open
       /\ i \in p.mine /\ w.tsx[i] = "proceeding" => p.tsx[i] \in Open
  BY <1>1, <1>2, <1>2a, <1>4, <1>5
<1> QED BY <1>1, <1>2, <1>2a, <1>7, <1>8, <1>9, <1>10, <1>11, <1>12, <1>13 DEF Moves, v, p

(* An INVITE of the other end gets its final response.                     *)
LEMMA AnswerMoves ==
    ASSUME NEW e, NEW w, NEW i, NEW rest, NEW s \in {"accepted", "rejected"}, NEW j,
           Ctx(e, w, i, rest), Goes(inv[e], w, i, s, j),
           inv[e].state # NULL, Stepped(inv[e], w), i \in inv[Peer(e)].mine,
           \/ j = i /\ inv[e].itsx \in {0, i} /\ w.state \notin {INCOMING, EARLY}
           \/ j = inv[e].itsx /\ j # i /\ s = "rejected",
           s = "accepted" => \A k \in inv[e].mine : inv[e].tsx[k] = "over",
           \A n \in rest : n.i = i => n.t # "INVITE",
           \A n \in w.out : \/ n \in Chat(e)
                            \/ n.to = Peer(e) /\ n.t \in Finals /\ n.i = i
    PROVE  Moves(e, w, i, rest)
<1> DEFINE v == inv[e]
           p == inv[Peer(e)]
<1>1. /\ e \in Ends /\ v \in Session /\ v.role = e /\ p \in Session
      /\ Owns(v) /\ Fresh(v) /\ Glareless(v) /\ (e = "uas" => Callee(v))
      /\ \A k \in Ids : v.tsx[k] # "none" => k \in Used
      /\ v.mine \cap p.mine = {} /\ Used = v.mine \cup p.mine /\ v.mine \subseteq Ids
      /\ \A n \in rest : IF n.to = e THEN Carried(n, v, p) ELSE Carried(n, p, v)
  BY CtxLemma
<1>2. /\ w \in Session /\ w.role = e /\ w.mine = v.mine /\ w.itsx = j
      /\ i \in Ids /\ rest \subseteq net
  BY <1>1 DEF Goes, Ctx
<1>2a. w.tsx[i] = s /\ \A k \in Ids \ {i} : w.tsx[k] = v.tsx[k]
  BY <1>1, <1>2 DEF Goes, Session
<1>3. /\ w.state = NULL => v.state = NULL
      /\ w.state = CALLING => v.state = CALLING
      /\ w.state < CONFIRMED => v.state < CONFIRMED
      /\ e = "uas" /\ w.state \in {INCOMING, EARLY} => v.state \in {INCOMING, EARLY}
  BY <1>1, <1>2, SteppedLemma
<1>4. i \in p.mine /\ i \notin v.mine /\ i \in Used /\ v.state # NULL
  BY <1>1
<1>5. \/ j = i /\ v.itsx \in {0, i} /\ w.state \notin {INCOMING, EARLY}
      \/ j = v.itsx /\ j # i /\ s = "rejected"
  OBVIOUS
<1>6. v.itsx \in 0..MaxInvites /\ w.itsx \in 0..MaxInvites /\ 0 \notin Ids
  BY <1>1, <1>2 DEF Session, Ids
<1>6a. s = "accepted" => \A k \in v.mine : v.tsx[k] = "over"
  OBVIOUS
<1> HIDE DEF v, p
<1>7. Owns(w)
  <2> SUFFICES ASSUME NEW k \in Ids
               PROVE  /\ k \in w.mine => w.tsx[k] \in Open \cup {"over"}
                      /\ k \notin w.mine => w.tsx[k] # "calling"
                      /\ w.tsx[k] \in Open \cup {"accepted"} => w.itsx = k
                      /\ k = w.itsx => w.tsx[k] # "none"
    BY DEF Owns
  <2>1. CASE k = i
    BY <2>1, <1>2, <1>2a, <1>4, <1>5 DEF Open
  <2>2. CASE k # i
    BY <2>2, <1>1, <1>2, <1>2a, <1>5, <1>6 DEF Owns
  <2> QED BY <2>1, <2>2
<1>8. Fresh(w)
  BY <1>3, <1>4 DEF Fresh
<1>9. Glareless(w)
  <2> SUFFICES ASSUME NEW h \in Ids, w.tsx[h] = "accepted", NEW k \in w.mine
               PROVE  w.tsx[k] = "over"
    BY DEF Glareless
  <2>1. k \in v.mine /\ k # i /\ k \in Ids
    BY <1>1, <1>2, <1>4
  <2>2. CASE h = i
    BY <2>1, <2>2, <1>2a, <1>6a
  <2>3. CASE h # i
    BY <2>1, <2>3, <1>1, <1>2a DEF Glareless
  <2> QED BY <2>2, <2>3
<1>10. e = "uas" => Callee(w)
  <2> SUFFICES ASSUME e = "uas" PROVE Callee(w)
    OBVIOUS
  <2>1. w.state # CALLING /\ (w.state < CONFIRMED => w.mine = {})
    BY <1>1, <1>2, <1>3 DEF Callee
  <2>2. ASSUME w.state \in {INCOMING, EARLY}, w.itsx # 0
        PROVE  w.tsx[w.itsx] = "proceeding"
    <3>1. w.itsx = v.itsx /\ w.itsx # i /\ w.itsx \in Ids
      BY <2>2, <1>2, <1>5, <1>6 DEF Ids
    <3> QED BY <3>1, <2>2, <1>1, <1>2a, <1>3 DEF Callee
  <2> QED BY <2>1, <2>2 DEF Callee
<1>11. ASSUME NEW n \in rest, n.i = i
       PROVE  IF n.to = e THEN Carried(n, w, p) ELSE Carried(n, p, w)
  <2>0. n.t # "INVITE"
    BY <1>11
  <2>1. CASE n.to = e
    <3>1. Carried(n, v, p)
      BY <1>1, <2>1
    <3>2. n.t \notin Provisionals
      BY <3>1, <1>4, <1>11 DEF Carried
    <3> QED BY <3>1, <3>2, <2>0, <2>1, <1>2, <1>11 DEF Carried
  <2>2. CASE n.to # e
    <3>1. Carried(n, p, v)
      BY <1>1, <2>2
    <3> QED BY <3>1, <2>0, <2>2, <1>2, <1>2a, <1>11 DEF Carried
  <2> QED BY <2>1, <2>2
<1>12. ASSUME NEW n \in w.out
       PROVE  n.to = Peer(e) /\ n.t # "INVITE" /\ Carried(n, p, w)
  <2>1. CASE n \in Chat(e)
    BY <2>1, <1>1, ChatLemma
  <2>2. CASE n.to = Peer(e) /\ n.t \in Finals /\ n.i = i
    BY <2>2, <1>2, <1>2a, <1>4 DEF Carried, Provisionals, Finals, Rejections
  <2> QED BY <2>1, <2>2
<1>13. /\ w.tsx[i] # "none" => i \in Used
       /\ i \in v.mine /\ p.tsx[i] = "proceeding" => w.tsx[i] \in Open
       /\ i \in p.mine /\ w.tsx[i] = "proceeding" => p.tsx[i] \in Open
  BY <1>2a, <1>4
<1> QED BY <1>1, <1>2, <1>2a, <1>7, <1>8, <1>9, <1>10, <1>11, <1>12, <1>13 DEF Moves, v, p

(* A client transaction gets a provisional response.                       *)
LEMMA ProgressMoves ==
    ASSUME NEW e, NEW w, NEW i, NEW rest, Ctx(e, w, i, rest),
           Goes(inv[e], w, i, "proceeding", inv[e].itsx), Stepped(inv[e], w),
           i \in inv[e].mine, inv[e].tsx[i] \in Open, w.out \subseteq Chat(e)
    PROVE  Moves(e, w, i, rest)
<1> DEFINE v == inv[e]
           p == inv[Peer(e)]
<1>1. /\ e \in Ends /\ v \in Session /\ v.role = e /\ p \in Session
      /\ Owns(v) /\ Fresh(v) /\ Glareless(v) /\ (e = "uas" => Callee(v))
      /\ \A k \in Ids : v.tsx[k] # "none" => k \in Used
      /\ v.mine \cap p.mine = {} /\ Used = v.mine \cup p.mine /\ v.mine \subseteq Ids
      /\ \A n \in rest : IF n.to = e THEN Carried(n, v, p) ELSE Carried(n, p, v)
  BY CtxLemma
<1>2. /\ w \in Session /\ w.role = e /\ w.mine = v.mine /\ w.itsx = v.itsx
      /\ i \in Ids /\ rest \subseteq net
  BY <1>1 DEF Goes, Ctx
<1>2a. w.tsx[i] = "proceeding" /\ \A k \in Ids \ {i} : w.tsx[k] = v.tsx[k]
  BY <1>1, <1>2 DEF Goes, Session
<1>3. /\ w.state = NULL => v.state = NULL
      /\ w.state = CALLING => v.state = CALLING
      /\ w.state < CONFIRMED => v.state < CONFIRMED
      /\ e = "uas" /\ w.state \in {INCOMING, EARLY} => v.state \in {INCOMING, EARLY}
  BY <1>1, <1>2, SteppedLemma
<1>4. i \in v.mine /\ i \notin p.mine /\ v.tsx[i] \in Open
  BY <1>1
<1> HIDE DEF v, p
<1>7. Owns(w)
  BY <1>1, <1>2, <1>2a, <1>4 DEF Owns, Open
<1>8. Fresh(w)
  BY <1>1, <1>2, <1>3, <1>4 DEF Fresh
<1>9. Glareless(w)
  BY <1>1, <1>2, <1>2a, <1>4 DEF Glareless, Open
<1>10. e = "uas" => Callee(w)
  <2> SUFFICES ASSUME e = "uas" PROVE Callee(w)
    OBVIOUS
  <2>1. ~(v.state < CONFIRMED)
    BY <1>1, <1>4 DEF Callee
  <2>2. ~(w.state < CONFIRMED)
    BY <2>1, <1>3
  <2> QED BY <2>2, StateOrder DEF Callee
<1>11. ASSUME NEW n \in rest, n.i = i
       PROVE  IF n.to = e THEN Carried(n, w, p) ELSE Carried(n, p, w)
  <2>1. CASE n.to = e
    <3>1. Carried(n, v, p)
      BY <1>1, <2>1
    <3> QED BY <3>1, <2>1, <1>2, <1>2a, <1>4, <1>11 DEF Carried, Open
  <2>2. CASE n.to # e
    <3>1. Carried(n, p, v)
      BY <1>1, <2>2
    <3>2. n.t \notin Provisionals \cup Finals
      BY <3>1, <1>4, <1>11 DEF Carried
    <3> QED BY <3>1, <3>2, <2>2, <1>2, <1>2a, <1>11 DEF Carried, Open
  <2> QED BY <2>1, <2>2
<1>12. ASSUME NEW n \in w.out
       PROVE  n.to = Peer(e) /\ n.t # "INVITE" /\ Carried(n, p, w)
  BY <1>1, ChatLemma
<1>13. /\ w.tsx[i] # "none" => i \in Used
       /\ i \in v.mine /\ p.tsx[i] = "proceeding" => w.tsx[i] \in Open
       /\ i \in p.mine /\ w.tsx[i] = "proceeding" => p.tsx[i] \in Open
  BY <1>1, <1>2a, <1>4 DEF Open
<1> QED BY <1>1, <1>2, <1>2a, <1>7, <1>8, <1>9, <1>10, <1>11, <1>12, <1>13 DEF Moves, v, p

(* A session begins with an INVITE of the other end.                       *)
LEMMA ServeMoves ==
    ASSUME NEW e, NEW w, NEW i, NEW rest, Ctx(e, w, i, rest),
           Goes(inv[e], w, i, "proceeding", i),
           inv[e].state = NULL, w.state = INCOMING,
           i \in inv[Peer(e)].mine, inv[Peer(e)].tsx[i] \in Open,
           \A n \in rest : n.i = i => n.t # "INVITE",
           \A n \in w.out : n.to = Peer(e) /\ n.t \in Provisionals /\ n.i = i
    PROVE  Moves(e, w, i, rest)
<1> DEFINE v == inv[e]
           p == inv[Peer(e)]
<1>1. /\ e \in Ends /\ v \in Session /\ v.role = e /\ p \in Session
      /\ Fresh(v)
      /\ v.mine \cap p.mine = {} /\ Used = v.mine \cup p.mine /\ v.mine \subseteq Ids
      /\ \A n \in rest : IF n.to = e THEN Carried(n, v, p) ELSE Carried(n, p, v)
  BY CtxLemma
<1>2. /\ w \in Session /\ w.role = e /\ w.mine = v.mine /\ w.itsx = i
      /\ i \in Ids /\ rest \subseteq net
  BY <1>1 DEF Goes, Ctx
<1>2a. w.tsx[i] = "proceeding" /\ \A k \in Ids \ {i} : w.tsx[k] = v.tsx[k]
  BY <1>1, <1>2 DEF Goes, Session
<1>3. v.mine = {} /\ v.itsx = 0 /\ \A k \in Ids : v.tsx[k] = "none"
  BY <1>1 DEF Fresh
<1>4. i \in p.mine /\ p.tsx[i] \in Open /\ i \in Used /\ w.state = INCOMING
  BY <1>1
<1> HIDE DEF v, p
<1>7. Owns(w)
  BY <1>2, <1>2a, <1>3 DEF Owns, Open
<1>8. Fresh(w) /\ Glareless(w) /\ Callee(w)
  BY <1>2, <1>2a, <1>3, <1>4, StateOrder DEF Fresh, Glareless, Callee
<1>9. ASSUME NEW n \in rest, n.i = i
      PROVE  IF n.to = e THEN Carried(n, w, p) ELSE Carried(n, p, w)
  <2>0. n.t # "INVITE"
    BY <1>9
  <2>1. CASE n.to = e
    <3>1. Carried(n, v, p)
      BY <1>1, <2>1
    <3> QED BY <3>1, <2>0, <2>1, <1>2, <1>2a, <1>3, <1>9 DEF Carried, Open
  <2>2. CASE n.to # e
    <3>1. Carried(n, p, v)
      BY <1>1, <2>2
    <3>2. n.t \notin Finals
      BY <3>1, <1>2, <1>3, <1>9 DEF Carried
    <3> QED BY <3>1, <3>2, <2>0, <2>2, <1>2, <1>9 DEF Carried
  <2> QED BY <2>1, <2>2
<1>10. ASSUME NEW n \in w.out
       PROVE  n.to = Peer(e) /\ n.t # "INVITE" /\ Carried(n, p, w)
  <2>1. n.to = Peer(e) /\ n.t \in Provisionals /\ n.i = i
    OBVIOUS
  <2> QED BY <2>1, <1>2, <1>4 DEF Carried, Provisionals, Finals, Rejections
<1>11. /\ w.tsx[i] # "none" => i \in Used
       /\ i \in v.mine /\ p.tsx[i] = "proceeding" => w.tsx[i] \in Open
       /\ i \in p.mine /\ w.tsx[i] = "proceeding" => p.tsx[i] \in Open
  BY <1>3, <1>4
<1> QED BY <1>1, <1>2, <1>2a, <1>7, <1>8, <1>9, <1>10, <1>11 DEF Moves, v, p

-----------------------------------------------------------------------------
(* Callers and offers are kept by a step that respects them.               *)

(* What the rules about the caller and the callee ask of the new session.  *)
Watches(e, w) ==
    LET v == inv[e]
    IN  /\ e = "uac" => /\ v.state <= w.state /\ w.state # INCOMING
                        /\ \A i \in Ids : w.tsx[i] \in {"accepted", "rejected", "over"}
                                          => w.state >= CONNECTING
                        /\ \A n \in w.out : n.t = "ACK" => w.state >= CONNECTING
        /\ e = "uas" => /\ v.lapsed => w.lapsed
                        /\ Codes \cap Passing = {} => (w.cause \in Passing => w.lapsed)
                        /\ ~(inv["uac"].state >= CONNECTING)
                           => /\ w.state # CONFIRMED /\ w.mine = {}
                              /\ Codes \cap Passing = {}
                                 => w.lapsed \/ \A n \in w.out : n.t # "BYE"

(* A step that keeps the watch on the caller keeps what a callee knows of  *)
(* it.                                                                     *)
LEMMA CallersKept ==
    ASSUME IInv, NEW e \in Ends, NEW w \in Session, w.role = e, NEW rest \in SUBSET net,
           Becomes(e, w, rest), Watches(e, w), \A n \in w.out : n.to = Peer(e)
    PROVE  Callers' /\ CallerKnows'
<1> DEFINE x == [w EXCEPT !.out = {}]
<1>1. net' = rest \cup w.out /\ inv'[e] = x /\ inv'[Peer(e)] = inv[Peer(e)]
  BY BecomesLemma DEF IInv
<1>2. /\ x.state = w.state /\ x.tsx = w.tsx /\ x.mine = w.mine /\ x.cause = w.cause
      /\ x.lapsed = w.lapsed
  BY SentLemma
<1> HIDE DEF x
<1>3. /\ inv["uac"].state \in 0..6 /\ inv["uas"].state \in 0..6 /\ w.state \in 0..6
  BY StateOrder DEF IInv, TypeOK, Ends, Session
<1>4. Callers /\ CallerKnows
  BY DEF IInv
<1>5. CASE e = "uac"
  <2>1. inv'["uac"] = x /\ inv'["uas"] = inv["uas"]
    BY <1>1, <1>5 DEF Peer
  <2>2. /\ inv["uac"].state <= w.state /\ w.state # INCOMING
        /\ \A i \in Ids : w.tsx[i] \in {"accepted", "rejected", "over"} => w.state >= CONNECTING
        /\ \A n \in w.out : n.t = "ACK" => w.state >= CONNECTING
    BY <1>5 DEF Watches
  <2>3. inv["uac"].state >= CONNECTING => x.state >= CONNECTING
    BY <2>2, <1>2, <1>3, StateOrder
  <2>4. \A n \in net' : n \in net \/ (n \in w.out /\ n.to = "uas")
    BY <1>1, <1>5 DEF Peer
  <2>5. \A m \in net' : m.t = "ACK" /\ m.to = "uas" => x.state >= CONNECTING
    BY <2>2, <2>3, <2>4, <1>2, <1>4 DEF Callers
  <2>6. Callers'
    BY <2>1, <2>2, <2>3, <2>5, <1>2, <1>4 DEF Callers
  <2>7. ASSUME Codes \cap Passing = {} PROVE CallerKnows'
    BY <2>1, <2>3, <2>4, <2>7, <1>4 DEF CallerKnows
  <2> QED BY <2>6, <2>7 DEF CallerKnows
<1>6. CASE e = "uas"
  <2>1. inv'["uas"] = x /\ inv'["uac"] = inv["uac"]
    BY <1>1, <1>6 DEF Peer
  <2>2. /\ inv["uas"].lapsed => w.lapsed
        /\ Codes \cap Passing = {} => (w.cause \in Passing => w.lapsed)
        /\ ~(inv["uac"].state >= CONNECTING)
           => /\ w.state # CONFIRMED /\ w.mine = {}
              /\ Codes \cap Passing = {} => w.lapsed \/ \A n \in w.out : n.t # "BYE"
    BY <1>6 DEF Watches
  <2>3. \A n \in net' : n \in net \/ (n \in w.out /\ n.to = "uac")
    BY <1>1, <1>6 DEF Peer
  <2>4. \A m \in net' : m.t = "ACK" /\ m.to = "uas" => inv["uac"].state >= CONNECTING
    BY <2>3, <1>4 DEF Callers
  <2>5. Callers'
    BY <2>1, <2>2, <2>4, <1>2, <1>4 DEF Callers
  <2>6. ASSUME Codes \cap Passing = {} PROVE CallerKnows'
    BY <2>1, <2>2, <2>3, <2>6, <1>2, <1>4 DEF CallerKnows
  <2> QED BY <2>5, <2>6 DEF CallerKnows
<1> QED BY <1>5, <1>6 DEF Ends

(* And one that leaves its offer closable keeps the offers.                *)
LEMMA OffersKept ==
    ASSUME IInv, NEW e \in Ends, NEW w \in Session, w.role = e, NEW rest \in SUBSET net,
           Becomes(e, w, rest), Closable(w)
    PROVE  Offers'
<1> DEFINE x == [w EXCEPT !.out = {}]
<1>1. inv'[e] = x /\ inv'[Peer(e)] = inv[Peer(e)]
  BY BecomesLemma DEF IInv
<1>2. /\ x.state = w.state /\ x.itsx = w.itsx /\ x.tsx = w.tsx /\ x.neg = w.neg
      /\ x.lapsed = w.lapsed
  BY SentLemma
<1> HIDE DEF x
<1>3. Closable(x)
  BY <1>2 DEF Closable
<1>4. Ends = {e, Peer(e)} /\ Closable(inv[Peer(e)])
  BY Peers DEF Ends, Peer, IInv, Offers
<1> QED BY <1>1, <1>3, <1>4 DEF Offers

(* A step that respects all three keeps the invariant.                     *)
LEMMA StepKept ==
    ASSUME IInv, NEW e \in Ends, NEW w, NEW i, NEW rest,
           Moves(e, w, i, rest), Watches(e, w), Closable(w), Becomes(e, w, rest)
    PROVE  IInv'
<1>1. /\ w \in Session /\ w.role = e /\ rest \in SUBSET net
      /\ \A n \in w.out : n.to = Peer(e)
  BY DEF Moves
<1>2. TypeOK' /\ Calls'
  BY CallsKept DEF IInv
<1>3. Callers' /\ CallerKnows'
  BY <1>1, CallersKept
<1>4. Offers'
  BY <1>1, OffersKept
<1> QED BY <1>2, <1>3, <1>4 DEF IInv

(* The new session keeps the invariant with the messages that stay.        *)
Keeps(e, w, rest) == (\E i \in Ids : Moves(e, w, i, rest)) /\ Watches(e, w) /\ Closable(w)

(* A session that takes a step forward keeps that watch, if a callee says  *)
(* nothing that the caller has not reached yet.                            *)
LEMMA WatchLemma ==
    ASSUME IInv, NEW e \in Ends, NEW w \in Session, NEW i \in Ids,
           w.mine = inv[e].mine, w.lapsed = inv[e].lapsed, Stepped(inv[e], w),
           \A j \in Ids \ {i} : w.tsx[j] = inv[e].tsx[j],
           w.cause \in {inv[e].cause, 0, 406},
           e = "uac" /\ w.tsx[i] \in {"accepted", "rejected", "over"} => w.state >= CONNECTING,
           e = "uac" => \A n \in w.out : n.t = "ACK" => w.state >= CONNECTING,
           e = "uas" /\ ~(inv["uac"].state >= CONNECTING)
             => w.state # CONFIRMED /\ \A n \in w.out : n.t # "BYE"
    PROVE  Watches(e, w)
<1>1. Callers /\ inv[e] \in Session /\ inv[e].role = e
  BY DEF IInv, TypeOK
<1>2. /\ inv[e].state <= w.state
      /\ w.state = INCOMING => inv[e].state = INCOMING
      /\ inv[e].state >= CONNECTING => w.state >= CONNECTING
  BY <1>1, SteppedLemma
<1>3. CASE e = "uac"
  <2>1. \A j \in Ids : w.tsx[j] \in {"accepted", "rejected", "over"} => w.state >= CONNECTING
    BY <1>1, <1>2, <1>3 DEF Callers
  <2>2. inv[e].state # INCOMING
    BY <1>1, <1>3 DEF Callers
  <2> QED BY <1>2, <1>3, <2>1, <2>2 DEF Watches
<1>4. CASE e = "uas"
  <2>1. Codes \cap Passing = {} => (inv["uas"].cause \in Passing => inv["uas"].lapsed)
    BY <1>1 DEF Callers
  <2>2. ~(inv["uac"].state >= CONNECTING) => inv["uas"].mine = {}
    BY <1>1 DEF Callers
  <2>3. 0 \notin Passing /\ 406 \notin Passing
    BY DEF Passing
  <2>4. Codes \cap Passing = {} => (w.cause \in Passing => w.lapsed)
    BY <1>4, <2>1, <2>3
  <2> QED BY <1>4, <2>2, <2>4 DEF Watches
<1> QED BY <1>3, <1>4 DEF Ends

(* An offer stays closable when the negotiation settles and no INVITE that *)
(* carries it is lost.                                                     *)
LEMMA ClosableLemma ==
    ASSUME NEW v \in Session, NEW w \in Session, Closable(v), Settles(v, w),
           v.state <= w.state, v.lapsed => w.lapsed, w.state = NULL => w.neg = v.neg,
           v.state = CONFIRMED /\ w.state = CONFIRMED /\ ~w.lapsed /\ w.neg.st = "LOCAL_OFFER"
             => \/ w.itsx = v.itsx /\ (w.itsx # 0 /\ w.tsx[w.itsx] = "rejected"
                                       => v.tsx[v.itsx] = "rejected")
                \/ v.itsx = 0 \/ v.tsx[v.itsx] = "rejected"
    PROVE  Closable(w)
<1>1. v.state \in 0..6 /\ w.state \in 0..6
  BY StateOrder DEF Session
<1>2. CASE w.neg.st \notin {"NULL", "LOCAL_OFFER"} /\ w.state # NULL
  BY <1>2 DEF Closable
<1>3. CASE w.neg = v.neg
  <2>1. v.lapsed \in BOOLEAN /\ w.lapsed \in BOOLEAN
    BY DEF Session
  <2>2. w.neg.st = "NULL" \/ w.state = NULL => w.neg.act = <<0, 0>>
    <3>1. w.state = NULL => v.state = NULL
      BY <1>1, StateOrder
    <3> QED BY <1>3, <3>1 DEF Closable
  <2>3. w.state < CONFIRMED /\ w.neg.st = "LOCAL_OFFER" => w.neg.act = <<0, 0>>
    <3>1. w.state < CONFIRMED => v.state < CONFIRMED
      BY <1>1, StateOrder
    <3> QED BY <3>1, <1>3 DEF Closable
  <2>4. ASSUME w.state = CONFIRMED, ~w.lapsed, w.neg.st = "LOCAL_OFFER",
               w.neg.act # <<0, 0>>
        PROVE  w.itsx # 0 /\ w.tsx[w.itsx] # "rejected"
    <3>1. v.state < CONFIRMED \/ v.state = CONFIRMED
      BY <1>1, <2>4, StateOrder
    <3>2. v.state = CONFIRMED
      BY <3>1, <2>4, <1>3 DEF Closable
    <3>3. v.itsx # 0 /\ v.tsx[v.itsx] # "rejected"
      BY <3>2, <2>4, <1>3 DEF Closable
    <3> QED BY <3>2, <3>3, <2>4
  <2> QED BY <2>2, <2>3, <2>4 DEF Closable
<1> QED BY <1>2, <1>3 DEF Settles

-----------------------------------------------------------------------------
(* What is known when e has received m.                                    *)

Got(e, m) == IInv /\ e \in Ends /\ m \in net /\ m.to = e

(* What a handler may use when a message has arrived, and the messages     *)
(* that are left.                                                          *)
LEMMA GotLemma ==
    ASSUME NEW e, NEW m, Got(e, m)
    PROVE  LET v == inv[e]
               p == inv[Peer(e)]
           IN  /\ IInv /\ e \in Ends /\ v \in Session /\ v.role = e /\ v.out = {}
               /\ p \in Session /\ m \in Message /\ Carried(m, v, p) /\ Closable(v)
               /\ v.state \in 0..6
               /\ Rest(e, m) \subseteq net
               /\ m.t = "INVITE" => \A n \in Rest(e, m) : n.i = m.i => n.t # "INVITE"
               /\ m.t \in Finals => \A n \in Rest(e, m) : n.i = m.i => n.t \notin Provisionals
               /\ \A w \in Session, i \in Ids : w.role = e => Ctx(e, w, i, Rest(e, m))
<1>1. /\ IInv /\ TypeOK /\ Calls /\ e \in Ends /\ Peer(e) \in Ends /\ m \in net /\ m.to = e
  BY Peers DEF Got, IInv
<1>2. /\ inv[e] \in Session /\ inv[e].role = e /\ inv[e].out = {} /\ inv[Peer(e)] \in Session
      /\ m \in Message
  BY <1>1 DEF TypeOK
<1>3. Carried(m, inv[e], inv[Peer(e)]) /\ Closable(inv[e])
  BY <1>1 DEF Calls, IInv, Offers
<1>4. Rest(e, m) \subseteq net
  BY DEF Rest
<1>5. m.t = "INVITE" => \A n \in Rest(e, m) : n.i = m.i => n.t # "INVITE"
  BY <1>1 DEF Calls, Rest
<1>6. m.t \in Finals => \A n \in Rest(e, m) : n.i = m.i => n.t \notin Provisionals
  BY DEF Rest, Late, Finals, Provisionals
<1>7. inv[e].state \in 0..6
  BY <1>2, StateOrder DEF Session
<1>8. \A w \in Session, i \in Ids : w.role = e => Ctx(e, w, i, Rest(e, m))
  BY <1>1, <1>4 DEF Ctx
<1> QED BY <1>1, <1>2, <1>3, <1>4, <1>5, <1>6, <1>7, <1>8

(* Only an end whose caller has seen the answer gets a response to an      *)
(* INVITE that it has sent, or an INVITE at the caller.                    *)
LEMMA SeenLemma ==
    ASSUME NEW e, NEW m, Got(e, m)
    PROVE  /\ e = "uas" /\ m.t \in Provisionals \cup Finals => inv["uac"].state >= CONNECTING
           /\ e = "uas" /\ m.t = "ACK" => inv["uac"].state >= CONNECTING
           /\ e = "uac" /\ m.t = "INVITE" => inv["uac"].state >= CONNECTING
           /\ m.t \in Provisionals \cup Finals => inv[e].state # NULL
           /\ e = "uas" /\ m.t \in Provisionals \cup Finals => ~(inv[e].state < CONFIRMED)
<1>1. /\ Callers /\ m.to = e /\ m \in net /\ Carried(m, inv[e], inv[Peer(e)])
      /\ Fresh(inv[e]) /\ e \in Ends /\ Callee(inv["uas"])
  BY GotLemma DEF Got, IInv, Calls
<1>2. m.t \in Provisionals \cup Finals => inv[e].mine # {}
  BY <1>1 DEF Carried
<1>3. m.t = "INVITE" => inv[Peer(e)].mine # {}
  BY <1>1 DEF Carried
<1>4. e = "uac" => Peer(e) = "uas"
  BY DEF Peer
<1> QED BY <1>1, <1>2, <1>3, <1>4 DEF Callers, Fresh, Callee

(* A step that changes no transaction.                                     *)
LEMMA StillKeeps ==
    ASSUME IInv, NEW e \in Ends, NEW w, NEW rest \in SUBSET net,
           Core(inv[e], w), Settles(inv[e], w), Stepped(inv[e], w),
           w.state = NULL => w.neg = inv[e].neg,
           w.cause \in {inv[e].cause, 0, 406},
           \A n \in w.out : \/ n \in Chat(e)
                            \/ /\ n.to = Peer(e) /\ n.t \in Provisionals /\ n.i \in Ids
                               /\ n.i \in inv[Peer(e)].mine
                               /\ inv[e].tsx[n.i] = "proceeding",
           e = "uac" => \A n \in w.out : n.t = "ACK" => w.state >= CONNECTING,
           e = "uas" /\ ~(inv["uac"].state >= CONNECTING)
             => w.state # CONFIRMED /\ \A n \in w.out : n.t # "BYE"
    PROVE  Keeps(e, w, rest)
<1>1. /\ TypeOK /\ Calls /\ Callers /\ Closable(inv[e]) /\ inv[e] \in Session
      /\ inv[e].role = e
  BY DEF IInv, TypeOK, Offers
<1>2. /\ w \in Session /\ w.role = e /\ w.itsx = inv[e].itsx /\ w.tsx = inv[e].tsx
      /\ w.mine = inv[e].mine /\ w.lapsed = inv[e].lapsed
  BY <1>1 DEF Core
<1>3. 1 \in Ids
  BY InviteAssumption DEF Ids
<1>4. Ctx(e, w, 1, rest)
  BY <1>1, <1>2, <1>3 DEF Ctx
<1>5. Moves(e, w, 1, rest)
  BY <1>4, StillMoves
<1>6. inv[e].state <= w.state /\ (inv[e].state >= CONNECTING => w.state >= CONNECTING)
  BY <1>1, <1>2, SteppedLemma
<1>7. e = "uac" /\ w.tsx[1] \in {"accepted", "rejected", "over"} => w.state >= CONNECTING
  BY <1>1, <1>2, <1>3, <1>6 DEF Callers
<1>8. Watches(e, w)
  BY <1>2, <1>3, <1>7, WatchLemma
<1>9. Closable(w)
  BY <1>1, <1>2, <1>6, ClosableLemma
<1> QED BY <1>3, <1>5, <1>8, <1>9 DEF Keeps

(* What a session that has sent nothing yet may say.                       *)
LEMMA ChatSays ==
    ASSUME NEW v, NEW w, NEW T, Says(v, w, T), v.out = {}, T \subseteq {"ACK", "NACK", "BYE", "OK"}
    PROVE  w.out \subseteq Chat(v.role) /\ \A n \in w.out : n.t \in T
BY DEF Says, Chat, Out

(* A BYE is answered, and ends a session that has been answered.           *)
LEMMA OnByeKeeps ==
    ASSUME NEW e, NEW m, Got(e, m), NEW w \in OnBye(inv[e], m)
    PROVE  Keeps(e, w, Rest(e, m))
<1> DEFINE v == inv[e]
           o == Send(v, "OK", 0, 0)
<1>1. /\ IInv /\ e \in Ends /\ v \in Session /\ v.role = e /\ v.out = {}
      /\ v.state \in 0..6 /\ Rest(e, m) \in SUBSET net
  BY GotLemma
<1>2. "OK" \in MessageTypes /\ 0 \in 0..MaxInvites /\ 0 \in Nat
  BY InviteAssumption DEF MessageTypes
<1>3. /\ Core(v, o) /\ o.state = v.state /\ o.neg = v.neg /\ o.cause = v.cause
      /\ Says(v, o, {"OK"})
  BY <1>1, <1>2, SendLemma
<1>4. o \in Session
  BY <1>3 DEF Core
<1>5. /\ Core(o, Disconnect(o)) /\ Disconnect(o).state = DISCONNECTED
      /\ Disconnect(o).neg = o.neg /\ Disconnect(o).cause = 0 /\ Disconnect(o).out = o.out
  BY <1>4, DisconnectLemma
<1>6. w = v \/ w = o \/ w = Disconnect(o)
  BY DEF OnBye
<1> HIDE DEF o, v
<1>7. /\ Core(v, w) /\ Settles(v, w) /\ Says(v, w, {"OK"}) /\ w.cause \in {v.cause, 0, 406}
      /\ w.state = v.state \/ w.state = DISCONNECTED
  BY <1>1, <1>3, <1>5, <1>6 DEF Core, Settles, Says
<1>8. Stepped(v, w) /\ (w.state = CONFIRMED => v.state = CONFIRMED)
  BY <1>1, <1>7, StateOrder DEF Stepped
<1>8a. w.neg = v.neg
  BY <1>3, <1>5, <1>6
<1>9. w.out \subseteq Chat(e) /\ \A n \in w.out : n.t \in {"OK"}
  BY <1>1, <1>7, ChatSays
<1>10. e = "uas" /\ ~(inv["uac"].state >= CONNECTING) => v.state # CONFIRMED
  BY <1>1 DEF IInv, Callers, v
<1> QED BY <1>1, <1>7, <1>8, <1>8a, <1>9, <1>10, StillKeeps DEF v

(* The response to a BYE, or its absence, ends the session.                *)
LEMMA ByeResponseKeeps ==
    ASSUME IInv, NEW e \in Ends, NEW m, NEW w \in OnByeResponse(inv[e], m),
           NEW rest \in SUBSET net
    PROVE  Keeps(e, w, rest)
<1> DEFINE v == inv[e]
           o == [v EXCEPT !.bye = FALSE]
<1>1. v \in Session /\ v.role = e /\ v.out = {} /\ v.state \in 0..6
  BY StateOrder DEF IInv, TypeOK, Session
<1>3. /\ Core(v, o) /\ o.state = v.state /\ o.neg = v.neg /\ o.cause = v.cause
      /\ o.out = v.out
  <2>1. PICK b \in BOOLEAN : b = FALSE
    OBVIOUS
  <2>2. o = [v EXCEPT !.bye = b]
    BY <2>1
  <2> HIDE DEF o, v
  <2> QED BY <2>2, <1>1 DEF Core, Session
<1>4. o \in Session
  BY <1>3 DEF Core
<1>5. /\ Core(o, Disconnect(o)) /\ Disconnect(o).state = DISCONNECTED
      /\ Disconnect(o).neg = o.neg /\ Disconnect(o).cause = 0 /\ Disconnect(o).out = o.out
  BY <1>4, DisconnectLemma
<1>6. w = o \/ w = Disconnect(o)
  BY DEF OnByeResponse
<1> HIDE DEF o, v
<1>7. /\ Core(v, w) /\ Settles(v, w) /\ w.out = {} /\ w.cause \in {v.cause, 0, 406}
      /\ w.state = v.state \/ w.state = DISCONNECTED
  BY <1>1, <1>3, <1>5, <1>6 DEF Core, Settles
<1>8. Stepped(v, w) /\ (w.state = CONFIRMED => v.state = CONFIRMED)
  BY <1>1, <1>7, StateOrder DEF Stepped
<1>8a. w.neg = v.neg
  BY <1>3, <1>5, <1>6
<1>9. e = "uas" /\ ~(inv["uac"].state >= CONNECTING) => v.state # CONFIRMED
  BY <1>1 DEF IInv, Callers, v
<1> QED BY <1>7, <1>8, <1>8a, <1>9, StillKeeps DEF v

(* An INVITE that comes while another is pending, or too early or too late *)
(* for a re-INVITE.                                                        *)
LEMMA RejectKeeps ==
    ASSUME NEW e, NEW m, Got(e, m), m.t = "INVITE", inv[e].state # NULL,
           NEW t \in Rejections
    PROVE  Keeps(e, Reject(inv[e], m.i, t), Rest(e, m))
<1> DEFINE v == inv[e]
           p == inv[Peer(e)]
           i == m.i
           w == Reject(v, i, t)
<1>1. /\ IInv /\ e \in Ends /\ v \in Session /\ v.role = e /\ v.out = {}
      /\ p \in Session /\ Carried(m, v, p) /\ Closable(v) /\ v.state \in 0..6
      /\ Rest(e, m) \subseteq net
      /\ \A n \in Rest(e, m) : n.i = i => n.t # "INVITE"
      /\ \A u \in Session, j \in Ids : u.role = e => Ctx(e, u, j, Rest(e, m))
  BY GotLemma
<1>2. i \in p.mine /\ i \in Ids /\ v.tsx[i] = "none"
  BY <1>1 DEF Carried, Session
<1>4. v.state # NULL
  OBVIOUS
<1>4a. Owns(v)
  BY <1>1 DEF IInv, Calls
<1>4b. e = "uac" => v.state >= CONNECTING
  BY SeenLemma
<1>4c. e = "uas" /\ ~(inv["uac"].state >= CONNECTING) => v.state # CONFIRMED
  BY <1>1 DEF IInv, Callers
<1> HIDE DEF i, v, p
<1>3. /\ Goes(v, w, i, "rejected", v.itsx)
      /\ w.state = v.state /\ w.neg = v.neg /\ w.cause = v.cause /\ w.lapsed = v.lapsed
      /\ w.out = v.out \cup {[to |-> Peer(v.role), t |-> t, i |-> i, sdp |-> 0]}
  <2>1. v \in Session /\ i \in Ids
    BY <1>1, <1>2
  <2> QED BY <2>1, RejectLemma
<1> HIDE DEF w
<1>5. v.itsx # i
  BY <1>2, <1>4a DEF Owns
<1>6. w \in Session /\ w.role = e /\ w.mine = v.mine
  BY <1>1, <1>3 DEF Goes
<1>7. \A n \in w.out : n.to = Peer(e) /\ n.t = t /\ n.i = i
  BY <1>1, <1>3
<1>8. Stepped(v, w)
  BY <1>3 DEF Stepped
<1>9. Ctx(e, w, i, Rest(e, m))
  BY <1>1, <1>2, <1>6
<1>10. \A n \in w.out : n.t \in Finals /\ n.t # "ACK" /\ n.t # "BYE"
  BY <1>7 DEF Finals, Rejections
<1>11. Moves(e, w, i, Rest(e, m))
  BY <1>1, <1>2, <1>3, <1>4, <1>5, <1>7, <1>8, <1>9, <1>10, AnswerMoves DEF v, p
<1>12. w.tsx[i] = "rejected" /\ \A j \in Ids \ {i} : w.tsx[j] = v.tsx[j]
  BY <1>1, <1>2, <1>3 DEF Goes, Session
<1>13. Watches(e, w)
  <2>1. e = "uac" => w.state >= CONNECTING
    BY <1>3, <1>4b
  <2> QED BY <1>1, <1>2, <1>3, <1>4c, <1>6, <1>8, <1>10, <1>12, <2>1, WatchLemma DEF v
<1>14. Closable(w)
  <2>1. v.itsx \in 0..MaxInvites /\ w.itsx = v.itsx
    BY <1>1, <1>3 DEF Session, Goes
  <2>2. w.itsx # 0 => w.tsx[w.itsx] = v.tsx[v.itsx]
    BY <2>1, <1>5, <1>12 DEF Ids
  <2> QED BY <1>1, <1>3, <1>6, <2>1, <2>2, ClosableLemma DEF Settles
<1> QED BY <1>2, <1>11, <1>13, <1>14 DEF Keeps, v, w, i

(* A message that changes nothing.                                         *)
LEMMA SameKeeps ==
    ASSUME IInv, NEW e \in Ends, NEW rest \in SUBSET net
    PROVE  Keeps(e, inv[e], rest)
<1>1. inv[e] \in Session /\ inv[e].out = {} /\ inv[e].role = e
  BY DEF IInv, TypeOK
<1>2. Core(inv[e], inv[e]) /\ Settles(inv[e], inv[e]) /\ Stepped(inv[e], inv[e])
  BY <1>1 DEF Core, Settles, Stepped
<1>3. e = "uas" /\ ~(inv["uac"].state >= CONNECTING) => inv[e].state # CONFIRMED
  BY DEF IInv, Callers
<1> QED BY <1>1, <1>2, <1>3, StillKeeps

(* The ACK of a rejection ends the transaction at the end that rejected.   *)
LEMMA OnNackKeeps ==
    ASSUME NEW e, NEW m, Got(e, m), m.t = "NACK", NEW w \in OnNack(inv[e], m)
    PROVE  Keeps(e, w, Rest(e, m))
<1> DEFINE v == inv[e]
           p == inv[Peer(e)]
           i == m.i
<1>1. /\ IInv /\ e \in Ends /\ v \in Session /\ v.role = e /\ v.out = {}
      /\ Carried(m, v, p) /\ Closable(v) /\ v.state \in 0..6
      /\ Rest(e, m) \in SUBSET net
      /\ \A u \in Session, j \in Ids : u.role = e => Ctx(e, u, j, Rest(e, m))
  BY GotLemma
<1>2. i \in Ids
  BY <1>1 DEF Carried
<1>3. CASE v.tsx[i] # "rejected"
  <2>1. w = v
    BY <1>3 DEF OnNack
  <2> QED BY <1>1, <2>1, SameKeeps
<1>4. CASE v.tsx[i] = "rejected"
  <2>1. w = Over(v, i)
    BY <1>4 DEF OnNack
  <2>2. Callers
    BY <1>1 DEF IInv
  <2>3. e = "uac" => v.state >= CONNECTING
    BY <1>2, <1>4, <2>2 DEF Callers
  <2>4. e = "uas" /\ ~(inv["uac"].state >= CONNECTING) => v.state # CONFIRMED
    BY <2>2 DEF Callers
  <2>5. v \in Session /\ i \in Ids
    BY <1>1, <1>2
  <2> HIDE DEF i, v
  <2>6. /\ Goes(v, w, i, "over", IF v.itsx = i THEN 0 ELSE v.itsx)
        /\ w.state = v.state /\ w.neg = v.neg /\ w.cause = v.cause /\ w.lapsed = v.lapsed
        /\ w.out = v.out
    BY <2>1, <2>5, OverLemma
  <2>7. w \in Session /\ w.role = e /\ w.mine = v.mine /\ w.out = {}
    BY <1>1, <2>6 DEF Goes
  <2>8. Stepped(v, w)
    BY <2>6 DEF Stepped
  <2>9. Ctx(e, w, i, Rest(e, m))
    BY <1>1, <1>2, <2>7
  <2>10. Moves(e, w, i, Rest(e, m))
    BY <1>4, <2>6, <2>7, <2>8, <2>9, OverMoves DEF v
  <2>11. w.tsx[i] = "over" /\ \A j \in Ids \ {i} : w.tsx[j] = v.tsx[j]
    BY <2>5, <2>6 DEF Goes, Session
  <2>12. Watches(e, w)
    <3>1. e = "uac" => w.state >= CONNECTING
      BY <2>3, <2>6
    <3>2. w.state = v.state /\ w.cause = v.cause /\ w.lapsed = v.lapsed
      BY <2>6
    <3> QED BY <1>1, <1>2, <2>4, <2>7, <2>8, <2>11, <3>1, <3>2, WatchLemma DEF v
  <2>13. Closable(w)
    <3>1. w.itsx = (IF v.itsx = i THEN 0 ELSE v.itsx) /\ v.itsx \in 0..MaxInvites
      BY <2>5, <2>6 DEF Goes, Session
    <3>2. \/ w.itsx = v.itsx /\ (w.itsx # 0 /\ w.tsx[w.itsx] = "rejected"
                                 => v.tsx[v.itsx] = "rejected")
          \/ v.itsx = 0 \/ v.tsx[v.itsx] = "rejected"
      BY <3>1, <1>4, <2>11 DEF Ids
    <3> QED BY <1>1, <2>6, <2>7, <3>2, ClosableLemma DEF Settles
  <2> QED BY <1>2, <2>10, <2>12, <2>13 DEF Keeps
<1> QED BY <1>3, <1>4

(* A CANCEL has the pending INVITE answered with 487.                      *)
LEMMA OnCancelKeeps ==
    ASSUME NEW e, NEW m, Got(e, m), m.t = "CANCEL", NEW w \in OnCancel(inv[e], m)
    PROVE  Keeps(e, w, Rest(e, m))
<1> DEFINE v == inv[e]
           p == inv[Peer(e)]
           i == m.i
<1>1. /\ IInv /\ e \in Ends /\ v \in Session /\ v.role = e /\ v.out = {}
      /\ Carried(m, v, p) /\ Closable(v) /\ v.state \in 0..6
      /\ Rest(e, m) \in SUBSET net /\ m.to = e
      /\ \A u \in Session, j \in Ids : u.role = e => Ctx(e, u, j, Rest(e, m))
  BY GotLemma DEF Got
<1>2. i \in Ids /\ e = "uas"
  BY <1>1 DEF Carried, Provisionals, Finals, Rejections
<1>3. CASE ~(v.tsx[i] = "proceeding" /\ v.state \in {INCOMING, EARLY})
  <2>1. w = v
    BY <1>3 DEF OnCancel
  <2> QED BY <1>1, <2>1, SameKeeps
<1>4. CASE v.tsx[i] = "proceeding" /\ v.state \in {INCOMING, EARLY}
  <2> DEFINE r == Reject(v, i, "487")
  <2>1. w = Disconnect(r)
    BY <1>4 DEF OnCancel
  <2>2. Callers /\ Calls
    BY <1>1 DEF IInv
  <2>3. v \in Session /\ i \in Ids /\ "487" \in Rejections
    BY <1>1, <1>2 DEF Rejections
  <2>4. v.state # NULL /\ v.state < CONFIRMED /\ v.state <= DISCONNECTED /\ v.state # CONFIRMED
    BY <1>4, StateOrder
  <2>5. v.mine = {} /\ i \in p.mine /\ v.itsx = i
    <3>1. v.mine = {}
      BY <1>2, <2>2, <2>4 DEF Calls, Callee
    <3>2. v.itsx = i /\ i \in Used
      BY <1>1, <1>2, <1>4, <2>2 DEF Calls, Owns, Open
    <3>3. Used = v.mine \cup p.mine
      BY <1>2 DEF Used, Peer
    <3> QED BY <3>1, <3>2, <3>3
  <2>6. \A n \in Rest(e, m) : n.i = i => n.t # "INVITE"
    <3> SUFFICES ASSUME NEW n \in net, n.i = i, n.t = "INVITE" PROVE FALSE
      BY <1>1
    <3>1. Carried(n, inv[n.to], inv[Peer(n.to)]) /\ n \in Message
      BY <1>1, <2>2 DEF Calls, IInv, TypeOK
    <3>2. CASE n.to = e
      BY <3>1, <3>2, <1>4 DEF Carried
    <3>3. CASE n.to = Peer(e)
      <4>1. i \in inv[Peer(n.to)].mine
        BY <3>1 DEF Carried
      <4> QED BY <4>1, <3>3, <1>1, <2>5, Peers
    <3> QED BY <3>1, <3>2, <3>3, <1>1 DEF Message, Ends, Peer
  <2> HIDE DEF i, v, p
  <2>7. /\ Goes(v, r, i, "rejected", v.itsx)
        /\ r.state = v.state /\ r.neg = v.neg /\ r.cause = v.cause /\ r.lapsed = v.lapsed
        /\ r.out = v.out \cup {[to |-> Peer(v.role), t |-> "487", i |-> i, sdp |-> 0]}
    BY <2>3, RejectLemma
  <2> HIDE DEF r
  <2>8. r \in Session
    BY <2>7 DEF Goes
  <2>9. /\ Core(r, w) /\ w.state = DISCONNECTED /\ w.neg = r.neg /\ w.cause = 0
        /\ w.out = r.out
    BY <2>1, <2>8, DisconnectLemma
  <2>10. /\ Goes(v, w, i, "rejected", i) /\ w.state = DISCONNECTED /\ w.neg = v.neg
         /\ w.lapsed = v.lapsed /\ w.cause = 0
         /\ \A n \in w.out : n.to = Peer(e) /\ n.t = "487" /\ n.i = i
    BY <1>1, <2>5, <2>7, <2>9 DEF Goes, Core
  <2>11. w \in Session /\ w.role = e /\ w.mine = v.mine
    BY <1>1, <2>10 DEF Goes
  <2>12. Stepped(v, w) /\ w.state \notin {INCOMING, EARLY} /\ w.state # CONFIRMED
    BY <2>4, <2>10, StateOrder DEF Stepped
  <2>13. Ctx(e, w, i, Rest(e, m))
    BY <1>1, <1>2, <2>11
  <2>14. \A n \in w.out : n.t \in Finals /\ n.t # "ACK" /\ n.t # "BYE"
    BY <2>10 DEF Finals, Rejections
  <2>15. Moves(e, w, i, Rest(e, m))
    BY <2>4, <2>5, <2>6, <2>10, <2>12, <2>13, <2>14, AnswerMoves DEF v, p
  <2>16. \A j \in Ids \ {i} : w.tsx[j] = v.tsx[j]
    BY <2>3, <2>10 DEF Goes, Session
  <2>17. Watches(e, w)
    BY <1>1, <1>2, <2>10, <2>11, <2>12, <2>14, <2>16, WatchLemma DEF v
  <2>18. Closable(w)
    BY <1>1, <2>4, <2>10, <2>11, ClosableLemma DEF Settles
  <2> QED BY <1>2, <2>15, <2>17, <2>18 DEF Keeps
<1> QED BY <1>3, <1>4

(* The first INVITE makes the callee's session.                            *)
LEMMA OnInviteKeeps ==
    ASSUME NEW e, NEW m, Got(e, m), m.t = "INVITE", inv[e].state = NULL,
           NEW w \in OnInvite(inv[e], m)
    PROVE  Keeps(e, w, Rest(e, m))
<1> DEFINE v == inv[e]
           p == inv[Peer(e)]
           i == m.i
           n1 == IF m.sdp = 0 THEN v.neg ELSE RemoteOffer(v.neg, m.sdp)
           x == [v EXCEPT !.state = INCOMING, !.itsx = i, !.tsx[i] = "proceeding", !.neg = n1]
<1>1. /\ IInv /\ e \in Ends /\ v \in Session /\ v.role = e /\ v.out = {}
      /\ Carried(m, v, p) /\ Closable(v) /\ p \in Session /\ m \in Message
      /\ Rest(e, m) \in SUBSET net
      /\ \A n \in Rest(e, m) : n.i = i => n.t # "INVITE"
      /\ \A u \in Session, j \in Ids : u.role = e => Ctx(e, u, j, Rest(e, m))
  BY GotLemma
<1>2. i \in Ids /\ i \in p.mine /\ p.tsx[i] \in Open /\ i \in 0..MaxInvites
  BY <1>1 DEF Carried, Session, Message
<1>3. e = "uas" /\ v.state = NULL
  <2>1. e = "uac" => inv["uac"].state >= CONNECTING
    BY SeenLemma
  <2> QED BY <1>1, <2>1, StateOrder DEF Ends
<1>4. n1 \in Neg /\ (n1 = v.neg \/ n1.st = "REMOTE_OFFER")
  <2>1. v.neg \in Neg /\ m.sdp \in Nat
    BY <1>1 DEF Session, Message
  <2>2. PICK n \in Neg, o \in Nat : n = v.neg /\ o = m.sdp
    BY <2>1
  <2>3. RemoteOffer(n, o) \in Neg /\ RemoteOffer(n, o).st = "REMOTE_OFFER"
    BY NegLemma
  <2> QED BY <2>2, <2>3
<1>5. w = Send(x, "100", i, 0)
  BY DEF OnInvite
<1>6. v \in Session
  BY <1>1
<1>6a. v.cause = v.cause /\ (Codes \cap Passing = {} => (v.cause \in Passing => v.lapsed)) /\ v.mine = {}
  BY <1>1, <1>3 DEF IInv, Callers, Calls, Fresh
<1> HIDE DEF i, n1, v, p
<1>7. /\ Goes(v, x, i, "proceeding", i) /\ x.state = INCOMING /\ x.neg = n1
      /\ x.cause = v.cause /\ x.lapsed = v.lapsed /\ x.out = v.out
  <2>1. PICK r \in [Ids -> TsxStates] : r = [v.tsx EXCEPT ![i] = "proceeding"]
    BY <1>2, <1>6 DEF Session, TsxStates
  <2>2. PICK d \in NULL..DISCONNECTED : d = INCOMING
    BY StateOrder
  <2>3. x = [v EXCEPT !.state = d, !.itsx = i, !.tsx = r, !.neg = n1]
    BY <2>1, <2>2, <1>6 DEF Session
  <2> HIDE DEF x
  <2>4. x \in Session
    BY <2>3, <1>2, <1>4, <1>6 DEF Session
  <2> QED BY <2>1, <2>2, <2>3, <2>4, <1>6 DEF Goes, Session
<1>8. /\ "100" \in MessageTypes /\ x \in Session /\ 0 \in Nat /\ i \in 0..MaxInvites
      /\ i \in Ids
  BY <1>2, <1>7 DEF Goes, MessageTypes, Provisionals
<1> HIDE DEF x
<1>9. /\ Core(x, w) /\ w.state = x.state /\ w.neg = x.neg /\ w.cause = x.cause
      /\ w.out = x.out \cup {[to |-> Peer(x.role), t |-> "100", i |-> i, sdp |-> 0]}
  <2>1. LET y == Send(x, "100", i, 0)
        IN  /\ Core(x, y) /\ y.state = x.state /\ y.neg = x.neg /\ y.cause = x.cause
            /\ y.out = x.out \cup {[to |-> Peer(x.role), t |-> "100", i |-> i, sdp |-> 0]}
            /\ Says(x, y, {"100"})
    BY <1>8, SendLemma
  <2> QED BY <1>5, <2>1
<1>10. /\ Goes(v, w, i, "proceeding", i) /\ w.state = INCOMING /\ w.neg = n1
       /\ w.cause = v.cause /\ w.lapsed = v.lapsed
       /\ \A n \in w.out : n.to = Peer(e) /\ n.t = "100" /\ n.i = i
  BY <1>1, <1>7, <1>9 DEF Goes, Core
<1>11. w \in Session /\ w.role = e /\ w.mine = v.mine
  BY <1>1, <1>10 DEF Goes
<1>12. Ctx(e, w, i, Rest(e, m))
  BY <1>1, <1>2, <1>11
<1>13. \A n \in w.out : n.to = Peer(e) /\ n.t \in Provisionals /\ n.i = i /\ n.t # "BYE"
  BY <1>10 DEF Provisionals
<1>14. Moves(e, w, i, Rest(e, m))
  BY <1>1, <1>2, <1>3, <1>10, <1>12, <1>13, ServeMoves DEF v, p
<1>15. Watches(e, w)
  BY <1>3, <1>6a, <1>10, <1>11, <1>13, StateOrder DEF Watches, v
<1>16. Closable(w)
  <2>1. v.state <= w.state /\ v.state # CONFIRMED /\ w.state # NULL
    BY <1>3, <1>10, StateOrder
  <2>2. Settles(v, w)
    BY <1>4, <1>10 DEF Settles
  <2> QED BY <1>1, <1>10, <1>11, <2>1, <2>2, ClosableLemma
<1> QED BY <1>2, <1>14, <1>15, <1>16 DEF Keeps

(* Updates of one field.                                                   *)
LEMMA ProceedLemma ==
    ASSUME NEW v \in Session, NEW i \in Ids
    PROVE  LET w == [v EXCEPT !.tsx[i] = "proceeding"]
           IN  /\ Goes(v, w, i, "proceeding", v.itsx) /\ w.state = v.state /\ w.neg = v.neg
               /\ w.cause = v.cause /\ w.lapsed = v.lapsed /\ w.out = v.out
<1>1. PICK r \in [Ids -> TsxStates] : r = [v.tsx EXCEPT ![i] = "proceeding"]
  BY DEF Session, TsxStates
<1>2. [v EXCEPT !.tsx[i] = "proceeding"] = [v EXCEPT !.tsx = r]
  BY <1>1 DEF Session
<1> QED BY <1>1, <1>2 DEF Goes, Session

(* The mark of a CANCEL that waits is not part of anything proved here.    *)
LEMMA PendingCancelLemma ==
    ASSUME NEW v \in Session
    PROVE  LET w == [v EXCEPT !.pending_cancel = FALSE]
           IN  /\ Core(v, w) /\ w.state = v.state /\ w.neg = v.neg
               /\ w.cause = v.cause /\ w.out = v.out
<1>1. PICK b \in BOOLEAN : b = FALSE
  OBVIOUS
<1>2. [v EXCEPT !.pending_cancel = FALSE] = [v EXCEPT !.pending_cancel = b]
  BY <1>1
<1> QED BY <1>2 DEF Core, Session

(* inv_set_state() changes the state only.                                 *)
LEMMA StateLemma ==
    ASSUME NEW v \in Session, NEW d \in 0..6
    PROVE  LET w == [v EXCEPT !.state = d]
           IN  /\ Core(v, w) /\ w.state = d /\ w.neg = v.neg /\ w.cause = v.cause
               /\ w.out = v.out
BY StateOrder DEF Core, Session

(* A negotiator that is replaced changes nothing else.                     *)
LEMMA NegFieldLemma ==
    ASSUME NEW v \in Session, NEW n \in Neg
    PROVE  LET w == [v EXCEPT !.neg = n]
           IN  /\ Core(v, w) /\ w.state = v.state /\ w.neg = n /\ w.cause = v.cause
               /\ w.out = v.out
BY DEF Core, Session

(* A provisional response, which may let a CANCEL go that was waiting.     *)
LEMMA OnProvisionalKeeps ==
    ASSUME NEW e, NEW m, Got(e, m), m.t \in Provisionals, NEW w \in OnProvisional(inv[e], m)
    PROVE  Keeps(e, w, Rest(e, m))
<1> DEFINE v == inv[e]
           i == m.i
           q == [v EXCEPT !.tsx[i] = "proceeding"]
           h == [q EXCEPT !.pending_cancel = FALSE]
           c == IF v.state = CALLING /\ v.pending_cancel THEN Cancel(h) ELSE q
           y == [c EXCEPT !.state = EARLY]
<1>1. /\ IInv /\ e \in Ends /\ v \in Session /\ v.role = e /\ v.out = {}
      /\ Carried(m, v, inv[Peer(e)]) /\ Closable(v) /\ m \in Message /\ v.state \in 0..6
      /\ Rest(e, m) \in SUBSET net
      /\ \A u \in Session, j \in Ids : u.role = e => Ctx(e, u, j, Rest(e, m))
  BY GotLemma
<1>2. i \in v.mine /\ i \in Ids /\ v.tsx[i] \in Open
  BY <1>1 DEF Carried, Session
<1>3. Owns(v) /\ (e = "uas" => Callee(v)) /\ Callers
  BY <1>1 DEF IInv, Calls
<1>4. v.itsx = i /\ v.itsx # 0
  BY <1>2, <1>3 DEF Owns, Ids
<1>5. v.state = CALLING => e = "uac"
  BY <1>1, <1>3 DEF Callee, Ends
<1>6. e = "uas" => inv["uac"].state >= CONNECTING
  BY SeenLemma
<1>7. w \in (IF v.state \in {CALLING, EARLY} /\ m.t = "18x" THEN CheckSdp(y, m) ELSE {c})
  BY DEF OnProvisional
<1>8. v \in Session /\ i \in Ids
  BY <1>1, <1>2
<1> HIDE DEF v, i
<1>9. /\ Goes(v, q, i, "proceeding", v.itsx) /\ q.state = v.state /\ q.neg = v.neg
      /\ q.cause = v.cause /\ q.lapsed = v.lapsed /\ q.out = v.out
  BY <1>8, ProceedLemma
<1>9a. q \in Session
  BY <1>9 DEF Goes
<1> HIDE DEF q
<1>10. /\ Core(q, h) /\ h.state = q.state /\ h.neg = q.neg /\ h.cause = q.cause
       /\ h.out = q.out
  BY <1>9a, PendingCancelLemma
<1>10a. h \in Session /\ h.itsx # 0
  BY <1>4, <1>9, <1>10 DEF Core, Goes
<1> HIDE DEF h
<1>11. /\ Core(h, Cancel(h)) /\ Cancel(h).state = h.state /\ Cancel(h).neg = h.neg
       /\ Cancel(h).cause = h.cause /\ Says(h, Cancel(h), {"CANCEL"})
  BY <1>10a, CancelLemma
<1>12. /\ Goes(v, c, i, "proceeding", v.itsx) /\ c.state = v.state /\ c.neg = v.neg
       /\ c.cause = v.cause /\ c.lapsed = v.lapsed
       /\ c.out \subseteq Chat(e) /\ \A n \in c.out : n.t = "CANCEL"
  <2>1. CASE v.state = CALLING /\ v.pending_cancel
    <3>1. c = Cancel(h) /\ e = "uac"
      BY <2>1, <1>5
    <3>2. c.out \subseteq Out(e, {"CANCEL"})
      BY <1>1, <1>9, <1>10, <1>11, <3>1 DEF Core, Goes, Says
    <3>3. c.out \subseteq Chat(e) /\ \A n \in c.out : n.t = "CANCEL"
      BY <3>1, <3>2 DEF Chat, Out
    <3> QED BY <1>9, <1>10, <1>11, <3>1, <3>3 DEF Core, Goes
  <2>2. CASE ~(v.state = CALLING /\ v.pending_cancel)
    <3>1. c = q
      BY <2>2
    <3> QED BY <3>1, <1>1, <1>9
  <2> QED BY <2>1, <2>2
<1>13. c \in Session
  BY <1>12 DEF Goes
<1> HIDE DEF c
<1>14. /\ Core(c, y) /\ y.state = EARLY /\ y.neg = c.neg /\ y.cause = c.cause
       /\ y.out = c.out
  <2>1. EARLY \in 0..6
    BY StateOrder
  <2> QED BY <1>13, <2>1, StateLemma
<1> HIDE DEF y
<1>15. /\ Goes(v, w, i, "proceeding", v.itsx) /\ w.cause = v.cause /\ w.lapsed = v.lapsed
       /\ w.out = c.out /\ Settles(v, w)
       /\ w.state = v.state \/ (v.state \in {CALLING, EARLY} /\ w.state = EARLY)
  <2>1. CASE v.state \in {CALLING, EARLY} /\ m.t = "18x"
    <3>1. w \in CheckSdp(y, m) /\ y \in Session
      BY <2>1, <1>7, <1>14 DEF Core
    <3>2. Negotiates(y, w) /\ Settles(y, w)
      BY <1>1, <3>1, CheckSdpLemma
    <3> QED BY <2>1, <3>2, <1>12, <1>14 DEF Negotiates, Core, Goes, Settles
  <2>2. CASE ~(v.state \in {CALLING, EARLY} /\ m.t = "18x")
    <3>1. w = c
      BY <2>2, <1>7
    <3> QED BY <3>1, <1>12 DEF Settles
  <2> QED BY <2>1, <2>2
<1>16. w \in Session /\ w.role = e /\ w.mine = v.mine /\ w.itsx = v.itsx
  BY <1>1, <1>15 DEF Goes
<1>17. Stepped(v, w)
  BY <1>1, <1>5, <1>15 DEF Stepped
<1>18. w.out \subseteq Chat(e) /\ \A n \in w.out : n.t # "ACK" /\ n.t # "BYE"
  BY <1>12, <1>15
<1>19. Ctx(e, w, i, Rest(e, m))
  BY <1>1, <1>2, <1>16
<1>20. Moves(e, w, i, Rest(e, m))
  BY <1>2, <1>15, <1>17, <1>18, <1>19, ProgressMoves DEF v
<1>21. w.tsx[i] = "proceeding" /\ \A j \in Ids \ {i} : w.tsx[j] = v.tsx[j]
  BY <1>8, <1>15 DEF Goes, Session
<1>22. Watches(e, w)
  BY <1>1, <1>2, <1>6, <1>15, <1>16, <1>17, <1>18, <1>21, WatchLemma DEF v
<1>23. Closable(w)
  <2>1. v.state <= w.state /\ w.state # NULL
    <3>1. v.state # NULL
      BY SeenLemma DEF v
    <3> QED BY <1>8, <1>16, <1>17, <3>1, SteppedLemma
  <2>2. w.itsx # 0 /\ w.tsx[w.itsx] = "proceeding"
    BY <1>4, <1>16, <1>21
  <2> QED BY <1>1, <1>15, <1>16, <2>1, <2>2, ClosableLemma
<1> QED BY <1>2, <1>20, <1>22, <1>23 DEF Keeps

(* An INVITE of this end has its final response, and its transaction is    *)
(* over.                                                                   *)
LEMMA FinalKeeps ==
    ASSUME NEW e, NEW m, Got(e, m), m.t \in Finals, NEW w,
           Goes(inv[e], w, m.i, "over", IF inv[e].itsx = m.i THEN 0 ELSE inv[e].itsx),
           Stepped(inv[e], w), w.state >= CONNECTING, Settles(inv[e], w),
           w.cause \in {inv[e].cause, 0, 406}, w.lapsed = inv[e].lapsed,
           w.out \subseteq Chat(e),
           inv[e].state = CONFIRMED /\ w.state = CONFIRMED => w.neg.st # "LOCAL_OFFER"
    PROVE  Keeps(e, w, Rest(e, m))
<1> DEFINE v == inv[e]
           p == inv[Peer(e)]
           i == m.i
<1>1. /\ IInv /\ e \in Ends /\ v \in Session /\ v.role = e
      /\ Carried(m, v, p) /\ Closable(v)
      /\ Rest(e, m) \in SUBSET net
      /\ \A n \in Rest(e, m) : n.i = i => n.t \notin Provisionals
      /\ \A u \in Session, j \in Ids : u.role = e => Ctx(e, u, j, Rest(e, m))
  BY GotLemma
<1>2. i \in v.mine /\ i \in Ids /\ p.tsx[i] \notin {"none", "proceeding"}
  BY <1>1 DEF Carried, Session
<1>3. e = "uas" => inv["uac"].state >= CONNECTING
  BY SeenLemma
<1>4. w \in Session /\ w.role = e /\ w.mine = v.mine
  BY <1>1 DEF Goes
<1>5. Ctx(e, w, i, Rest(e, m))
  BY <1>1, <1>2, <1>4
<1>6. Moves(e, w, i, Rest(e, m))
  BY <1>1, <1>2, <1>5, OverMoves
<1>7. w.tsx[i] = "over" /\ \A j \in Ids \ {i} : w.tsx[j] = v.tsx[j]
  BY <1>1, <1>2 DEF Goes, Session
<1>8. Watches(e, w)
  BY <1>1, <1>2, <1>3, <1>4, <1>7, WatchLemma
<1>9. Closable(w)
  <2>1. v.state <= w.state /\ w.state # NULL
    BY <1>1, <1>4, SteppedLemma, StateOrder
  <2> QED BY <1>1, <1>4, <2>1, ClosableLemma
<1> QED BY <1>2, <1>6, <1>8, <1>9 DEF Keeps

(* The 200 is acknowledged, and the transaction is over.                   *)
LEMMA AcknowledgedKeeps ==
    ASSUME NEW e, NEW m, Got(e, m), m.t = "200", NEW u \in Session,
           Core(inv[e], u), Settles(inv[e], u), u.out = {}, u.cause = inv[e].cause,
           \/ u.state = inv[e].state /\ u.neg.st # "LOCAL_OFFER"
           \/ inv[e].state \in {CALLING, EARLY},
           u.state \in {CONNECTING, CONFIRMED}
    PROVE  Keeps(e, Over(SendAck(u, m.i), m.i), Rest(e, m))
<1> DEFINE v == inv[e]
           i == m.i
           s == SendAck(u, i)
           w == Over(s, i)
<1>1. v \in Session /\ v.role = e /\ Carried(m, v, inv[Peer(e)]) /\ v.state \in 0..6 /\ e \in Ends
  BY GotLemma
<1>2. i \in Ids /\ m.t \in Finals
  BY <1>1 DEF Carried, Finals, Provisionals
<1> HIDE DEF i
<1>3. /\ Core(u, s) /\ Settles(u, s) /\ Says(u, s, {"ACK", "BYE"})
      /\ s.cause \in {u.cause, 406}
      /\ s.state = u.state \/ (u.state < CONFIRMED /\ s.state = CONFIRMED)
  BY <1>2, SendAckLemma
<1>4. s \in Session
  BY <1>3 DEF Core
<1> HIDE DEF s
<1>5. /\ Goes(s, w, i, "over", IF s.itsx = i THEN 0 ELSE s.itsx)
      /\ w.state = s.state /\ w.neg = s.neg /\ w.cause = s.cause /\ w.lapsed = s.lapsed
      /\ w.out = s.out
  BY <1>2, <1>4, OverLemma
<1> HIDE DEF w, v
<1>6. /\ Goes(v, w, i, "over", IF v.itsx = i THEN 0 ELSE v.itsx)
      /\ w.lapsed = v.lapsed
  BY <1>3, <1>5 DEF Core, Goes, v
<1>7. Settles(v, w) /\ w.cause \in {v.cause, 0, 406}
  BY <1>3, <1>5 DEF Settles, v
<1>8. w.state >= CONNECTING /\ w.state \in {CONNECTING, CONFIRMED}
  BY <1>3, <1>5, StateOrder
<1>9. Stepped(v, w)
  BY <1>1, <1>3, <1>5, <1>8, StateOrder DEF Stepped, v
<1>10. w.out \subseteq Chat(e)
  <2>1. s.out \subseteq Chat(u.role)
    BY <1>3, ChatSays
  <2>2. u.role = e
    BY <1>1 DEF Core, v
  <2> QED BY <1>5, <2>1, <2>2
<1>11. v.state = CONFIRMED /\ w.state = CONFIRMED => w.neg.st # "LOCAL_OFFER"
  BY <1>3, <1>5, StateOrder DEF Settles, v
<1> QED BY <1>2, <1>6, <1>7, <1>8, <1>9, <1>10, <1>11, FinalKeeps DEF v, i, w, s

(* A 200 closes the offer and is acknowledged; one that comes again is     *)
(* acknowledged again.                                                     *)
LEMMA OnAcceptedKeeps ==
    ASSUME NEW e, NEW m, Got(e, m), m.t = "200", NEW w \in OnAccepted(inv[e], m)
    PROVE  Keeps(e, w, Rest(e, m))
<1> DEFINE v == inv[e]
           i == m.i
<1>1. /\ IInv /\ e \in Ends /\ v \in Session /\ v.role = e /\ v.out = {}
      /\ Carried(m, v, inv[Peer(e)]) /\ m \in Message /\ v.state \in 0..6
      /\ Rest(e, m) \in SUBSET net
  BY GotLemma
<1>2. i \in v.mine /\ i \in Ids /\ m.t \in Finals
  BY <1>1 DEF Carried, Finals, Provisionals, Session
<1>3. Callers /\ v.state # NULL /\ (e = "uas" => ~(v.state < CONFIRMED))
      /\ (e = "uas" => inv["uac"].state >= CONNECTING)
  BY <1>2, SeenLemma, <1>1 DEF IInv
<1>4. e = "uac" => v.state # INCOMING
  BY <1>3 DEF Callers
<1>5. v.state # INCOMING
  BY <1>1, <1>3, <1>4, StateOrder DEF Ends
<1>6. CASE v.tsx[i] = "over"
  <2>1. w = v \/ w = SendAck(v, i)
    BY <1>6 DEF OnAccepted
  <2>2. CASE w = v
    BY <1>1, <2>2, SameKeeps
  <2>3. CASE w = SendAck(v, i)
    <3>1. v.state >= CONNECTING
      <4>1. e = "uac" => v.state >= CONNECTING
        BY <1>2, <1>3, <1>6 DEF Callers
      <4> QED BY <1>1, <1>3, <4>1, StateOrder DEF Ends
    <3>2. v \in Session /\ i \in Ids
      BY <1>1, <1>2
    <3> HIDE DEF v, i
    <3>3. /\ Core(v, w) /\ Settles(v, w) /\ Says(v, w, {"ACK", "BYE"})
          /\ w.cause \in {v.cause, 406}
          /\ w.state = v.state \/ (v.state < CONFIRMED /\ w.state = CONFIRMED)
      BY <2>3, <3>2, SendAckLemma
    <3>4. w.state >= CONNECTING /\ Stepped(v, w) /\ w.state # NULL
      BY <1>1, <3>1, <3>3, StateOrder DEF Stepped
    <3>5. w.out \subseteq Chat(e)
      BY <1>1, <3>3, ChatSays
    <3> QED BY <1>1, <1>3, <3>3, <3>4, <3>5, StillKeeps DEF v
  <2> QED BY <2>1, <2>2, <2>3
<1>7. CASE v.tsx[i] # "over" /\ v.state \in {CALLING, EARLY}
  <2> DEFINE x == [v EXCEPT !.state = CONNECTING]
  <2>1. PICK u \in CheckSdp(x, m) : w = Over(SendAck(u, i), i)
    <3>1. v.state # CONFIRMED
      BY <1>7, StateOrder
    <3> QED BY <1>7, <3>1 DEF OnAccepted
  <2>2. /\ Core(v, x) /\ x.state = CONNECTING /\ x.neg = v.neg /\ x.cause = v.cause
        /\ x.out = v.out
    <3>1. CONNECTING \in 0..6
      BY StateOrder
    <3> QED BY <1>1, <3>1, StateLemma
  <2> HIDE DEF x
  <2>3. Negotiates(x, u) /\ Settles(x, u)
    BY <1>1, <2>2, CheckSdpLemma DEF Core
  <2>4. /\ u \in Session /\ Core(v, u) /\ Settles(v, u) /\ u.out = {} /\ u.cause = v.cause
        /\ u.state = CONNECTING
    BY <1>1, <2>2, <2>3 DEF Core, Negotiates, Settles
  <2> QED BY <1>7, <2>1, <2>4, AcknowledgedKeeps
<1>8. CASE v.tsx[i] # "over" /\ v.state = CONFIRMED
  <2> DEFINE C(u) == IF u.neg.st = "LOCAL_OFFER" THEN [u EXCEPT !.neg = CancelOffer(u.neg)] ELSE u
  <2>1. PICK u \in CheckSdp(v, m) : w = Over(SendAck(C(u), i), i)
    <3>1. v.state \notin {CALLING, EARLY}
      BY <1>8, StateOrder
    <3> QED BY <1>8, <3>1 DEF OnAccepted
  <2>2. Negotiates(v, u) /\ Settles(v, u)
    BY <1>1, CheckSdpLemma
  <2>3. /\ C(u) \in Session /\ Core(u, C(u)) /\ Settles(u, C(u)) /\ C(u).out = u.out
        /\ C(u).cause = u.cause /\ C(u).state = u.state /\ C(u).neg.st # "LOCAL_OFFER"
    <3>1. u \in Session /\ u.neg \in Neg
      BY <2>2 DEF Negotiates, Core, Session
    <3>2. CASE u.neg.st = "LOCAL_OFFER"
      <4>1. PICK n \in Neg : n = CancelOffer(u.neg) /\ n.st = "DONE"
        BY <3>1, <3>2, NegLemma, 0 \in Nat
      <4>2. C(u) = [u EXCEPT !.neg = n]
        BY <3>2, <4>1
      <4> HIDE DEF C
      <4> QED BY <3>1, <4>1, <4>2, NegFieldLemma DEF Core, Settles
    <3>3. CASE u.neg.st # "LOCAL_OFFER"
      BY <3>1, <3>3 DEF Core, Settles
    <3> QED BY <3>2, <3>3
  <2> HIDE DEF C
  <2>4. /\ Core(v, C(u)) /\ Settles(v, C(u)) /\ C(u).out = {}
        /\ C(u).cause = v.cause /\ C(u).state = v.state
    BY <1>1, <2>2, <2>3 DEF Core, Negotiates, Settles
  <2> QED BY <1>8, <2>1, <2>3, <2>4, AcknowledgedKeeps
<1>9. CASE v.tsx[i] # "over" /\ v.state \notin {CALLING, EARLY, CONFIRMED}
  <2>1. w = Over(v, i)
    BY <1>9 DEF OnAccepted
  <2>2. v.state >= CONNECTING /\ v.state # CONFIRMED
    BY <1>1, <1>3, <1>5, <1>9, StateOrder
  <2>3. v \in Session /\ i \in Ids
    BY <1>1, <1>2
  <2> HIDE DEF v, i
  <2>4. /\ Goes(v, w, i, "over", IF v.itsx = i THEN 0 ELSE v.itsx)
        /\ w.state = v.state /\ w.neg = v.neg /\ w.cause = v.cause /\ w.lapsed = v.lapsed
        /\ w.out = v.out
    BY <2>1, <2>3, OverLemma
  <2>5. Stepped(v, w) /\ Settles(v, w) /\ w.out \subseteq Chat(e) /\ w.state >= CONNECTING
    BY <1>1, <2>2, <2>4 DEF Stepped, Settles
  <2> QED BY <1>2, <2>2, <2>4, <2>5, FinalKeeps DEF v, i
<1> QED BY <1>6, <1>7, <1>8, <1>9

(* A rejection ends the INVITE and a session that was not established; in  *)
(* an established one the offer is withdrawn.                              *)
LEMMA OnRejectedKeeps ==
    ASSUME NEW e, NEW m, Got(e, m), m.t \in Rejections, NEW w \in OnRejected(inv[e], m)
    PROVE  Keeps(e, w, Rest(e, m))
<1> DEFINE v == inv[e]
           i == m.i
           r == Over(v, i)
           o == Send(r, "NACK", i, 0)
<1>1. /\ IInv /\ e \in Ends /\ v \in Session /\ v.role = e /\ v.out = {}
      /\ Carried(m, v, inv[Peer(e)]) /\ v.state \in 0..6
  BY GotLemma
<1>2. i \in Ids /\ m.t \in Finals
  BY <1>1 DEF Carried, Finals, Provisionals, Rejections
<1>3. \/ v.state < CONFIRMED /\ w = Disconnect(o)
      \/ v.state = CONFIRMED /\ w = SendBye(Disconnect(o))
      \/ v.state = CONFIRMED /\ o.neg.st = "LOCAL_OFFER"
         /\ w = [o EXCEPT !.neg = CancelOffer(o.neg)]
      \/ v.state = CONFIRMED /\ o.neg.st # "LOCAL_OFFER" /\ w = o
      \/ ~(v.state < CONFIRMED) /\ v.state # CONFIRMED /\ w = o
  <2>1. CASE v.state < CONFIRMED
    BY <2>1 DEF OnRejected
  <2>2. CASE ~(v.state < CONFIRMED) /\ v.state = CONFIRMED
    BY <2>2 DEF OnRejected
  <2>3. CASE ~(v.state < CONFIRMED) /\ v.state # CONFIRMED
    BY <2>3 DEF OnRejected
  <2> QED BY <2>1, <2>2, <2>3
<1>4. v \in Session /\ i \in Ids /\ i \in 0..MaxInvites
  BY <1>1, <1>2, InviteAssumption DEF Ids
<1> HIDE DEF v, i
<1>5. /\ Goes(v, r, i, "over", IF v.itsx = i THEN 0 ELSE v.itsx)
      /\ r.state = v.state /\ r.neg = v.neg /\ r.cause = v.cause /\ r.lapsed = v.lapsed
      /\ r.out = v.out
  BY <1>4, OverLemma
<1>6. /\ r \in Session /\ "NACK" \in MessageTypes /\ "NACK" \notin {"BYE", "OK"} /\ 0 \in Nat
      /\ i \in Ids /\ i \in 0..MaxInvites
  BY <1>4, <1>5 DEF Goes, MessageTypes, Requests
<1> HIDE DEF r
<1>7. /\ Core(r, o) /\ o.state = r.state /\ o.neg = r.neg /\ o.cause = r.cause
      /\ o.out = r.out \cup {[to |-> Peer(r.role), t |-> "NACK", i |-> i, sdp |-> 0]}
      /\ Says(r, o, {"NACK"})
  BY <1>6, SendLemma
<1>8. o \in Session /\ o.neg \in Neg
  BY <1>7 DEF Core, Session
<1> HIDE DEF o
<1>9. /\ Core(o, Disconnect(o)) /\ Disconnect(o).state = DISCONNECTED
      /\ Disconnect(o).neg = o.neg /\ Disconnect(o).cause = 0 /\ Disconnect(o).out = o.out
  BY <1>8, DisconnectLemma
<1>10. LET b == SendBye(Disconnect(o))
       IN  /\ Core(Disconnect(o), b) /\ b.state = Disconnect(o).state
           /\ b.neg = Disconnect(o).neg /\ b.cause = Disconnect(o).cause
           /\ Says(Disconnect(o), b, {"BYE"})
  BY <1>9, SendByeLemma DEF Core
<1>11. /\ Core(o, w) /\ Settles(o, w) /\ w.cause \in {v.cause, 0}
       /\ Says(o, w, {"BYE"})
       /\ (w.state = v.state /\ ~(v.state < CONFIRMED)) \/ w.state = DISCONNECTED
       /\ v.state = CONFIRMED /\ w.state = CONFIRMED => w.neg.st # "LOCAL_OFFER"
  <2>1. CASE v.state < CONFIRMED /\ w = Disconnect(o)
    BY <2>1, <1>9, StateOrder DEF Settles, Says
  <2>2. CASE v.state = CONFIRMED /\ w = SendBye(Disconnect(o))
    <3>1. CONFIRMED # DISCONNECTED
      BY StateOrder
    <3>2. Says(o, w, {"BYE"})
      BY <2>2, <1>9, <1>10 DEF Says, Core
    <3>3. Core(o, w) /\ Settles(o, w) /\ w.cause = 0 /\ w.state = DISCONNECTED
      BY <2>2, <1>9, <1>10 DEF Core, Settles
    <3> QED BY <3>1, <3>2, <3>3
  <2>3. CASE v.state = CONFIRMED /\ o.neg.st = "LOCAL_OFFER"
             /\ w = [o EXCEPT !.neg = CancelOffer(o.neg)]
    <3>1. PICK n \in Neg : n = CancelOffer(o.neg) /\ n.st = "DONE"
      BY <1>8, <2>3, NegLemma, 0 \in Nat
    <3>2. w = [o EXCEPT !.neg = n]
      BY <2>3, <3>1
    <3>3. Core(o, w) /\ w.state = o.state /\ w.neg = n /\ w.cause = o.cause /\ w.out = o.out
      BY <1>8, <3>2, NegFieldLemma
    <3>4. Settles(o, w) /\ Says(o, w, {"BYE"}) /\ w.neg.st # "LOCAL_OFFER"
      BY <3>1, <3>3 DEF Settles, Says
    <3>5. w.state = v.state /\ w.cause = v.cause /\ ~(v.state < CONFIRMED)
      BY <1>5, <1>7, <2>3, <3>3, StateOrder
    <3> QED BY <3>3, <3>4, <3>5
  <2>4. CASE w = o /\ ~(v.state < CONFIRMED)
             /\ (v.state = CONFIRMED => o.neg.st # "LOCAL_OFFER")
    BY <2>4, <1>5, <1>7, <1>8 DEF Core, Settles, Says
  <2>5. v.state = CONFIRMED => ~(v.state < CONFIRMED)
    BY StateOrder
  <2> QED BY <1>3, <2>1, <2>2, <2>3, <2>4, <2>5
<1>12. Goes(v, w, i, "over", IF v.itsx = i THEN 0 ELSE v.itsx) /\ w.lapsed = v.lapsed
  BY <1>5, <1>7, <1>11 DEF Goes, Core
<1>13. Stepped(v, w) /\ w.state >= CONNECTING
  BY <1>1, <1>11, StateOrder DEF Stepped
<1>14. Settles(v, w) /\ w.cause \in {v.cause, 0, 406}
  BY <1>5, <1>7, <1>11 DEF Settles
<1>15. w.out \subseteq Chat(e)
  <2>1. r.role = e /\ o.role = e /\ r.out = {}
    BY <1>1, <1>5, <1>7 DEF Goes, Core
  <2> QED BY <2>1, <1>7, <1>11 DEF Says, Chat, Out
<1> QED BY <1>2, <1>11, <1>12, <1>13, <1>14, <1>15, FinalKeeps DEF v, i

(* An open offer is taken back.                                            *)
LEMMA CancelOfferLemma ==
    ASSUME NEW u \in Session
    PROVE  LET w == [u EXCEPT !.neg = CancelOffer(u.neg)]
           IN  /\ Core(u, w) /\ w.state = u.state /\ w.cause = u.cause /\ w.out = u.out
               /\ u.neg.st \in {"LOCAL_OFFER", "REMOTE_OFFER"} => w.neg.st = "DONE"
<1>1. PICK n \in Neg : /\ n = CancelOffer(u.neg)
                       /\ u.neg.st \in {"LOCAL_OFFER", "REMOTE_OFFER"} => n.st = "DONE"
  <2>1. u.neg \in Neg /\ 0 \in Nat
    BY DEF Session
  <2> QED BY <2>1, NegLemma
<1>2. [u EXCEPT !.neg = CancelOffer(u.neg)] = [u EXCEPT !.neg = n]
  BY <1>1
<1> QED BY <1>1, <1>2, NegFieldLemma

(* The ACK confirms the callee's session, and lets a BYE go that was       *)
(* waiting.                                                                *)
LEMMA OnAckKeeps ==
    ASSUME NEW e, NEW m, Got(e, m), m.t = "ACK", NEW w \in OnAck(inv[e], m)
    PROVE  Keeps(e, w, Rest(e, m))
<1> DEFINE v == inv[e]
           i == m.i
           K(u) == IF u.neg.st = "LOCAL_OFFER" /\ u.state = CONFIRMED
                   THEN [u EXCEPT !.neg = CancelOffer(u.neg)] ELSE u
           F(x) == IF x.state # CONNECTING THEN x
                   ELSE LET c == Confirm(x)
                        IN  IF c.pending_bye THEN SendBye([c EXCEPT !.pending_bye = FALSE]) ELSE c
<1>1. /\ IInv /\ e \in Ends /\ v \in Session /\ v.role = e /\ v.out = {}
      /\ Carried(m, v, inv[Peer(e)]) /\ Closable(v) /\ m \in Message /\ v.state \in 0..6
      /\ Rest(e, m) \in SUBSET net
      /\ \A u \in Session, j \in Ids : u.role = e => Ctx(e, u, j, Rest(e, m))
  BY GotLemma
<1>2. i \in Ids
  BY <1>1 DEF Carried
<1>3. CASE v.itsx # i \/ v.tsx[i] # "accepted"
  <2>1. w = v
    BY <1>3 DEF OnAck
  <2> QED BY <1>1, <2>1, SameKeeps
<1>4. CASE v.itsx = i /\ v.tsx[i] = "accepted"
  <2>1. PICK u \in (IF v.state < DISCONNECTED THEN CheckSdp(v, m) ELSE {v}) :
           w = F(Over(K(u), i))
    BY <1>4 DEF OnAck
  <2>2. Negotiates(v, u) /\ Settles(v, u)
    <3>1. CASE u \in CheckSdp(v, m)
      BY <3>1, <1>1, CheckSdpLemma
    <3>2. CASE u = v
      BY <3>2, <1>1 DEF Negotiates, Core, Settles
    <3> QED BY <2>1, <3>1, <3>2
  <2>3. u \in Session
    BY <2>2 DEF Negotiates, Core
  <2>4. /\ Core(u, K(u)) /\ Settles(u, K(u)) /\ K(u).state = u.state
        /\ K(u).cause = u.cause /\ K(u).out = u.out
        /\ K(u).state = CONFIRMED => K(u).neg.st # "LOCAL_OFFER"
    <3>1. CASE u.neg.st = "LOCAL_OFFER" /\ u.state = CONFIRMED
      <4>1. K(u) = [u EXCEPT !.neg = CancelOffer(u.neg)]
        BY <3>1
      <4> HIDE DEF K
      <4> QED BY <3>1, <4>1, <2>3, CancelOfferLemma DEF Settles
    <3>2. CASE ~(u.neg.st = "LOCAL_OFFER" /\ u.state = CONFIRMED)
      BY <2>3, <3>2 DEF Core, Settles
    <3> QED BY <3>1, <3>2
  <2> HIDE DEF K
  <2>5. PICK k \in Session : k = K(u)
    BY <2>4 DEF Core
  <2>6. /\ Core(v, k) /\ Settles(v, k) /\ k.state = v.state /\ k.cause = v.cause /\ k.out = {}
        /\ k.state = CONFIRMED => k.neg.st # "LOCAL_OFFER"
    BY <1>1, <2>2, <2>4, <2>5 DEF Core, Negotiates, Settles
  <2>7. Callers
    BY <1>1 DEF IInv
  <2>8. e = "uac" => v.state >= CONNECTING
    BY <1>2, <1>4, <2>7 DEF Callers
  <2>9. e = "uas" => inv["uac"].state >= CONNECTING
    BY SeenLemma
  <2>9a. v \in Session /\ i \in Ids /\ v.itsx = i /\ v.tsx[i] = "accepted"
    BY <1>1, <1>2, <1>4
  <2> HIDE DEF i, v
  <2> DEFINE x == Over(k, i)
  <2>10. /\ Goes(k, x, i, "over", IF k.itsx = i THEN 0 ELSE k.itsx)
         /\ x.state = k.state /\ x.neg = k.neg /\ x.cause = k.cause /\ x.lapsed = k.lapsed
         /\ x.out = k.out
    BY <2>9a, OverLemma
  <2>11. x \in Session
    BY <2>10 DEF Goes
  <2>12. w = F(x)
    BY <2>1, <2>5
  <2> HIDE DEF x
  <2>13. /\ Core(x, w) /\ w.neg = x.neg /\ w.cause \in {x.cause, 406}
         /\ Says(x, w, {"BYE"})
         /\ w.state = x.state \/ (x.state = CONNECTING /\ w.state = CONFIRMED)
    <3>1. CASE x.state # CONNECTING
      BY <2>11, <2>12, <3>1 DEF Core, Says
    <3>2. CASE x.state = CONNECTING
      <4> DEFINE c == Confirm(x)
                 d == [c EXCEPT !.pending_bye = FALSE]
      <4>1. /\ Core(x, c) /\ c.state \in {x.state, CONFIRMED} /\ c.neg = x.neg
            /\ c.cause \in {x.cause, 406} /\ Says(x, c, {"BYE"})
        BY <2>11, ConfirmLemma
      <4>2. w = c \/ w = SendBye(d)
        BY <2>12, <3>2
      <4>3. c \in Session
        BY <4>1 DEF Core
      <4> HIDE DEF c, F
      <4>4. CASE w = c
        BY <4>4, <4>1, <3>2
      <4>5. CASE w = SendBye(d)
        <5>1. /\ Core(c, d) /\ d.state = c.state /\ d.neg = c.neg /\ d.cause = c.cause
              /\ d.out = c.out
          <6>1. PICK b \in BOOLEAN : b = FALSE
            OBVIOUS
          <6>2. d = [c EXCEPT !.pending_bye = b]
            BY <6>1
          <6> HIDE DEF d
          <6> QED BY <4>3, <6>2 DEF Core, Session
        <5>2. d \in Session
          BY <5>1 DEF Core
        <5> HIDE DEF d
        <5>3. /\ Core(d, w) /\ w.state = d.state /\ w.neg = d.neg /\ w.cause = d.cause
              /\ Says(d, w, {"BYE"})
          BY <4>5, <5>2, SendByeLemma
        <5> QED BY <3>2, <4>1, <5>1, <5>3 DEF Core, Says
      <4> QED BY <4>2, <4>4, <4>5
    <3> QED BY <3>1, <3>2
  <2>14. /\ Goes(v, w, i, "over", IF v.itsx = i THEN 0 ELSE v.itsx)
         /\ w.lapsed = v.lapsed /\ Settles(v, w) /\ w.cause \in {v.cause, 0, 406}
    BY <2>6, <2>10, <2>13 DEF Goes, Core, Settles
  <2>15. Stepped(v, w)
    BY <2>6, <2>10, <2>13, StateOrder DEF Stepped
  <2>16. w.out \subseteq Chat(e) /\ \A n \in w.out : n.t \in {"BYE"}
    <3>1. x.out = {} /\ x.role = e
      BY <1>1, <2>6, <2>10 DEF Goes, Core, v
    <3> QED BY <2>13, <3>1, ChatSays
  <2>17. w \in Session /\ w.role = e /\ w.mine = v.mine
    BY <1>1, <2>14 DEF Goes, v
  <2>18. Ctx(e, w, i, Rest(e, m))
    BY <1>1, <2>9a, <2>17
  <2>19. Moves(e, w, i, Rest(e, m))
    BY <2>9a, <2>14, <2>15, <2>16, <2>18, OverMoves DEF v
  <2>20. w.tsx[i] = "over" /\ \A j \in Ids \ {i} : w.tsx[j] = v.tsx[j]
    BY <2>9a, <2>14 DEF Goes, Session
  <2>21. v.state <= w.state /\ (v.state >= CONNECTING => w.state >= CONNECTING)
    BY <2>9a, <2>15, <2>17, SteppedLemma
  <2>22. Watches(e, w)
    BY <1>1, <2>8, <2>9, <2>9a, <2>14, <2>15, <2>16, <2>17, <2>20, <2>21, WatchLemma DEF v
  <2>23. Closable(w)
    <3>1. v.state = CONFIRMED /\ w.state = CONFIRMED => w.neg.st # "LOCAL_OFFER"
      BY <2>6, <2>10, <2>13
    <3>2. w.state # NULL
      <4>1. Fresh(v)
        BY <1>1 DEF IInv, Calls, v
      <4>2. v.state # NULL
        BY <2>9a, <4>1 DEF Fresh
      <4> QED BY <2>9a, <2>15, <2>17, <4>2, SteppedLemma
    <3> QED BY <1>1, <2>14, <2>17, <2>21, <3>1, <3>2, ClosableLemma DEF v
  <2> QED BY <2>9a, <2>19, <2>22, <2>23 DEF Keeps
<1> QED BY <1>3, <1>4

(* A re-INVITE that becomes the pending one is answered.                   *)
LEMMA ReinviteKeeps ==
    ASSUME NEW e, NEW m, Got(e, m), m.t = "INVITE", inv[e].state = CONFIRMED,
           inv[e].itsx = 0, NEW s \in {"accepted", "rejected"}, NEW w,
           Goes(inv[e], w, m.i, s, m.i), w.state = inv[e].state, w.cause = inv[e].cause,
           w.lapsed = inv[e].lapsed, Closable(w),
           \A n \in w.out : n.to = Peer(e) /\ n.t \in Finals /\ n.i = m.i
    PROVE  Keeps(e, w, Rest(e, m))
<1> DEFINE v == inv[e]
           p == inv[Peer(e)]
           i == m.i
<1>1. /\ IInv /\ e \in Ends /\ v \in Session /\ v.role = e /\ p \in Session
      /\ Carried(m, v, p)
      /\ \A n \in Rest(e, m) : n.i = i => n.t # "INVITE"
      /\ \A u \in Session, j \in Ids : u.role = e => Ctx(e, u, j, Rest(e, m))
  BY GotLemma
<1>2. i \in p.mine /\ i \in Ids
  BY <1>1 DEF Carried, Session
<1>3. Owns(v) /\ v.mine \subseteq Ids /\ Callers
  BY <1>1 DEF IInv, Calls, Session
<1>4. \A k \in v.mine : v.tsx[k] = "over"
  BY <1>3, 0 \notin Ids DEF Owns, Open, Ids
<1>5. w \in Session /\ w.role = e /\ w.mine = v.mine
  BY <1>1 DEF Goes
<1>6. Stepped(v, w)
  BY DEF Stepped
<1>7. v.state # NULL /\ w.state \notin {INCOMING, EARLY} /\ w.state >= CONNECTING
  BY StateOrder
<1>8. Ctx(e, w, i, Rest(e, m))
  BY <1>1, <1>2, <1>5
<1>9. Moves(e, w, i, Rest(e, m))
  BY <1>1, <1>2, <1>4, <1>6, <1>7, <1>8, AnswerMoves
<1>10. \A j \in Ids \ {i} : w.tsx[j] = v.tsx[j]
  BY <1>1, <1>2 DEF Goes, Session
<1>11. \A n \in w.out : n.t # "ACK" /\ n.t # "BYE"
  BY DEF Finals, Rejections
<1>12. e = "uas" => inv["uac"].state >= CONNECTING
  BY <1>3 DEF Callers
<1>13. Watches(e, w)
  BY <1>1, <1>2, <1>5, <1>6, <1>7, <1>10, <1>11, <1>12, WatchLemma
<1> QED BY <1>2, <1>9, <1>13 DEF Keeps

(* An INVITE in an established session is rejected while another is        *)
(* pending or waits for its ACK: that is where glare is resolved.          *)
LEMMA OnReinviteKeeps ==
    ASSUME NEW e, NEW m, Got(e, m), m.t = "INVITE", inv[e].state = CONFIRMED,
           NEW w \in OnReinvite(inv[e], m)
    PROVE  Keeps(e, w, Rest(e, m))
<1> DEFINE v == inv[e]
           i == m.i
           x == [v EXCEPT !.itsx = i]
<1>1. /\ IInv /\ e \in Ends /\ v \in Session /\ v.role = e /\ v.out = {}
      /\ Carried(m, v, inv[Peer(e)]) /\ Closable(v) /\ m \in Message
      /\ inv[Peer(e)] \in Session
  BY GotLemma
<1>2. i \in Ids /\ i \in Nat /\ i # 0 /\ i \in 0..MaxInvites /\ m.sdp \in Nat
  BY <1>1 DEF Carried, Message, Session, Ids
<1>3. "491" \in Rejections /\ "488" \in Rejections /\ v.state # NULL
  BY StateOrder DEF Rejections
<1>4. CASE v.itsx # 0
  <2>1. w = Reject(v, m.i, "491")
    BY <1>4 DEF OnReinvite
  <2> QED BY <1>3, <2>1, RejectKeeps
<1>5. CASE v.itsx = 0
  <2>1. /\ x \in Session /\ x.role = e /\ x.state = v.state /\ x.itsx = i /\ x.tsx = v.tsx
        /\ x.mine = v.mine /\ x.neg = v.neg /\ x.cause = v.cause /\ x.lapsed = v.lapsed
        /\ x.out = {}
    <3> HIDE DEF i, v
    <3> QED BY <1>1, <1>2 DEF Session
  <2>2. \/ x.neg.st # "DONE" /\ w = Reject(x, i, "491")
        \/ w = Accept([x EXCEPT !.neg = LocalOffer(x.neg, i)], i, LocalOffer(x.neg, i).loc)
        \/ \E n \in Answered(RemoteOffer(v.neg, m.sdp)) :
              \/ n.st = "REMOTE_OFFER" /\ w = Reject([x EXCEPT !.neg = CancelOffer(n)], i, "488")
              \/ w = Accept([x EXCEPT !.neg = Negotiate(n), !.done = @ \cup {i}], i, n.loc)
    <3>0. x.neg = v.neg
      BY <2>1
    <3>1. CASE v.neg.st # "DONE"
      BY <1>5, <3>0, <3>1 DEF OnReinvite
    <3>2. CASE v.neg.st = "DONE" /\ m.sdp = 0
      <4>1. w \in {Accept([x EXCEPT !.neg = LocalOffer(x.neg, i)], i, LocalOffer(x.neg, i).loc)}
        BY <1>5, <3>2 DEF OnReinvite
      <4> QED BY <4>1
    <3>3. CASE v.neg.st = "DONE" /\ m.sdp # 0
      <4>1. w \in {IF n.st = "REMOTE_OFFER"
                   THEN Reject([x EXCEPT !.neg = CancelOffer(n)], i, "488")
                   ELSE Accept([x EXCEPT !.neg = Negotiate(n), !.done = @ \cup {i}], i, n.loc)
                     : n \in Answered(RemoteOffer(v.neg, m.sdp))}
        BY <1>5, <3>3 DEF OnReinvite
      <4> HIDE DEF x
      <4> QED BY <4>1
    <3> QED BY <3>1, <3>2, <3>3
  <2>3. v.neg \in Neg /\ v.state = CONFIRMED /\ v.tsx \in [Ids -> TsxStates]
    BY <1>1 DEF Session
  <2> HIDE DEF x, i, v
  <2>4. CASE x.neg.st # "DONE" /\ w = Reject(x, i, "491")
    <3>1. /\ Goes(x, w, i, "rejected", x.itsx)
          /\ w.state = x.state /\ w.neg = x.neg /\ w.cause = x.cause
          /\ w.lapsed = x.lapsed
          /\ w.out = x.out \cup {[to |-> Peer(x.role), t |-> "491", i |-> i, sdp |-> 0]}
          /\ Says(x, w, {"491"})
      BY <1>2, <1>3, <2>1, <2>4, RejectLemma
    <3>2. Goes(v, w, i, "rejected", i) /\ w \in Session
      BY <1>1, <2>1, <3>1 DEF Goes
    <3>3. \A n \in w.out : n.to = Peer(e) /\ n.t \in Finals /\ n.i = i
      BY <2>1, <3>1 DEF Finals, Rejections
    <3>4. v.state <= w.state /\ Settles(v, w) /\ w.lapsed = v.lapsed /\ w.state # NULL
      BY <2>1, <2>3, <3>1, StateOrder DEF Settles
    <3>5. Closable(w)
      BY <1>1, <1>5, <3>2, <3>4, ClosableLemma
    <3> QED BY <1>5, <2>1, <2>3, <3>1, <3>2, <3>3, <3>5, ReinviteKeeps DEF v, i
  <2>5. CASE w = Accept([x EXCEPT !.neg = LocalOffer(x.neg, i)], i, LocalOffer(x.neg, i).loc)
    <3>1. PICK n \in Neg : n = LocalOffer(x.neg, i) /\ (n.st = "NULL" => FALSE)
      <4>1. x.neg \in Neg
        BY <2>1, <2>3
      <4>2. LocalOffer(x.neg, i) \in Neg
        BY <1>2, <4>1, NegLemma
      <4> QED BY <4>2 DEF LocalOffer, Neg
    <3> DEFINE y == [x EXCEPT !.neg = n]
    <3>2. Core(x, y) /\ y.state = x.state /\ y.neg = n /\ y.cause = x.cause /\ y.out = x.out
      BY <2>1, NegFieldLemma
    <3>3. w = Accept(y, i, n.loc) /\ n.loc \in Nat /\ y \in Session
      BY <2>5, <3>1, <3>2 DEF Neg, Core
    <3> HIDE DEF y
    <3>4. /\ Goes(y, w, i, "accepted", y.itsx)
          /\ w.state = y.state /\ w.neg = y.neg /\ w.cause = y.cause
          /\ w.lapsed = y.lapsed
          /\ w.out = y.out \cup {[to |-> Peer(y.role), t |-> "200", i |-> i, sdp |-> n.loc]}
          /\ Says(y, w, {"200"})
      BY <1>2, <3>3, AcceptLemma
    <3>5. Goes(v, w, i, "accepted", i) /\ w \in Session
      BY <1>1, <2>1, <3>2, <3>4 DEF Goes, Core
    <3>6. \A k \in w.out : k.to = Peer(e) /\ k.t \in Finals /\ k.i = i
      BY <2>1, <3>2, <3>4 DEF Finals, Core
    <3>7. w.state = v.state /\ w.neg = n /\ w.cause = v.cause /\ w.lapsed = v.lapsed
      BY <2>1, <3>2, <3>4 DEF Core
    <3>8. w.itsx = i /\ w.tsx[i] = "accepted"
      BY <1>2, <2>3, <3>5 DEF Goes
    <3>9. Closable(w)
      BY <1>2, <2>3, <3>1, <3>7, <3>8, StateOrder DEF Closable
    <3> QED BY <1>5, <2>3, <3>5, <3>6, <3>7, <3>9, ReinviteKeeps DEF v, i
  <2>6. CASE \E n \in Answered(RemoteOffer(v.neg, m.sdp)) :
               \/ n.st = "REMOTE_OFFER" /\ w = Reject([x EXCEPT !.neg = CancelOffer(n)], i, "488")
               \/ w = Accept([x EXCEPT !.neg = Negotiate(n), !.done = @ \cup {i}], i, n.loc)
    <3>1. PICK n \in Answered(RemoteOffer(v.neg, m.sdp)) :
               \/ n.st = "REMOTE_OFFER" /\ w = Reject([x EXCEPT !.neg = CancelOffer(n)], i, "488")
               \/ w = Accept([x EXCEPT !.neg = Negotiate(n), !.done = @ \cup {i}], i, n.loc)
      BY <2>6
    <3>2. RemoteOffer(v.neg, m.sdp) \in Neg
      <4>1. PICK k \in Neg, o \in Nat : k = v.neg /\ o = m.sdp
        BY <1>2, <2>3
      <4>2. RemoteOffer(k, o) \in Neg
        BY NegLemma
      <4> QED BY <4>1, <4>2
    <3>3. n \in Neg /\ n.loc \in Nat
      BY <3>1, <3>2, AnsweredLemma DEF Neg
    <3>4. CASE n.st = "REMOTE_OFFER" /\ w = Reject([x EXCEPT !.neg = CancelOffer(n)], i, "488")
      <4>1. PICK k \in Neg : k = CancelOffer(n) /\ k.st = "DONE"
        BY <3>3, <3>4, NegLemma, 0 \in Nat
      <4> DEFINE y == [x EXCEPT !.neg = k]
      <4>2. Core(x, y) /\ y.state = x.state /\ y.neg = k /\ y.cause = x.cause /\ y.out = x.out
        BY <2>1, NegFieldLemma
      <4>3. w = Reject(y, i, "488") /\ y \in Session
        BY <3>4, <4>1, <4>2 DEF Core
      <4> HIDE DEF y
      <4>4. /\ Goes(y, w, i, "rejected", y.itsx)
            /\ w.state = y.state /\ w.neg = y.neg /\ w.cause = y.cause
            /\ w.lapsed = y.lapsed
            /\ w.out = y.out \cup {[to |-> Peer(y.role), t |-> "488", i |-> i, sdp |-> 0]}
            /\ Says(y, w, {"488"})
        BY <1>2, <1>3, <4>3, RejectLemma
      <4>5. Goes(v, w, i, "rejected", i)
        BY <1>1, <2>1, <4>2, <4>4 DEF Goes, Core
      <4>6. \A h \in w.out : h.to = Peer(e) /\ h.t \in Finals /\ h.i = i
        BY <2>1, <4>2, <4>4 DEF Finals, Core, Rejections
      <4>7. w.state = v.state /\ w.neg = k /\ w.cause = v.cause /\ w.lapsed = v.lapsed
        BY <2>1, <4>2, <4>4 DEF Core
      <4>8. Closable(w)
        BY <2>3, <4>1, <4>7, StateOrder DEF Closable
      <4> QED BY <1>5, <2>3, <4>5, <4>6, <4>7, <4>8, ReinviteKeeps DEF v, i
    <3>5. CASE w = Accept([x EXCEPT !.neg = Negotiate(n), !.done = @ \cup {i}], i, n.loc)
      <4>1. PICK k \in Neg : k = Negotiate(n) /\ k.st = "DONE"
        BY <3>3, NegLemma, 0 \in Nat
      <4>1a. PICK d \in SUBSET (0..MaxInvites) : d = x.done \cup {i}
        BY <1>2, <2>1 DEF Session
      <4> DEFINE y == [x EXCEPT !.neg = k, !.done = d]
      <4>a. Negotiates(x, y) /\ y.neg = k
        BY <2>1, NegotiatesLemma
      <4>2. Core(x, y) /\ y.state = x.state /\ y.neg = k /\ y.cause = x.cause /\ y.out = x.out
        BY <4>a DEF Negotiates
      <4>3. w = Accept(y, i, n.loc) /\ y \in Session
        BY <2>1, <3>5, <4>1, <4>1a, <4>2 DEF Core, Session
      <4> HIDE DEF y
      <4>4. /\ Goes(y, w, i, "accepted", y.itsx)
            /\ w.state = y.state /\ w.neg = y.neg /\ w.cause = y.cause
            /\ w.lapsed = y.lapsed
            /\ w.out = y.out \cup {[to |-> Peer(y.role), t |-> "200", i |-> i, sdp |-> n.loc]}
            /\ Says(y, w, {"200"})
        BY <1>2, <3>3, <4>3, AcceptLemma
      <4>5. Goes(v, w, i, "accepted", i)
        BY <1>1, <2>1, <4>2, <4>4 DEF Goes, Core
      <4>6. \A h \in w.out : h.to = Peer(e) /\ h.t \in Finals /\ h.i = i
        BY <2>1, <4>2, <4>4 DEF Finals, Core
      <4>7. w.state = v.state /\ w.neg = k /\ w.cause = v.cause /\ w.lapsed = v.lapsed
        BY <2>1, <4>2, <4>4 DEF Core
      <4>8. Closable(w)
        BY <2>3, <4>1, <4>7, StateOrder DEF Closable
      <4> QED BY <1>5, <2>3, <4>5, <4>6, <4>7, <4>8, ReinviteKeeps DEF v, i
    <3> QED BY <3>1, <3>4, <3>5
  <2> QED BY <2>2, <2>4, <2>5, <2>6
<1> QED BY <1>4, <1>5

(* A message that is received keeps the invariant.                         *)
LEMMA ReceiveKept ==
    ASSUME IInv, NEW e \in Ends, NEW m \in net, Receive(e, m)
    PROVE  IInv'
<1>1. Got(e, m)
  BY DEF Receive, Got
<1>2. PICK w \in Handle(inv[e], m) : Becomes(e, w, Rest(e, m))
  BY DEF Receive
<1>3. Keeps(e, w, Rest(e, m))
  <2> DEFINE v == inv[e]
  <2>1. /\ v \in Session /\ Rest(e, m) \in SUBSET net /\ m \in Message
        /\ "491" \in Rejections /\ "481" \in Rejections
    BY <1>1, GotLemma DEF Rejections
  <2>2. CASE m.t = "INVITE"
    <3>1. CONFIRMED # CONNECTING /\ NULL # CONNECTING /\ NULL # CONFIRMED
      BY StateOrder
    <3>a. w \in CASE v.state = NULL -> OnInvite(v, m)
                  [] v.state = CONFIRMED -> OnReinvite(v, m)
                  [] v.state = CONNECTING -> {Reject(v, m.i, "491")}
                  [] OTHER -> {Reject(v, m.i, "481")}
      BY <1>2, <2>2 DEF Handle, Rejections
    <3> HIDE DEF v
    <3>2. CASE v.state = NULL
      <4>1. w \in OnInvite(v, m)
        BY <3>a, <3>1, <3>2
      <4> QED BY <1>1, <2>2, <3>2, <4>1, OnInviteKeeps DEF v
    <3>3. CASE v.state = CONFIRMED
      <4>1. w \in OnReinvite(v, m)
        BY <3>a, <3>1, <3>3
      <4> QED BY <1>1, <2>2, <3>3, <4>1, OnReinviteKeeps DEF v
    <3>4. CASE v.state \notin {NULL, CONFIRMED}
      <4>1. w = Reject(v, m.i, "491") \/ w = Reject(v, m.i, "481")
        BY <3>a, <3>1, <3>4
      <4> QED BY <1>1, <2>1, <2>2, <3>4, <4>1, RejectKeeps DEF v
    <3> QED BY <3>2, <3>3, <3>4
  <2>3. CASE m.t \in Provisionals
    <3>1. w \in OnProvisional(v, m)
      BY <1>2, <2>3 DEF Handle, Provisionals, Rejections
    <3> QED BY <1>1, <2>3, <3>1, OnProvisionalKeeps
  <2>4. CASE m.t = "200"
    <3>1. w \in OnAccepted(v, m)
      BY <1>2, <2>4 DEF Handle, Rejections
    <3> QED BY <1>1, <2>4, <3>1, OnAcceptedKeeps
  <2>5. CASE m.t \in Rejections
    <3>1. w \in OnRejected(v, m)
      BY <1>2, <2>5 DEF Handle, Rejections
    <3> QED BY <1>1, <2>5, <3>1, OnRejectedKeeps
  <2>6. CASE m.t = "ACK"
    <3>1. w \in OnAck(v, m)
      BY <1>2, <2>6 DEF Handle, Rejections
    <3> QED BY <1>1, <2>6, <3>1, OnAckKeeps
  <2>7. CASE m.t = "NACK"
    <3>1. w \in OnNack(v, m)
      BY <1>2, <2>7 DEF Handle, Rejections
    <3> QED BY <1>1, <2>7, <3>1, OnNackKeeps
  <2>8. CASE m.t = "CANCEL"
    <3>1. w \in OnCancel(v, m)
      BY <1>2, <2>8 DEF Handle, Rejections
    <3> QED BY <1>1, <2>8, <3>1, OnCancelKeeps
  <2>9. CASE m.t = "BYE"
    <3>1. w \in OnBye(v, m)
      BY <1>2, <2>9 DEF Handle, Rejections
    <3> QED BY <1>1, <3>1, OnByeKeeps
  <2>10. CASE m.t = "OK"
    <3>1. w \in OnByeResponse(v, m)
      BY <1>2, <2>10 DEF Handle, Rejections
    <3> QED BY <2>1, <3>1, ByeResponseKeeps
  <2>11. m.t \in Requests \cup Provisionals \cup Finals \cup {"OK"}
    BY <2>1 DEF Message
  <2> QED BY <2>2, <2>3, <2>4, <2>5, <2>6, <2>7, <2>8, <2>9, <2>10, <2>11
          DEF Requests, Finals
<1> QED BY <1>2, <1>3, StepKept DEF Keeps

(* A BYE without a response ends the session.                              *)
LEMMA ByeTimeoutKept ==
    ASSUME IInv, NEW e \in Ends, ByeTimeout(e)
    PROVE  IInv'
<1>1. PICK w \in OnByeResponse(inv[e], [t |-> "OK"]) : Becomes(e, w, net)
  BY DEF ByeTimeout
<1>2. net \in SUBSET net
  OBVIOUS
<1>3. Keeps(e, w, net)
  BY <1>1, <1>2, ByeResponseKeeps
<1> QED BY <1>1, <1>3, StepKept DEF Keeps

(* A 200 without an ACK: the session has lapsed, and one that is not       *)
(* confirmed yet is ended.                                                 *)
LEMMA AckTimeoutKept ==
    ASSUME IInv, NEW e \in Ends, AckTimeout(e)
    PROVE  IInv'
<1> DEFINE v == inv[e]
           l == [v EXCEPT !.lapsed = TRUE]
<1>0. PICK s \in Passing : \E i \in Ids :
         /\ v.tsx[i] = "accepted"
         /\ Becomes(e, Over(IF l.state = CONNECTING /\ l.itsx = i
                           THEN SendBye(SetCause(l, s)) ELSE l, i), net)
  BY DEF AckTimeout
<1> DEFINE c == SetCause(l, s)
<1>1. PICK i \in Ids :
         /\ v.tsx[i] = "accepted"
         /\ Becomes(e, Over(IF l.state = CONNECTING /\ l.itsx = i THEN SendBye(c) ELSE l, i), net)
  BY <1>0
<1>2. /\ v \in Session /\ v.role = e /\ v.out = {} /\ TypeOK /\ Calls /\ Callers /\ Closable(v)
  BY DEF IInv, TypeOK, Offers
<1>3. PICK b \in BOOLEAN : b = TRUE
  OBVIOUS
<1>4. l = [v EXCEPT !.lapsed = b]
  BY <1>3
<1>5. /\ e = "uac" => v.state >= CONNECTING /\ v.state # INCOMING
      /\ e = "uas" /\ ~(inv["uac"].state >= CONNECTING) => v.state # CONFIRMED /\ v.mine = {}
      /\ e = "uac" => \A j \in Ids : v.tsx[j] \in {"accepted", "rejected", "over"}
                                     => v.state >= CONNECTING
  BY <1>1, <1>2 DEF Callers
<1> HIDE DEF l, v
<1>6. /\ l \in Session /\ l.role = e /\ l.state = v.state /\ l.itsx = v.itsx
      /\ l.tsx = v.tsx /\ l.mine = v.mine /\ l.neg = v.neg /\ l.out = {} /\ l.lapsed = TRUE
  BY <1>2, <1>3, <1>4 DEF Session
<1>7. /\ Core(l, c) /\ c.state = l.state /\ c.neg = l.neg /\ c.out = l.out
      /\ c.cause \in {l.cause, s}
  <2>1. s \in Nat
    BY DEF Passing
  <2> QED BY <2>1, <1>6, SetCauseLemma
<1> HIDE DEF c
<1>8. /\ Core(c, SendBye(c)) /\ SendBye(c).state = c.state /\ SendBye(c).neg = c.neg
      /\ SendBye(c).cause = c.cause /\ Says(c, SendBye(c), {"BYE"})
  BY <1>7, SendByeLemma DEF Core
<1>9. PICK t : /\ t = IF l.state = CONNECTING /\ l.itsx = i THEN SendBye(c) ELSE l
               /\ Core(l, t) /\ t.state = l.state /\ t.neg = l.neg /\ Says(l, t, {"BYE"})
  <2>1. Core(l, SendBye(c)) /\ SendBye(c).state = l.state /\ SendBye(c).neg = l.neg
        /\ Says(l, SendBye(c), {"BYE"})
    BY <1>7, <1>8 DEF Core, Says
  <2>2. Core(l, l) /\ Says(l, l, {"BYE"})
    BY <1>6 DEF Core, Says
  <2> QED BY <2>1, <2>2
<1> DEFINE w == Over(t, i)
<1>10. Becomes(e, w, net)
  BY <1>1, <1>9
<1>11. t \in Session
  BY <1>9 DEF Core
<1>12. /\ Goes(t, w, i, "over", IF t.itsx = i THEN 0 ELSE t.itsx)
       /\ w.state = t.state /\ w.neg = t.neg /\ w.cause = t.cause /\ w.lapsed = t.lapsed
       /\ w.out = t.out
  BY <1>11, OverLemma
<1> HIDE DEF w
<1>13. /\ Goes(v, w, i, "over", IF v.itsx = i THEN 0 ELSE v.itsx)
       /\ w.state = v.state /\ w.neg = v.neg /\ w.lapsed = TRUE
  <2>1. /\ t.role = v.role /\ t.itsx = v.itsx /\ t.tsx = v.tsx /\ t.mine = v.mine
        /\ t.state = v.state /\ t.neg = v.neg /\ t.lapsed = l.lapsed
    BY <1>2, <1>6, <1>9 DEF Core
  <2>2. l.lapsed = TRUE
    BY <1>6
  <2> QED BY <1>12, <2>1, <2>2 DEF Goes
<1>14. w.out \subseteq Chat(e) /\ \A n \in w.out : n.t \in {"BYE"}
  BY <1>6, <1>9, <1>12, ChatSays
<1>15. w \in Session /\ w.role = e /\ w.mine = v.mine
  BY <1>2, <1>13 DEF Goes
<1>16. Stepped(v, w)
  BY <1>13 DEF Stepped
<1>17. Ctx(e, w, i, net)
  BY <1>2, <1>15 DEF Ctx
<1>18. Moves(e, w, i, net)
  BY <1>1, <1>13, <1>14, <1>16, <1>17, OverMoves DEF v
<1>19. \A j \in Ids \ {i} : w.tsx[j] = v.tsx[j]
  BY <1>2, <1>13 DEF Goes, Session
<1>20. v.state <= w.state
  BY <1>2, <1>15, <1>16, SteppedLemma
<1>21. Watches(e, w)
  BY <1>5, <1>13, <1>14, <1>15, <1>19, <1>20 DEF Watches, v
<1>22. Closable(w)
  BY <1>2, <1>13 DEF Closable
<1> QED BY <1>10, <1>18, <1>21, <1>22, StepKept

-----------------------------------------------------------------------------
(* The users.                                                              *)

(* The INVITE that the callee has not answered yet.                        *)
LEMMA PendingLemma ==
    ASSUME IInv, inv["uas"].state \in {INCOMING, EARLY}, inv["uas"].itsx # 0
    PROVE  LET v == inv["uas"]
               i == v.itsx
           IN  /\ i \in Ids /\ v.tsx[i] = "proceeding" /\ v.mine = {}
               /\ i \in inv["uac"].mine /\ v.state # NULL /\ v.state < CONFIRMED
               /\ \A n \in net : n.i = i => n.t # "INVITE"
<1> DEFINE v == inv["uas"]
           i == v.itsx
<1>1. /\ Calls /\ v \in Session /\ Callee(v) /\ Owns(v) /\ Fresh(v)
      /\ \A j \in Ids : v.tsx[j] # "none" => j \in Used
  BY DEF IInv, TypeOK, Calls, Ends
<1>2. v.state # NULL /\ v.state < CONFIRMED
  BY StateOrder
<1>3. i \in Ids
  BY <1>1 DEF Session, Ids
<1>4. v.tsx[i] = "proceeding" /\ v.mine = {}
  BY <1>1, <1>2 DEF Callee
<1>5. i \in inv["uac"].mine
  BY <1>1, <1>3, <1>4 DEF Used
<1>6. ASSUME NEW n \in net, n.i = i, n.t = "INVITE"
      PROVE  FALSE
  <2>1. Carried(n, inv[n.to], inv[Peer(n.to)]) /\ n.to \in Ends
    BY <1>1 DEF Calls, IInv, TypeOK, Message
  <2>2. CASE n.to = "uas"
    BY <2>1, <2>2, <1>4, <1>6 DEF Carried
  <2>3. CASE n.to = "uac"
    BY <2>1, <2>3, <1>4, <1>6 DEF Carried, Peer
  <2> QED BY <2>1, <2>2, <2>3 DEF Ends
<1> QED BY <1>2, <1>3, <1>4, <1>5, <1>6

(* The description of a callee that has not answered.                      *)
LEMMA DescribeLemma ==
    ASSUME NEW v \in Session, Closable(v), v.state < CONFIRMED,
           NEW d, d = v \/ (v.neg.st # "DONE" /\ d = Describe(v))
    PROVE  /\ Negotiates(v, d) /\ Description(d) \in Nat
           /\ d.neg.st \in {"NULL", "LOCAL_OFFER"} => d.neg.act = <<0, 0>>
<1>1. /\ v.neg \in Neg /\ v.itsx \in Nat /\ 0 \in Nat
      /\ v.done \in SUBSET (0..MaxInvites) /\ v.done \cup {v.itsx} \in SUBSET (0..MaxInvites)
  BY DEF Session
<1>2. v.neg.st \in {"NULL", "LOCAL_OFFER"} => v.neg.act = <<0, 0>>
  BY DEF Closable
<1>3. /\ Negotiates(v, d)
      /\ d.neg.st \in {"NULL", "LOCAL_OFFER"} => d.neg.act = <<0, 0>>
  <2>1. CASE d = v
    BY <2>1, <1>2 DEF Negotiates, Core
  <2>2. CASE v.neg.st = "REMOTE_OFFER" /\ d = Describe(v)
    <3>1. PICK n \in Neg : n = Negotiate(LocalAnswer(v.neg)) /\ n.st = "DONE"
      BY <1>1, NegLemma
    <3>2. PICK e \in SUBSET (0..MaxInvites) : e = v.done \cup {v.itsx}
      BY <1>1
    <3>3. d = [v EXCEPT !.neg = n, !.done = e]
      BY <2>2, <3>1, <3>2 DEF Describe, Session
    <3>4. Negotiates(v, d) /\ d.neg = n
      BY <3>3, NegotiatesLemma
    <3> QED BY <3>1, <3>4
  <2>3. CASE v.neg.st \notin {"DONE", "REMOTE_OFFER"} /\ d = Describe(v)
    <3>1. PICK n \in Neg : n = LocalOffer(v.neg, v.itsx)
      BY <1>1, NegLemma
    <3>2. /\ n.act = v.neg.act
          /\ n.st \in {"NULL", "LOCAL_OFFER"} => v.neg.st \in {"NULL", "LOCAL_OFFER"}
      <4>1. LocalOffer(v.neg, v.itsx).act = v.neg.act
        BY <1>1, NegLemma
      <4>2. v.neg.st \notin {"NULL", "DONE"} => LocalOffer(v.neg, v.itsx) = v.neg
        BY <1>1, NegLemma
      <4> QED BY <2>3, <3>1, <4>1, <4>2
    <3>3. d = [v EXCEPT !.neg = n]
      BY <2>3, <3>1 DEF Describe
    <3>4. Core(v, d) /\ d.state = v.state /\ d.neg = n /\ d.cause = v.cause /\ d.out = v.out
      BY <3>3, NegFieldLemma
    <3> QED BY <1>2, <3>2, <3>4 DEF Negotiates
  <2> QED BY <2>1, <2>2, <2>3
<1>4. d.neg \in Neg
  BY <1>3 DEF Negotiates, Core, Session
<1>5. Description(d) \in Nat
  BY <1>4 DEF Description, Neg
<1> QED BY <1>3, <1>5

(* A provisional answer of the callee.                                     *)
LEMMA RingKept ==
    ASSUME IInv, NEW media \in BOOLEAN, Ring(media)
    PROVE  IInv'
<1> DEFINE v == inv["uas"]
           i == v.itsx
           d == IF media /\ v.neg.st # "DONE" THEN Describe(v) ELSE v
           r == [d EXCEPT !.state = EARLY]
           s == IF media THEN Description(d) ELSE 0
           w == Send(r, "18x", i, s)
<1>1. Becomes("uas", w, net) /\ v.state \in {INCOMING, EARLY} /\ i # 0
  BY DEF Ring, Incoming
<1>2. /\ v \in Session /\ v.role = "uas" /\ v.out = {} /\ TypeOK /\ Calls /\ Closable(v)
      /\ "uas" \in Ends /\ Peer("uas") = "uac"
  BY DEF IInv, TypeOK, Offers, Ends, Peer
<1>3. /\ i \in Ids /\ v.tsx[i] = "proceeding" /\ v.mine = {}
      /\ i \in inv["uac"].mine /\ v.state # NULL /\ v.state < CONFIRMED
  BY <1>1, PendingLemma
<1>4. d = v \/ (v.neg.st # "DONE" /\ d = Describe(v))
  OBVIOUS
<1> HIDE DEF v, i, d
<1>5. /\ Negotiates(v, d) /\ Description(d) \in Nat
      /\ d.neg.st \in {"NULL", "LOCAL_OFFER"} => d.neg.act = <<0, 0>>
  BY <1>2, <1>3, <1>4, DescribeLemma
<1>6. Core(d, r) /\ r.state = EARLY /\ r.neg = d.neg /\ r.cause = d.cause /\ r.out = d.out
  <2>1. PICK z \in NULL..DISCONNECTED : z = EARLY
    BY StateOrder
  <2>2. r = [d EXCEPT !.state = z] /\ d \in Session
    BY <1>5, <2>1 DEF Negotiates, Core
  <2> QED BY <2>1, <2>2 DEF Core, Session
<1> HIDE DEF r
<1>7. /\ "18x" \in MessageTypes /\ "18x" \notin {"BYE", "OK"} /\ i \in 0..MaxInvites
      /\ i \in Ids /\ s \in Nat /\ r \in Session
  BY <1>3, <1>5, <1>6, InviteAssumption DEF MessageTypes, Provisionals, Ids, Core
<1> HIDE DEF s
<1>8. /\ Core(r, w) /\ w.state = r.state /\ w.neg = r.neg /\ w.cause = r.cause
      /\ w.out = r.out \cup {[to |-> Peer(r.role), t |-> "18x", i |-> i, sdp |-> s]}
      /\ Says(r, w, {"18x"})
  BY <1>7, SendLemma
<1> HIDE DEF w
<1>9. /\ Core(v, w) /\ w.state = EARLY /\ w.neg = d.neg /\ w.cause = v.cause
      /\ \A n \in w.out : n.to = "uac" /\ n.t = "18x" /\ n.i = i
  BY <1>2, <1>5, <1>6, <1>8 DEF Core, Negotiates
<1>10. Stepped(v, w) /\ w.state < CONFIRMED /\ w.state \notin {NULL, CONFIRMED}
  BY <1>1, <1>9, StateOrder DEF Stepped
<1>11. w \in Session /\ w.role = "uas" /\ w.mine = v.mine /\ w.tsx = v.tsx /\ w.lapsed = v.lapsed
  BY <1>2, <1>9 DEF Core
<1>12. Ctx("uas", w, i, net)
  BY <1>2, <1>3, <1>11 DEF Ctx
<1>13. \A n \in w.out : /\ n.to = Peer("uas") /\ n.t \in Provisionals /\ n.i \in Ids
                        /\ n.i \in inv[Peer("uas")].mine /\ v.tsx[n.i] = "proceeding"
                        /\ n.t # "BYE"
  BY <1>2, <1>3, <1>9 DEF Provisionals
<1>14. Moves("uas", w, i, net)
  BY <1>9, <1>10, <1>12, <1>13, StillMoves DEF v
<1>15. Watches("uas", w)
  BY <1>2, <1>3, <1>9, <1>10, <1>11, <1>13, WatchLemma DEF v
<1>16. Closable(w)
  BY <1>5, <1>9, <1>10 DEF Closable
<1> QED BY <1>1, <1>2, <1>14, <1>15, <1>16, StepKept

(* The callee's 200.                                                       *)
LEMMA AnswerKept ==
    ASSUME IInv, Answer
    PROVE  IInv'
<1> DEFINE v == inv["uas"]
           i == v.itsx
           d == IF v.neg.st # "DONE" THEN Describe(v) ELSE v
           r == [d EXCEPT !.state = CONNECTING]
           w == Accept(r, i, Description(d))
<1>1. Becomes("uas", w, net) /\ v.state \in {INCOMING, EARLY} /\ i # 0
  BY DEF Answer, Incoming
<1>2. /\ v \in Session /\ v.role = "uas" /\ v.out = {} /\ TypeOK /\ Calls /\ Closable(v)
      /\ "uas" \in Ends /\ Peer("uas") = "uac"
  BY DEF IInv, TypeOK, Offers, Ends, Peer
<1>3. /\ i \in Ids /\ v.tsx[i] = "proceeding" /\ v.mine = {}
      /\ i \in inv["uac"].mine /\ v.state # NULL /\ v.state < CONFIRMED
      /\ \A n \in net : n.i = i => n.t # "INVITE"
  BY <1>1, PendingLemma
<1>4. v.itsx = i /\ (d = v \/ (v.neg.st # "DONE" /\ d = Describe(v)))
  OBVIOUS
<1> HIDE DEF v, i, d
<1>5. /\ Negotiates(v, d) /\ Description(d) \in Nat
      /\ d.neg.st \in {"NULL", "LOCAL_OFFER"} => d.neg.act = <<0, 0>>
  BY <1>2, <1>3, <1>4, DescribeLemma
<1>6. Core(d, r) /\ r.state = CONNECTING /\ r.neg = d.neg /\ r.cause = d.cause /\ r.out = d.out
  <2>1. PICK z \in NULL..DISCONNECTED : z = CONNECTING
    BY StateOrder
  <2>2. r = [d EXCEPT !.state = z] /\ d \in Session
    BY <1>5, <2>1 DEF Negotiates, Core
  <2> QED BY <2>1, <2>2 DEF Core, Session
<1> HIDE DEF r
<1>7. PICK s \in Nat : s = Description(d)
  BY <1>5
<1>8. r \in Session /\ w = Accept(r, i, s)
  BY <1>6, <1>7 DEF Core
<1> HIDE DEF w
<1>9. /\ Goes(r, w, i, "accepted", r.itsx)
      /\ w.state = r.state /\ w.neg = r.neg /\ w.cause = r.cause
      /\ w.lapsed = r.lapsed
      /\ w.out = r.out \cup {[to |-> Peer(r.role), t |-> "200", i |-> i, sdp |-> s]}
      /\ Says(r, w, {"200"})
  BY <1>3, <1>8, AcceptLemma
<1>10. /\ Goes(v, w, i, "accepted", i) /\ w.state = CONNECTING /\ w.neg = d.neg
       /\ w.cause = v.cause /\ w.lapsed = v.lapsed
       /\ \A n \in w.out : n.to = "uac" /\ n.t = "200" /\ n.i = i
  BY <1>2, <1>4, <1>5, <1>6, <1>9 DEF Core, Negotiates, Goes
<1>11. /\ Stepped(v, w) /\ w.state < CONFIRMED /\ w.state \notin {NULL, CONFIRMED}
       /\ w.state \notin {INCOMING, EARLY}
  BY <1>1, <1>10, StateOrder DEF Stepped
<1>12. w \in Session /\ w.role = "uas" /\ w.mine = v.mine
  BY <1>2, <1>10 DEF Goes
<1>13. Ctx("uas", w, i, net)
  BY <1>2, <1>3, <1>12 DEF Ctx
<1>14. \A n \in w.out : /\ n.to = Peer("uas") /\ n.t \in Finals /\ n.i = i /\ n.t # "BYE"
  BY <1>2, <1>10 DEF Finals
<1>15. Moves("uas", w, i, net)
  BY <1>2, <1>3, <1>4, <1>10, <1>11, <1>13, <1>14, AnswerMoves DEF v
<1>16. \A j \in Ids \ {i} : w.tsx[j] = v.tsx[j]
  BY <1>2, <1>3, <1>10 DEF Goes, Session
<1>17. Watches("uas", w)
  BY <1>2, <1>3, <1>10, <1>11, <1>12, <1>14, <1>16, WatchLemma DEF v
<1>18. Closable(w)
  BY <1>5, <1>10, <1>11 DEF Closable
<1> QED BY <1>1, <1>2, <1>15, <1>17, <1>18, StepKept

(* The user ends a session that was answered.                              *)
LEMMA EndAnsweredKept ==
    ASSUME IInv, NEW e \in Ends, NEW c \in Codes, inv[e].state \in {CONNECTING, CONFIRMED},
           Becomes(e, EndSession(inv[e], c), net)
    PROVE  IInv'
<1> DEFINE v == inv[e]
           w == EndSession(v, c)
<1>1. /\ v \in Session /\ v.role = e /\ v.out = {} /\ TypeOK /\ Calls /\ Closable(v)
      /\ Callers /\ c \in Nat /\ 1 \in Ids
  BY InviteAssumption DEF IInv, TypeOK, Offers, Ids
<1>2. v.state \in {CONNECTING, CONFIRMED} /\ v.state >= CONNECTING /\ v.state # INCOMING
  BY StateOrder
<1>3. /\ e = "uas" /\ ~(inv["uac"].state >= CONNECTING) => v.state # CONFIRMED /\ v.mine = {}
      /\ e = "uas" /\ Codes \cap Passing = {} => (v.cause \in Passing => v.lapsed)
  BY <1>1 DEF Callers
<1>4. Becomes(e, w, net)
  OBVIOUS
<1> HIDE DEF v
<1>5. /\ Core(v, w) /\ w.state = v.state /\ w.neg = v.neg
      /\ w.cause \in {v.cause, c} /\ Says(v, w, {"BYE"})
      /\ v.role = "uas" /\ v.state = CONNECTING /\ {v.cause, c} \cap Passing = {} => w.out = v.out
  BY <1>1, EndSessionLemma
<1> HIDE DEF w
<1>6. w.out \subseteq Chat(e) /\ \A n \in w.out : n.t \in {"BYE"}
  BY <1>1, <1>5, ChatSays
<1>7. /\ w \in Session /\ w.role = e /\ w.mine = v.mine /\ w.tsx = v.tsx /\ w.itsx = v.itsx
      /\ w.lapsed = v.lapsed
  BY <1>1, <1>5 DEF Core
<1>8. Stepped(v, w)
  BY <1>5 DEF Stepped
<1>9. Ctx(e, w, 1, net)
  BY <1>1, <1>7 DEF Ctx
<1>10. Moves(e, w, 1, net)
  BY <1>5, <1>6, <1>8, <1>9, StillMoves DEF v
<1>11. v.state <= w.state
  BY <1>1, <1>7, <1>8, SteppedLemma
<1>12. Watches(e, w)
  <2>1. CASE e = "uac"
    BY <2>1, <1>2, <1>5, <1>6, <1>11 DEF Watches, v
  <2>2. CASE e = "uas"
    <3>1. Codes \cap Passing = {} => (w.cause \in Passing => w.lapsed)
      BY <2>2, <1>3, <1>5, <1>7
    <3>2. ASSUME ~(inv["uac"].state >= CONNECTING), Codes \cap Passing = {}
          PROVE  w.lapsed \/ \A n \in w.out : n.t # "BYE"
      <4>1. v.state = CONNECTING
        BY <2>2, <3>2, <1>2, <1>3
      <4>2. CASE v.cause \in Passing
        BY <2>2, <3>2, <4>2, <1>3, <1>7
      <4>3. CASE v.cause \notin Passing
        BY <2>2, <3>2, <4>1, <4>3, <1>1, <1>5
      <4> QED BY <4>2, <4>3
    <3> QED BY <2>2, <3>1, <3>2, <1>3, <1>5, <1>7 DEF Watches, v
  <2> QED BY <2>1, <2>2 DEF Ends
<1>13. Closable(w)
  BY <1>1, <1>5, <1>7 DEF Closable
<1> QED BY <1>4, <1>10, <1>12, <1>13, StepKept

(* The callee rejects the call.                                            *)
LEMMA EndIncomingKept ==
    ASSUME IInv, NEW s \in Session, inv["uas"].state \in {INCOMING, EARLY},
           inv["uas"].itsx # 0, Core(inv["uas"], s), s.state = inv["uas"].state,
           s.neg = inv["uas"].neg, s.out = {},
           Becomes("uas", Disconnect(Reject(s, inv["uas"].itsx, "487")), net)
    PROVE  IInv'
<1> DEFINE v == inv["uas"]
           i == v.itsx
           r == Reject(s, i, "487")
           w == Disconnect(r)
<1>1. /\ v \in Session /\ v.role = "uas" /\ TypeOK /\ Calls /\ Closable(v)
      /\ "uas" \in Ends /\ Peer("uas") = "uac" /\ "487" \in Rejections
  BY DEF IInv, TypeOK, Offers, Ends, Peer, Rejections
<1>2. /\ i \in Ids /\ v.tsx[i] = "proceeding" /\ v.mine = {}
      /\ i \in inv["uac"].mine /\ v.state # NULL /\ v.state < CONFIRMED
      /\ \A n \in net : n.i = i => n.t # "INVITE"
  BY PendingLemma
<1>3. v.itsx = i /\ Core(v, s) /\ Becomes("uas", w, net) /\ s.neg = v.neg
  OBVIOUS
<1>4. v.state <= DISCONNECTED
  BY StateOrder
<1> HIDE DEF v, i
<1>5. /\ Goes(s, r, i, "rejected", s.itsx)
      /\ r.state = s.state /\ r.neg = s.neg /\ r.cause = s.cause /\ r.lapsed = s.lapsed
      /\ r.out = s.out \cup {[to |-> Peer(s.role), t |-> "487", i |-> i, sdp |-> 0]}
      /\ Says(s, r, {"487"})
  BY <1>1, <1>2, RejectLemma
<1> HIDE DEF r
<1>6. r \in Session
  BY <1>5 DEF Goes
<1>7. /\ Core(r, w) /\ w.state = DISCONNECTED /\ w.neg = r.neg /\ w.cause = 0
      /\ w.out = r.out
  BY <1>6, DisconnectLemma
<1> HIDE DEF w
<1>8. /\ Goes(v, w, i, "rejected", i) /\ w.state = DISCONNECTED /\ w.neg = v.neg
      /\ w.lapsed = v.lapsed /\ w.cause = 0
      /\ \A n \in w.out : n.to = "uac" /\ n.t = "487" /\ n.i = i
  BY <1>1, <1>3, <1>5, <1>7 DEF Goes, Core
<1>9. w \in Session /\ w.role = "uas" /\ w.mine = v.mine
  BY <1>1, <1>8 DEF Goes
<1>10. Stepped(v, w) /\ w.state \notin {INCOMING, EARLY} /\ w.state # CONFIRMED
  BY <1>4, <1>8, StateOrder DEF Stepped
<1>11. Ctx("uas", w, i, net)
  BY <1>1, <1>2, <1>9 DEF Ctx
<1>12. \A n \in w.out : /\ n.to = Peer("uas") /\ n.t \in Finals /\ n.i = i /\ n.t # "BYE"
  BY <1>1, <1>8 DEF Finals, Rejections
<1>13. Moves("uas", w, i, net)
  BY <1>2, <1>3, <1>1, <1>8, <1>10, <1>11, <1>12, AnswerMoves DEF v
<1>14. \A j \in Ids \ {i} : w.tsx[j] = v.tsx[j]
  BY <1>1, <1>2, <1>8 DEF Goes, Session
<1>15. Watches("uas", w)
  BY <1>1, <1>2, <1>8, <1>9, <1>10, <1>12, <1>14, WatchLemma DEF v
<1>16. w.state # NULL /\ ~(w.state < CONFIRMED)
  BY <1>8, StateOrder
<1>17. Closable(w)
  BY <1>1, <1>8, <1>10, <1>16 DEF Closable
<1> QED BY <1>1, <1>3, <1>13, <1>15, <1>17, StepKept

(* The caller asks for a CANCEL.                                           *)
LEMMA EndCallingKept ==
    ASSUME IInv, NEW s \in Session, inv["uac"].itsx # 0, Core(inv["uac"], s),
           s.state = inv["uac"].state, s.neg = inv["uac"].neg, s.cause = inv["uac"].cause,
           s.out = {}, NEW w, w = [s EXCEPT !.pending_cancel = TRUE] \/ w = Cancel(s),
           Becomes("uac", w, net)
    PROVE  IInv'
<1> DEFINE v == inv["uac"]
<1>1. /\ v \in Session /\ v.role = "uac" /\ v.out = {} /\ "uac" \in Ends
      /\ Core(v, s) /\ s.state = v.state /\ s.neg = v.neg /\ s.cause = v.cause /\ v.itsx # 0
  BY DEF IInv, TypeOK, Ends
<1> HIDE DEF v
<1>2. /\ Core(s, w) /\ w.state = s.state /\ w.neg = s.neg /\ w.cause = s.cause
      /\ Says(s, w, {"CANCEL"})
  <2>1. CASE w = [s EXCEPT !.pending_cancel = TRUE]
    <3>1. PICK b \in BOOLEAN : b = TRUE
      OBVIOUS
    <3>2. w = [s EXCEPT !.pending_cancel = b]
      BY <2>1, <3>1
    <3> QED BY <3>2 DEF Core, Session, Says
  <2>2. CASE w = Cancel(s)
    <3>1. s.itsx # 0
      BY <1>1 DEF Core
    <3> QED BY <2>2, <3>1, CancelLemma
  <2> QED BY <2>1, <2>2
<1>3. Core(v, w) /\ Settles(v, w) /\ Stepped(v, w) /\ w.cause = v.cause /\ w.neg = v.neg
  BY <1>1, <1>2 DEF Core, Settles, Stepped
<1>4. w.out \subseteq Chat("uac") /\ \A n \in w.out : n.t = "CANCEL"
  <2>1. s.role = "uac" /\ s.out = {}
    BY <1>1 DEF Core
  <2> QED BY <1>2, <2>1 DEF Says, Chat, Out
<1>5. net \in SUBSET net
  OBVIOUS
<1>6. Keeps("uac", w, net)
  BY <1>1, <1>3, <1>4, <1>5, StillKeeps DEF v
<1> QED BY <1>1, <1>6, StepKept DEF Keeps

(* Either user ends the call, whatever state it is in: by a CANCEL, a      *)
(* rejection or a BYE, at once or later.                                   *)
LEMMA EndKept ==
    ASSUME IInv, NEW e \in Ends, NEW c \in Codes, End(e, c)
    PROVE  IInv'
<1> DEFINE v == inv[e]
           u == SetCause(v, c)
           s == [u EXCEPT !.cancelling = TRUE]
<1>1. /\ v \in Session /\ v.role = e /\ v.out = {} /\ c \in Nat /\ v.state \in 0..6
      /\ Callers /\ Callee(inv["uas"])
  BY InviteAssumption, StateOrder DEF IInv, TypeOK, Session, Calls
<1>2. v.state \notin {NULL, DISCONNECTED} /\ (v.itsx = 0 => v.state \in {CONNECTING, CONFIRMED})
  BY DEF End
<1>3. CASE v.state \in {CONNECTING, CONFIRMED}
  <2>1. Becomes(e, EndSession(v, c), net)
    BY <1>3, StateOrder DEF End
  <2> QED BY <1>3, <2>1, EndAnsweredKept
<1>4. CASE v.state \notin {CONNECTING, CONFIRMED}
  <2>1. v.state < CONNECTING /\ v.itsx # 0
    BY <1>1, <1>2, <1>4, StateOrder
  <2>2. /\ Core(v, u) /\ u.state = v.state /\ u.neg = v.neg /\ u.out = v.out
        /\ u.cause \in {v.cause, c}
    BY <1>1, SetCauseLemma
  <2>3. e = "uac" => u.cause = v.cause
    BY <1>1 DEF SetCause
  <2>4. /\ e = "uas" => Becomes(e, Disconnect(Reject(s, v.itsx, "487")), net)
        /\ e # "uas" => \E w : /\ w = [s EXCEPT !.pending_cancel = TRUE] \/ w = Cancel(s)
                               /\ Becomes(e, w, net)
    <3>1. CASE e = "uas"
      BY <3>1, <2>1, <1>4 DEF End
    <3>2. CASE e # "uas"
      <4>1. Becomes(e, IF v.tsx[v.itsx] = "calling"
                       THEN [s EXCEPT !.pending_cancel = TRUE] ELSE Cancel(s), net)
        BY <3>2, <1>4 DEF End
      <4> HIDE DEF s
      <4> QED BY <3>2, <4>1
    <3> QED BY <3>1, <3>2
  <2> HIDE DEF u
  <2>5. Core(u, s) /\ s.state = u.state /\ s.neg = u.neg /\ s.cause = u.cause /\ s.out = u.out
    <3>1. PICK b \in BOOLEAN : b = TRUE
      OBVIOUS
    <3>2. s = [u EXCEPT !.cancelling = b] /\ u \in Session
      BY <3>1, <2>2 DEF Core
    <3> HIDE DEF s
    <3> QED BY <3>2 DEF Core, Session
  <2> HIDE DEF s
  <2>6. /\ Core(v, s) /\ s \in Session /\ s.state = v.state /\ s.neg = v.neg /\ s.out = {}
        /\ e = "uac" => s.cause = v.cause
    BY <1>1, <2>2, <2>3, <2>5 DEF Core
  <2>7. CASE e = "uas"
    <3>1. v.state # CALLING
      BY <1>1, <2>7 DEF Callee
    <3>2. v.state \in {INCOMING, EARLY}
      BY <1>1, <1>2, <2>1, <3>1, StateOrder
    <3> QED BY <2>1, <2>4, <2>6, <2>7, <3>2, EndIncomingKept
  <2>8. CASE e # "uas"
    <3>1. e = "uac"
      BY <2>8 DEF Ends
    <3> QED BY <2>1, <2>4, <2>6, <2>8, <3>1, EndCallingKept
  <2> QED BY <2>7, <2>8
<1> QED BY <1>3, <1>4

(* The next INVITE has a number that was not used.                         *)
LEMMA NumberLemma ==
    ASSUME Numbered
    PROVE  LET i == Cardinality(Used) + 1
           IN  /\ i \in Nat \ {0} /\ i \notin Used
               /\ i <= MaxInvites => Used \cup {i} = 1..i /\ i \in 0..MaxInvites
<1>1. PICK k \in 0..MaxInvites : Used = 1..k
  BY DEF Numbered
<1>2. k \in Nat
  BY InviteAssumption
<1>3. Cardinality(1..k) = k
  BY <1>2, 1 \in Int, FS_Interval
<1> QED BY <1>1, <1>2, <1>3, InviteAssumption

(* What the user does to the session, without the message.                 *)
Call(v, i, n, z) == [v EXCEPT !.state = z, !.neg = n, !.itsx = i, !.tsx[i] = "calling",
                              !.mine = @ \cup {i}]

(* A new INVITE is the end's own and becomes invite_tsx.                   *)
LEMMA CallLemma ==
    ASSUME NEW v \in Session, NEW i \in Ids, NEW n \in Neg, NEW z \in NULL..DISCONNECTED
    PROVE  LET w == Call(v, i, n, z)
           IN  /\ w \in Session /\ w.role = v.role /\ w.state = z /\ w.neg = n /\ w.itsx = i
               /\ w.tsx = [v.tsx EXCEPT ![i] = "calling"] /\ w.mine = v.mine \cup {i}
               /\ w.cause = v.cause /\ w.lapsed = v.lapsed /\ w.out = v.out
<1>1. PICK r \in [Ids -> TsxStates] : r = [v.tsx EXCEPT ![i] = "calling"]
  BY DEF Session, TsxStates
<1>2. PICK u \in SUBSET Ids : u = v.mine \cup {i}
  BY DEF Session
<1>3. PICK j \in 0..MaxInvites : j = i
  BY InviteAssumption DEF Ids
<1>4. Call(v, i, n, z) = [v EXCEPT !.state = z, !.neg = n, !.itsx = j, !.tsx = r, !.mine = u]
  BY <1>1, <1>2, <1>3 DEF Call, Session
<1> QED BY <1>1, <1>2, <1>3, <1>4 DEF Session

(* The INVITE is sent, with an offer or without.                           *)
LEMMA InviteSent ==
    ASSUME IInv, NEW e \in Ends, NEW offer \in BOOLEAN, Invite(e, offer)
    PROVE  LET v == inv[e]
               i == Cardinality(Used) + 1
           IN  /\ i \in Ids
               /\ (v.state = NULL /\ e = "uac") \/ (v.state = CONFIRMED /\ v.itsx = 0)
               /\ \E w \in Session :
                    /\ Becomes(e, w, net) /\ w.role = e
                    /\ w.state = IF v.state = NULL THEN CALLING ELSE v.state
                    /\ w.neg = v.neg \/ w.neg.st = "WAIT_NEGO"
                       \/ (w.neg.st # "NULL" /\ w.neg.act = v.neg.act)
                    /\ w.itsx = i /\ w.tsx = [v.tsx EXCEPT ![i] = "calling"]
                    /\ w.mine = v.mine \cup {i} /\ w.cause = v.cause /\ w.lapsed = v.lapsed
                    /\ \E d \in Nat :
                         w.out = {[to |-> Peer(e), t |-> "INVITE", i |-> i, sdp |-> d]}
<1> DEFINE v == inv[e]
           i == Cardinality(Used) + 1
           n == IF ~offer THEN v.neg
                ELSE IF v.neg.st = "REMOTE_OFFER" THEN LocalAnswer(v.neg)
                ELSE LocalOffer(v.neg, i)
           z == IF v.state = NULL THEN CALLING ELSE v.state
           d == IF n.st \in {"LOCAL_OFFER", "WAIT_NEGO"} THEN n.loc ELSE 0
           x == Call(v, i, n, z)
           w == Send(x, "INVITE", i, d)
<1>1. /\ i \in Ids
      /\ (v.state = NULL /\ e = "uac") \/ (v.state = CONFIRMED /\ v.itsx = 0)
      /\ Becomes(e, w, net)
  BY DEF Invite, Call
<1>2. v \in Session /\ v.role = e /\ v.out = {}
  BY DEF IInv, TypeOK
<1>2a. i \in Nat /\ 0 \in Nat /\ i \in 0..MaxInvites
  <2> HIDE DEF i
  <2> QED BY <1>1, InviteAssumption DEF Ids
<1>3. z \in NULL..DISCONNECTED
  BY <1>2, StateOrder DEF Session
<1> HIDE DEF i, v, z
<1>4. v.neg \in Neg
  BY <1>2 DEF Session
<1>5. /\ n \in Neg
      /\ n = v.neg \/ n.st = "WAIT_NEGO" \/ (n.st # "NULL" /\ n.act = v.neg.act)
  <2>1. CASE ~offer
    BY <2>1, <1>4
  <2>2. CASE offer /\ v.neg.st = "REMOTE_OFFER"
    <3>1. LocalAnswer(v.neg) \in Neg /\ LocalAnswer(v.neg).st = "WAIT_NEGO"
      BY <1>2a, <1>4, NegLemma
    <3> QED BY <2>2, <3>1
  <2>3. CASE offer /\ v.neg.st # "REMOTE_OFFER"
    <3>1. /\ LocalOffer(v.neg, i) \in Neg /\ LocalOffer(v.neg, i).act = v.neg.act
          /\ v.neg.st \in {"NULL", "DONE"} => LocalOffer(v.neg, i).st = "LOCAL_OFFER"
          /\ v.neg.st \notin {"NULL", "DONE"} => LocalOffer(v.neg, i) = v.neg
      BY <1>2a, <1>4, NegLemma
    <3> QED BY <2>3, <3>1
  <2> QED BY <2>1, <2>2, <2>3
<1>6. d \in Nat
  BY <1>5 DEF Neg
<1> HIDE DEF n, d
<1>7. /\ x \in Session /\ x.role = v.role /\ x.state = z /\ x.neg = n /\ x.itsx = i
      /\ x.tsx = [v.tsx EXCEPT ![i] = "calling"] /\ x.mine = v.mine \cup {i}
      /\ x.cause = v.cause /\ x.lapsed = v.lapsed /\ x.out = v.out
  <2>1. v \in Session /\ i \in Ids /\ n \in Neg /\ z \in NULL..DISCONNECTED
    BY <1>1, <1>2, <1>3, <1>5
  <2> QED BY <2>1, CallLemma
<1> HIDE DEF x
<1>8. /\ "INVITE" \in MessageTypes /\ "INVITE" \notin {"BYE", "OK"} /\ i \in 0..MaxInvites
      /\ i \in Ids /\ d \in Nat /\ x \in Session
  <2>1. "INVITE" \in MessageTypes /\ "INVITE" \notin {"BYE", "OK"}
    BY DEF MessageTypes, Requests
  <2> QED BY <2>1, <1>1, <1>2a, <1>6, <1>7
<1>9. /\ Core(x, w) /\ w.state = x.state /\ w.neg = x.neg /\ w.cause = x.cause
      /\ w.out = x.out \cup {[to |-> Peer(x.role), t |-> "INVITE", i |-> i, sdp |-> d]}
      /\ Says(x, w, {"INVITE"})
  BY <1>8, SendLemma
<1> HIDE DEF w
<1>10. /\ w \in Session /\ w.role = e /\ w.state = z /\ w.neg = n /\ w.itsx = i
       /\ w.tsx = [v.tsx EXCEPT ![i] = "calling"] /\ w.mine = v.mine \cup {i}
       /\ w.cause = v.cause /\ w.lapsed = v.lapsed
  BY <1>2, <1>7, <1>9 DEF Core
<1>11. w.out = {[to |-> Peer(e), t |-> "INVITE", i |-> i, sdp |-> d]}
  BY <1>2, <1>7, <1>9
<1>12. w.neg = v.neg \/ w.neg.st = "WAIT_NEGO" \/ (w.neg.st # "NULL" /\ w.neg.act = v.neg.act)
  BY <1>5, <1>10
<1>13. \E k \in Nat : w.out = {[to |-> Peer(e), t |-> "INVITE", i |-> i, sdp |-> k]}
  BY <1>6, <1>11
<1>14. \E u \in Session :
         /\ Becomes(e, u, net) /\ u.role = e /\ u.state = z
         /\ u.neg = v.neg \/ u.neg.st = "WAIT_NEGO" \/ (u.neg.st # "NULL" /\ u.neg.act = v.neg.act)
         /\ u.itsx = i /\ u.tsx = [v.tsx EXCEPT ![i] = "calling"]
         /\ u.mine = v.mine \cup {i} /\ u.cause = v.cause /\ u.lapsed = v.lapsed
         /\ \E k \in Nat : u.out = {[to |-> Peer(e), t |-> "INVITE", i |-> i, sdp |-> k]}
  BY <1>1, <1>10, <1>12, <1>13
<1> QED BY <1>1, <1>14 DEF v, i, z

(* A new INVITE, to begin a call or in an established one, and only while  *)
(* none is pending.                                                        *)
LEMMA InviteKept ==
    ASSUME IInv, NEW e \in Ends, NEW offer \in BOOLEAN, Invite(e, offer)
    PROVE  IInv'
<1> DEFINE f == Peer(e)
           v == inv[e]
           p == inv[f]
           i == Cardinality(Used) + 1
<1>1. /\ i \in Ids
      /\ (v.state = NULL /\ e = "uac") \/ (v.state = CONFIRMED /\ v.itsx = 0)
  BY InviteSent
<1>2. PICK w \in Session :
        /\ Becomes(e, w, net) /\ w.role = e
        /\ w.state = IF v.state = NULL THEN CALLING ELSE v.state
        /\ w.neg = v.neg \/ w.neg.st = "WAIT_NEGO" \/ (w.neg.st # "NULL" /\ w.neg.act = v.neg.act)
        /\ w.itsx = i /\ w.tsx = [v.tsx EXCEPT ![i] = "calling"]
        /\ w.mine = v.mine \cup {i} /\ w.cause = v.cause /\ w.lapsed = v.lapsed
        /\ \E d \in Nat : w.out = {[to |-> f, t |-> "INVITE", i |-> i, sdp |-> d]}
  BY InviteSent
<1>3. PICK d \in Nat : w.out = {[to |-> f, t |-> "INVITE", i |-> i, sdp |-> d]}
  BY <1>2
<1>4. TypeOK /\ Calls /\ Callers /\ Offers /\ Numbered
  BY DEF IInv, Calls
<1>5. i \in Nat \ {0} /\ i \notin Used /\ (i <= MaxInvites => Used \cup {i} = 1..i /\ i \in 0..MaxInvites)
  BY <1>4, NumberLemma
<1> HIDE DEF i
<1>6. f \in Ends /\ f # e /\ Peer(f) = e /\ Ends = {e, f}
  BY Peers DEF Ends, Peer
<1>7. /\ v \in Session /\ p \in Session /\ v.role = e /\ v.mine \subseteq Ids /\ p.mine \subseteq Ids
      /\ v.state \in 0..6
  BY <1>4, <1>6, StateOrder DEF TypeOK, Session
<1>8. Used = v.mine \cup p.mine /\ v.mine \cap p.mine = {} /\ i \notin v.mine /\ i \notin p.mine
  BY <1>4, <1>5, <1>6 DEF Used, Numbered, Ends
<1>9. /\ Owns(v) /\ Fresh(v) /\ Glareless(v) /\ (e = "uas" => Callee(v)) /\ Closable(v)
      /\ Owns(p) /\ Fresh(p) /\ Glareless(p) /\ (f = "uas" => Callee(p)) /\ Closable(p)
      /\ Served(v, p) /\ Served(p, v)
      /\ \A j \in Ids : v.tsx[j] # "none" => j \in Used
      /\ \A j \in Ids : p.tsx[j] # "none" => j \in Used
  BY <1>4, <1>6 DEF Calls, Offers
<1>10. v.itsx = 0 /\ v.tsx[i] = "none" /\ p.tsx[i] = "none"
  BY <1>1, <1>5, <1>9 DEF Fresh
<1> DEFINE x == [w EXCEPT !.out = {}]
<1>11. TypeOK' /\ net' = net \cup w.out /\ inv'[e] = x /\ inv'[f] = p
  <2>1. net \in SUBSET net
    OBVIOUS
  <2> QED BY <1>2, <1>4, <2>1, BecomesLemma
<1>12. /\ x.role = w.role /\ x.state = w.state /\ x.itsx = i /\ x.neg = w.neg
       /\ x.tsx = w.tsx /\ x.mine = v.mine \cup {i} /\ x.cause = v.cause /\ x.lapsed = v.lapsed
  BY <1>2, SentLemma
<1> HIDE DEF x, v, p, f
<1>13. x.tsx[i] = "calling" /\ \A j \in Ids \ {i} : x.tsx[j] = v.tsx[j]
  BY <1>1, <1>2, <1>7, <1>12 DEF Session
<1>14. /\ x.state \in {CALLING, CONFIRMED} /\ x.state # NULL
       /\ e = "uas" => x.state = CONFIRMED
       /\ v.state >= CONNECTING => x.state >= CONNECTING
       /\ x.state = CONFIRMED => v.state = CONFIRMED
       /\ x.state = CALLING => v.state = NULL /\ e = "uac"
  BY <1>1, <1>2, <1>12, StateOrder
<1>15. Used' = 1..i /\ Used' = Used \cup {i} /\ Numbered'
  <2>1. Used' = x.mine \cup p.mine
    BY <1>6, <1>11 DEF Used, Ends
  <2>2. i <= MaxInvites
    BY <1>1, <1>5 DEF Ids
  <2>3. Used' = 1..i /\ Used' = Used \cup {i} /\ i \in 0..MaxInvites
    BY <2>1, <2>2, <1>5, <1>8, <1>12
  <2>4. x.mine \cap p.mine = {}
    BY <1>8, <1>12
  <2> QED BY <2>3, <2>4, <1>6, <1>11 DEF Numbered, Ends
<1>16. Owns(x)
  <2> SUFFICES ASSUME NEW j \in Ids
               PROVE  /\ j \in x.mine => x.tsx[j] \in Open \cup {"over"}
                      /\ j \notin x.mine => x.tsx[j] # "calling"
                      /\ x.tsx[j] \in Open \cup {"accepted"} => x.itsx = j
                      /\ j = x.itsx => x.tsx[j] # "none"
    BY DEF Owns
  <2>1. CASE j = i
    BY <2>1, <1>12, <1>13 DEF Open
  <2>2. CASE j # i
    BY <2>2, <1>9, <1>10, <1>12, <1>13 DEF Owns, Ids
  <2> QED BY <2>1, <2>2
<1>17. Fresh(x) /\ Glareless(x) /\ (e = "uas" => Callee(x))
  <2>1. \A j \in Ids : v.tsx[j] # "accepted"
    BY <1>9, <1>10 DEF Owns, Ids
  <2>2. \A j \in Ids : x.tsx[j] # "accepted"
    BY <2>1, <1>13
  <2>3. e = "uas" => Callee(x)
    BY <1>14, StateOrder DEF Callee
  <2> QED BY <2>2, <2>3, <1>14 DEF Fresh, Glareless
<1>18. Served(x, p) /\ Served(p, x)
  BY <1>7, <1>8, <1>9, <1>10, <1>12, <1>13 DEF Served
<1>19. /\ \A j \in Ids : x.tsx[j] # "none" => j \in Used'
       /\ \A j \in Ids : p.tsx[j] # "none" => j \in Used'
  BY <1>9, <1>13, <1>15
<1>20. ASSUME NEW n \in net
       PROVE  /\ n.i = i => n.t \notin {"INVITE"} \cup Provisionals \cup Finals
              /\ Carried(n, inv'[n.to], inv'[Peer(n.to)])
  <2>1. Carried(n, inv[n.to], inv[Peer(n.to)]) /\ n.to \in {e, f}
    BY <1>4, <1>6 DEF Calls, TypeOK, Message
  <2>2. CASE n.to = e
    <3>1. Carried(n, v, p)
      BY <2>1, <2>2 DEF v, p, f
    <3>2. n.i = i => n.t \notin {"INVITE"} \cup Provisionals \cup Finals
      BY <3>1, <1>8 DEF Carried
    <3>3. Carried(n, x, p)
      BY <3>1, <3>2, <1>7, <1>12, <1>13 DEF Carried
    <3> QED BY <3>2, <3>3, <2>2, <1>6, <1>11 DEF f
  <2>3. CASE n.to = f
    <3>1. Carried(n, p, v)
      BY <2>1, <2>3, <1>6 DEF v, p
    <3>2. n.i = i => n.t \notin {"INVITE"} \cup Provisionals \cup Finals
      BY <3>1, <1>8 DEF Carried
    <3>3. Carried(n, p, x)
      BY <3>1, <3>2, <1>7, <1>12, <1>13 DEF Carried
    <3> QED BY <3>2, <3>3, <2>3, <1>6, <1>11
  <2> QED BY <2>1, <2>2, <2>3
<1>21. ASSUME NEW n \in w.out
       PROVE  n.to = f /\ n.t = "INVITE" /\ n.i = i /\ Carried(n, inv'[n.to], inv'[Peer(n.to)])
  <2>1. n.to = f /\ n.t = "INVITE" /\ n.i = i
    BY <1>3
  <2>2. Carried(n, p, x)
    BY <2>1, <1>1, <1>10, <1>12, <1>13 DEF Carried, Provisionals, Finals, Rejections, Open
  <2> QED BY <2>1, <2>2, <1>6, <1>11
<1>22. \A m, n \in net' : m.t = "INVITE" /\ n.t = "INVITE" /\ m.i = n.i => m = n
  <2>1. \A m, n \in w.out : m = n
    BY <1>3
  <2>2. \A m, n \in net : m.t = "INVITE" /\ n.t = "INVITE" /\ m.i = n.i => m = n
    BY <1>4 DEF Calls
  <2>3. \A n \in net : n.t = "INVITE" => n.i # i
    BY <1>20
  <2> QED BY <2>1, <2>2, <2>3, <1>11, <1>21
<1>23. Callee(inv["uas"])'
  BY <1>6, <1>9, <1>11, <1>17 DEF Ends
<1>24. Calls'
  <2>1. \A n \in net' : Carried(n, inv'[n.to], inv'[Peer(n.to)])
    BY <1>11, <1>20, <1>21
  <2>2. \A h \in Ends : /\ Owns(inv'[h]) /\ Fresh(inv'[h]) /\ Glareless(inv'[h])
                        /\ Served(inv'[h], inv'[Peer(h)])
                        /\ \A j \in Ids : inv'[h].tsx[j] # "none" => j \in Used'
    <3>1. Peer(e) = f
      BY DEF f
    <3> QED BY <3>1, <1>6, <1>9, <1>11, <1>16, <1>17, <1>18, <1>19
  <2> QED BY <2>1, <2>2, <1>15, <1>22, <1>23 DEF Calls
<1>25. Callers' /\ CallerKnows'
  <2>1. \A n \in net' : n \in net \/ n.t = "INVITE"
    BY <1>11, <1>21
  <2>2. CallerKnows
    BY DEF IInv
  <2>3. CASE e = "uac"
    <3>1. inv'["uac"] = x /\ inv'["uas"] = inv["uas"] /\ inv["uac"] = v
      BY <2>3, <1>11 DEF f, p, v, Peer
    <3>2. x.state # INCOMING
      BY <1>14, StateOrder
    <3>3. \A j \in Ids : x.tsx[j] \in {"accepted", "rejected", "over"} => x.state >= CONNECTING
      <4>1. \A j \in Ids : v.tsx[j] \in {"accepted", "rejected", "over"} => v.state >= CONNECTING
        BY <3>1, <1>4 DEF Callers
      <4> QED BY <4>1, <1>13, <1>14
    <3>4. Callers'
      BY <2>1, <3>1, <3>2, <3>3, <1>4, <1>14 DEF Callers
    <3> QED BY <2>1, <2>2, <3>1, <3>4, <1>14 DEF CallerKnows
  <2>4. CASE e = "uas"
    <3>1. inv'["uas"] = x /\ inv'["uac"] = inv["uac"] /\ inv["uas"] = v
      BY <2>4, <1>11 DEF f, p, v, Peer
    <3>2. v.state = CONFIRMED
      BY <2>4, <1>14
    <3>3. inv["uac"].state >= CONNECTING
      BY <3>1, <3>2, <1>4 DEF Callers
    <3>4. Callers'
      BY <3>1, <3>3, <1>4, <1>12 DEF Callers
    <3> QED BY <3>1, <3>3, <3>4 DEF CallerKnows
  <2> QED BY <2>3, <2>4 DEF Ends
<1>26. Closable(x)
  <2>1. x.itsx # 0 /\ x.tsx[x.itsx] # "rejected"
    BY <1>5, <1>12, <1>13
  <2>2. \/ x.neg = v.neg \/ x.neg.st = "WAIT_NEGO"
        \/ (x.neg.st # "NULL" /\ x.neg.act = v.neg.act)
    BY <1>2, <1>12
  <2>3. x.state < CONFIRMED => v.state = NULL
    BY <1>14, StateOrder
  <2> QED BY <2>1, <2>2, <2>3, <1>9, <1>14 DEF Closable
<1>27. Offers'
  BY <1>6, <1>9, <1>11, <1>26 DEF Offers
<1> QED BY <1>11, <1>24, <1>25, <1>27 DEF IInv

-----------------------------------------------------------------------------
(* The invariant of the specification.                                     *)

(* The invariant holds in the initial states.                              *)
LEMMA Initial == Init => IInv
<1> SUFFICES ASSUME Init PROVE IInv
  OBVIOUS
<1>1. inv = [e \in Ends |-> New(e)] /\ net = {}
  BY DEF Init
<1>2. ASSUME NEW e \in Ends
      PROVE  /\ New(e) \in Session /\ New(e).role = e /\ New(e).out = {} /\ New(e).state = NULL
             /\ New(e).itsx = 0 /\ New(e).mine = {} /\ New(e).neg = NewNeg /\ New(e).cause = 0
             /\ \A i \in Ids : New(e).tsx[i] = "none"
  <2>1. /\ NULL \in NULL..DISCONNECTED /\ 0 \in 0..MaxInvites /\ 0 \in Nat
        /\ FALSE \in BOOLEAN
    BY StateOrder, InviteAssumption
  <2>2. [i \in Ids |-> "none"] \in [Ids -> TsxStates]
    BY DEF TsxStates
  <2>3. NewNeg \in Neg
    BY DEF NewNeg, Neg, NegStates
  <2>4. PICK t \in [Ids -> TsxStates], n \in Neg, b \in BOOLEAN, z \in 0..MaxInvites,
             s \in NULL..DISCONNECTED, c \in Nat :
           /\ t = [i \in Ids |-> "none"] /\ n = NewNeg /\ b = FALSE /\ z = 0 /\ s = NULL /\ c = 0
    BY <2>1, <2>2, <2>3
  <2>5. New(e) = [role |-> e, state |-> s, itsx |-> z, tsx |-> t, mine |-> {}, neg |-> n,
                  done |-> {}, ack |-> [i |-> c, sdp |-> c], cancelling |-> b,
                  pending_cancel |-> b, pending_bye |-> b, cause |-> c, bye |-> b,
                  lapsed |-> b, out |-> {}]
    BY <2>4 DEF New
  <2>6. New(e) \in Session /\ New(e).tsx = t
    BY <2>5 DEF Session
  <2> QED BY <2>4, <2>5, <2>6
<1>3. \A e \in Ends : inv[e] = New(e)
  BY <1>1
<1>4. TypeOK
  BY <1>1, <1>2 DEF TypeOK
<1>5. Calls
  <2>1. Used = {} /\ 1..0 = {} /\ 0 \in 0..MaxInvites
    BY <1>2, <1>3, InviteAssumption DEF Used, Ends
  <2>2. Numbered
    BY <2>1 DEF Numbered, Used
  <2>3. \A e \in Ends : /\ Owns(inv[e]) /\ Fresh(inv[e]) /\ Glareless(inv[e])
                        /\ Served(inv[e], inv[Peer(e)])
                        /\ \A i \in Ids : inv[e].tsx[i] # "none" => i \in Used
    BY <1>2, <1>3 DEF Owns, Fresh, Glareless, Served, Open, Ids
  <2>4. Callee(inv["uas"])
    BY <1>2, <1>3, StateOrder DEF Callee, Ends
  <2> QED BY <1>1, <2>2, <2>3, <2>4 DEF Calls
<1>6. Callers
  BY <1>1, <1>2, <1>3, StateOrder DEF Callers, Passing, Ends
<1>7. Offers
  <2>1. NewNeg.st = "NULL" /\ NewNeg.act = <<0, 0>>
    BY DEF NewNeg
  <2> QED BY <2>1, <1>2, <1>3 DEF Offers, Closable
<1>8. CallerKnows
  BY <1>1 DEF CallerKnows
<1> QED BY <1>4, <1>5, <1>6, <1>7, <1>8 DEF IInv

(* Every step keeps it.                                                    *)
LEMMA Inductive == IInv /\ [Next]_vars => IInv'
<1> SUFFICES ASSUME IInv, [Next]_vars PROVE IInv'
  OBVIOUS
<1>1. ASSUME NEW e \in Ends, NEW offer \in BOOLEAN, Invite(e, offer) PROVE IInv'
  BY <1>1, InviteKept
<1>2. ASSUME NEW media \in BOOLEAN, Ring(media) PROVE IInv'
  BY <1>2, RingKept
<1>3. CASE Answer
  BY <1>3, AnswerKept
<1>4. ASSUME NEW e \in Ends, NEW c \in Codes, End(e, c) PROVE IInv'
  BY <1>4, EndKept
<1>5. ASSUME NEW e \in Ends, NEW m \in net, Receive(e, m) PROVE IInv'
  BY <1>5, ReceiveKept
<1>6. ASSUME NEW e \in Ends, AckTimeout(e) PROVE IInv'
  BY <1>6, AckTimeoutKept
<1>7. ASSUME NEW e \in Ends, ByeTimeout(e) PROVE IInv'
  BY <1>7, ByeTimeoutKept
<1>8. CASE UNCHANGED vars
  BY <1>8 DEF vars, IInv, TypeOK, Calls, Numbered, Used, Callers, Offers, CallerKnows,
              Owns, Fresh, Glareless, Served, Callee, Carried, Closable
<1> QED BY <1>1, <1>2, <1>3, <1>4, <1>5, <1>6, <1>7, <1>8 DEF Next, User

(* And so it holds in every reachable state.                               *)
LEMMA Invariant == Spec => []IInv
BY Initial, Inductive, PTL DEF Spec

-----------------------------------------------------------------------------
(* Accord: what the two negotiators have to do with each other, and with   *)
(* the descriptions under way, as long as no ACK has failed to come and    *)
(* neither session is over.                                                *)

Alive == \A e \in Ends : ~inv[e].lapsed /\ inv[e].state # DISCONNECTED

(* An end serves at most one INVITE, from its request to its ACK.          *)
Serves(v, i) == i \notin v.mine /\ v.tsx[i] \in {"proceeding", "accepted"}
Serving(v) == \E i \in Ids : Serves(v, i)

(* What an end has offered, or answers without having said so yet.         *)
Offering == {"LOCAL_OFFER", "WAIT_NEGO"}
Offered(n) == IF n.st \in Offering THEN n.loc ELSE 0

(* What one negotiator says.                                               *)
Sane(n) == /\ n.act[1] = n.act[2]
           /\ n.st \in Offering => n.loc # 0
           /\ n.st = "REMOTE_OFFER" => n.rem # 0
           /\ n.st = "WAIT_NEGO" => n.loc = n.rem

(* An end that has something negotiated negotiates again only once it is   *)
(* confirmed: as the one that offers, or with an offer that its user has   *)
(* left open.  What it offers to whom it serves is new with the INVITE.    *)
Resolved(v) ==
    /\ v.state < CONFIRMED /\ v.neg.act # <<0, 0>> => v.neg.st = "DONE"
    /\ v.state = CONFIRMED /\ v.neg.act # <<0, 0>>
       => v.neg.st \in {"DONE", "LOCAL_OFFER"} \/ LeftOpen(v)
    /\ \A i \in Ids : Serves(v, i) /\ v.neg.st = "LOCAL_OFFER" => v.neg.loc = i

(* ... and one session: the INVITE acknowledged last is over, those that   *)
(* are negotiated have begun.                                              *)
Shape(v) == /\ Sane(v.neg) /\ Resolved(v)
            /\ v.ack.i # 0 => v.ack.i \in Ids /\ v.tsx[v.ack.i] = "over"
            /\ \A i \in v.done : i \in Ids /\ v.tsx[i] # "none"
            /\ v.state = NULL => v.neg.st = "NULL"
            /\ v.role = "uac" /\ v.state = CONNECTING => v.itsx = 0

(* A message on its way from p to c.                                       *)
Bears(m, c, p) ==
    /\ m.t = "INVITE" => m.sdp = Offered(p.neg) /\ m.i \notin p.done
    /\ m.t \in Provisionals => /\ p.tsx[m.i] \in {"proceeding", "accepted"}
                               /\ m.sdp \in {0, Description(p)}
    /\ m.t = "200" => p.tsx[m.i] = "accepted" /\ m.sdp = Description(p)
    /\ m.t \in Rejections => p.tsx[m.i] \in {"rejected", "over"} /\ c.tsx[m.i] \in Open
    /\ m.t = "ACK" => p.tsx[m.i] = "over" /\ (p.ack.i = m.i => m.sdp = p.ack.sdp)

(* The caller c of an INVITE waits for the final response of p.  The       *)
(* negotiator of p has no description yet, or the caller's offer, or has   *)
(* made an offer in turn, or has answered.                                 *)
Waits(i, c, p) ==
    \/ /\ p.neg.st \in {"NULL", "REMOTE_OFFER"} /\ p.tsx[i] = "proceeding"
       /\ i \notin c.done /\ i \notin p.done
       /\ c.neg.act = <<0, 0>> /\ p.neg.act = <<0, 0>>
       /\ Offered(c.neg) = IF p.neg.st = "NULL" THEN 0 ELSE p.neg.rem
    \/ /\ p.neg.st = "LOCAL_OFFER" /\ i \notin c.done /\ i \notin p.done
       /\ c.neg.act = p.neg.act
       /\ c.neg.st \in Offering => c.neg.st = "WAIT_NEGO" /\ c.neg.loc = p.neg.loc
    \/ /\ p.neg.st = "DONE" /\ i \in p.done /\ p.neg.act[1] # 0
       /\ \/ Offered(c.neg) = p.neg.act[1] /\ i \notin c.done
          \/ c.neg.st = "DONE" /\ c.neg.act = p.neg.act /\ i \in c.done

(* The caller has acknowledged the INVITE: it uses what p does, or what p  *)
(* will use with the answer in the ACK.                                    *)
Acked(i, c, p) ==
    /\ c.ack.i = i /\ p.tsx[i] = "accepted"
    /\ \/ p.neg.st = "DONE" /\ i \in p.done /\ c.neg.act = p.neg.act
       \/ /\ p.neg.st = "LOCAL_OFFER" /\ i \notin p.done
          /\ \/ c.ack.sdp = 0 /\ c.neg.act = p.neg.act
             \/ c.ack.sdp = p.neg.loc /\ c.neg.act = <<p.neg.loc, p.neg.loc>>

Answers(c, p) == \A i \in Ids : Serves(p, i)
                                => IF c.tsx[i] \in Open THEN Waits(i, c, p) ELSE Acked(i, c, p)

(* The two sessions.  Of their INVITEs one at most is served; when none    *)
(* is, both ends use the same.                                             *)
Pact(v, p) == /\ Shape(v) /\ Shape(p) /\ Answers(v, p) /\ Answers(p, v)
              /\ ~(Serving(v) /\ Serving(p))
              /\ Serving(v) \/ Serving(p) \/ v.neg.act = p.neg.act

Accord == Alive => /\ Pact(inv["uac"], inv["uas"])
                   /\ \A m \in net : Bears(m, inv[m.to], inv[Peer(m.to)])
                   /\ \A m, n \in net : m.t \in Rejections /\ n.t \in Rejections /\ m.i = n.i
                                        => m = n

-----------------------------------------------------------------------------
(* What is known of the two sessions, whichever of them takes a step.      *)

(* The two sessions as Calls knows them.                                   *)
Linked(v, p) == /\ v \in Session /\ p \in Session /\ v.role # p.role
                /\ Owns(v) /\ Owns(p) /\ Served(v, p) /\ Served(p, v)
                /\ v.mine \cap p.mine = {} /\ v.mine \subseteq Ids /\ p.mine \subseteq Ids
                /\ \A j \in Ids : v.tsx[j] # "none" \/ p.tsx[j] # "none"
                                  => j \in v.mine \/ j \in p.mine

(* A step that could break the accord begins like this.                    *)
Pending(e) == IInv /\ Accord /\ Alive /\ e \in Ends

(* The sessions are linked, and agree so far.                              *)
LEMMA PendingLinked ==
    ASSUME NEW e, Pending(e)
    PROVE  LET v == inv[e]
               p == inv[Peer(e)]
           IN  /\ Linked(v, p) /\ Pact(v, p) /\ v.role = e /\ v.out = {}
               /\ Peer(e) \in Ends /\ Peer(e) # e /\ Peer(Peer(e)) = e
               /\ \A n \in net : /\ n \in Message
                                 /\ n.to = e => Carried(n, v, p) /\ Bears(n, v, p)
                                 /\ n.to # e => Carried(n, p, v) /\ Bears(n, p, v)
               /\ \A m, n \in net : m.t \in Rejections /\ n.t \in Rejections /\ m.i = n.i => m = n
<1> DEFINE f == Peer(e)
           v == inv[e]
           p == inv[f]
<1>1. /\ e \in Ends /\ f \in Ends /\ f # e /\ Peer(f) = e /\ Ends = {e, f} /\ TypeOK /\ Calls
  BY Peers DEF Pending, IInv, Ends, Peer
<1>2. /\ v \in Session /\ p \in Session /\ v.role = e /\ p.role = f /\ v.out = {}
  BY <1>1 DEF TypeOK
<1>3. v.mine \cap p.mine = {} /\ Used = v.mine \cup p.mine
  BY <1>1 DEF Calls, Numbered, Used, Ends
<1>4. /\ Owns(v) /\ Owns(p) /\ Served(v, p) /\ Served(p, v)
      /\ \A j \in Ids : v.tsx[j] # "none" \/ p.tsx[j] # "none" => j \in Used
  BY <1>1 DEF Calls
<1>5. Linked(v, p)
  BY <1>1, <1>2, <1>3, <1>4 DEF Linked, Session
<1>6. Pact(v, p)
  BY <1>1 DEF Pending, Accord, Pact, Ends, Peer
<1>7. ASSUME NEW n \in net
      PROVE  /\ n \in Message
             /\ n.to = e => Carried(n, v, p) /\ Bears(n, v, p)
             /\ n.to # e => Carried(n, p, v) /\ Bears(n, p, v)
  <2>1. Carried(n, inv[n.to], inv[Peer(n.to)]) /\ Bears(n, inv[n.to], inv[Peer(n.to)])
    BY <1>1 DEF Pending, Accord, Calls
  <2>2. n \in Message /\ n.to \in Ends
    BY <1>1 DEF TypeOK, Message
  <2> QED BY <1>1, <2>1, <2>2
<1>8. \A m, n \in net : m.t \in Rejections /\ n.t \in Rejections /\ m.i = n.i => m = n
  BY DEF Pending, Accord
<1> QED BY <1>1, <1>2, <1>5, <1>6, <1>7, <1>8

(* A session that negotiates nothing, and serves no more than before.      *)
LEMMA SameResolved ==
    ASSUME NEW v, NEW w, Resolved(v), w.neg = v.neg, w.mine = v.mine,
           w.state = v.state \/ v.state < CONFIRMED,
           \A i \in Ids : Serves(w, i) => Serves(v, i)
    PROVE  Resolved(w)
BY StateOrder DEF Resolved, LeftOpen

(* One that has negotiated.                                                *)
LEMMA DoneResolved ==
    ASSUME NEW w, w.neg.st = "DONE"
    PROVE  Resolved(w)
BY DEF Resolved

(* The session of e becomes w, and the two agree again.                    *)
Agreed(e, w, rest) ==
    LET p == inv[Peer(e)]
    IN  /\ Pact(w, p)
        /\ \A n \in rest : /\ n.to = e => Bears(n, w, p)
                           /\ n.to # e => Bears(n, p, w)
        /\ \A n \in w.out : n.to = Peer(e) /\ Bears(n, p, w)
        /\ \A m, n \in rest \cup w.out :
              m.t \in Rejections /\ n.t \in Rejections /\ m.i = n.i => m = n

(* One session takes a step: the accord is kept if it is kept by a session *)
(* that goes on.                                                           *)
LEMMA AccordKept ==
    ASSUME TypeOK, NEW e \in Ends, NEW w \in Session, w.role = e, NEW rest \in SUBSET net,
           Becomes(e, w, rest),
           ~w.lapsed /\ w.state # DISCONNECTED
           /\ ~inv[Peer(e)].lapsed /\ inv[Peer(e)].state # DISCONNECTED => Agreed(e, w, rest)
    PROVE  Accord'
<1> DEFINE f == Peer(e)
           p == inv[f]
           x == [w EXCEPT !.out = {}]
<1>1. f \in Ends /\ f # e /\ Peer(f) = e /\ Ends = {e, f}
  BY Peers DEF Ends, Peer
<1>2. TypeOK' /\ net' = rest \cup w.out /\ inv'[e] = x /\ inv'[f] = p
  BY BecomesLemma
<1>3. /\ x.role = w.role /\ x.state = w.state /\ x.itsx = w.itsx /\ x.tsx = w.tsx
      /\ x.mine = w.mine /\ x.neg = w.neg /\ x.lapsed = w.lapsed
      /\ x.done = w.done /\ x.ack = w.ack
  BY DEF Session
<1> HIDE DEF x, f, p
<1>4. SUFFICES ASSUME Alive'
               PROVE  /\ Pact(inv'["uac"], inv'["uas"])
                      /\ \A m \in net' : Bears(m, inv'[m.to], inv'[Peer(m.to)])
                      /\ \A m, n \in net' : m.t \in Rejections /\ n.t \in Rejections /\ m.i = n.i
                                            => m = n
  BY DEF Accord
<1>5. Agreed(e, w, rest)
  BY <1>1, <1>2, <1>3, <1>4 DEF Alive, f, p
<1>6. Pact(x, p)
  <2>1. Pact(w, p)
    BY <1>5 DEF Agreed, f, p
  <2>2. Serving(x) = Serving(w) /\ \A i \in Ids : Serves(x, i) = Serves(w, i)
    BY <1>3 DEF Serving, Serves
  <2>3. Resolved(x)
    BY <2>1, <2>2, <1>3, SameResolved DEF Pact, Shape
  <2> QED BY <2>1, <2>2, <2>3, <1>3 DEF Pact, Shape, Answers, Waits, Acked, Serves
<1>7. Pact(inv'["uac"], inv'["uas"])
  <2>1. Pact(p, x)
    BY <1>6 DEF Pact
  <2> QED BY <2>1, <1>1, <1>2, <1>6 DEF Ends
<1>8. ASSUME NEW n \in net'
      PROVE  Bears(n, inv'[n.to], inv'[Peer(n.to)])
  <2>1. n.to \in Ends
    BY <1>2 DEF TypeOK, Message
  <2>2. CASE n \in w.out
    <3>1. n.to = f /\ Bears(n, p, w)
      BY <2>2, <1>5 DEF Agreed, f, p
    <3>2. Bears(n, p, x)
      BY <3>1, <1>3 DEF Bears, Description
    <3> QED BY <1>1, <1>2, <3>1, <3>2
  <2>3. CASE n \in rest /\ n.to = e
    <3>1. Bears(n, w, p)
      BY <2>3, <1>5 DEF Agreed, f, p
    <3>2. Bears(n, x, p)
      BY <3>1, <1>3 DEF Bears
    <3> QED BY <1>1, <1>2, <2>3, <3>2 DEF f
  <2>4. CASE n \in rest /\ n.to # e
    <3>1. Bears(n, p, w)
      BY <2>4, <1>5 DEF Agreed, f, p
    <3>2. Bears(n, p, x)
      BY <3>1, <1>3 DEF Bears, Description
    <3>3. n.to = f
      BY <2>1, <2>4, <1>1
    <3> QED BY <1>1, <1>2, <3>2, <3>3
  <2> QED BY <2>2, <2>3, <2>4, <1>2
<1>9. \A m, n \in net' : m.t \in Rejections /\ n.t \in Rejections /\ m.i = n.i => m = n
  BY <1>2, <1>5 DEF Agreed
<1> QED BY <1>7, <1>8, <1>9

-----------------------------------------------------------------------------
(* Steps that negotiate nothing.                                           *)

(* What a session has to do with the other one is the same in w.           *)
Same(v, w) == /\ w.role = v.role /\ w.tsx = v.tsx /\ w.itsx = v.itsx /\ w.mine = v.mine
              /\ w.neg = v.neg /\ w.done = v.done /\ w.ack = v.ack

(* Two sessions agree in what they say of their transactions.              *)
LEMMA SamePact ==
    ASSUME NEW v, NEW w, NEW p, Same(v, w), Pact(v, p), w.state = NULL => v.state = NULL,
           w.state = v.state \/ v.state < CONFIRMED,
           v.role = "uac" /\ w.state = CONNECTING => v.itsx = 0
    PROVE  Pact(w, p)
<1>1. Serving(w) = Serving(v) /\ \A i \in Ids : Serves(w, i) = Serves(v, i)
  BY DEF Same, Serving, Serves
<1>2. Shape(w)
  <2>1. Resolved(w)
    BY <1>1, SameResolved DEF Same, Pact, Shape
  <2> QED BY <2>1 DEF Same, Pact, Shape
<1>3. Answers(w, p) /\ Answers(p, w)
  BY DEF Same, Pact, Answers, Waits, Acked, Serves
<1> QED BY <1>1, <1>2, <1>3 DEF Same, Pact

(* Messages that carry no description of their own.                        *)
Plain(v, n) == \/ n.t \in {"CANCEL", "BYE", "OK", "NACK"}
               \/ n.t = "ACK" /\ v.ack.i = n.i /\ n.i # 0 /\ n.sdp = v.ack.sdp

(* A step that leaves the transactions and the negotiation alone.          *)
LEMMA StillAgreed ==
    ASSUME NEW e, Pending(e), NEW w, NEW rest \in SUBSET net, Same(inv[e], w),
           w.state = NULL => inv[e].state = NULL,
           w.state = inv[e].state \/ inv[e].state < CONFIRMED,
           e = "uac" /\ w.state = CONNECTING => inv[e].itsx = 0,
           \A n \in w.out : n.to = Peer(e) /\ Plain(inv[e], n)
    PROVE  Agreed(e, w, rest)
<1> DEFINE v == inv[e]
           p == inv[Peer(e)]
<1>1. /\ Pact(v, p) /\ v.role = e
      /\ \A n \in net : /\ n.to = e => Bears(n, v, p)
                        /\ n.to # e => Bears(n, p, v)
      /\ \A m, n \in net : m.t \in Rejections /\ n.t \in Rejections /\ m.i = n.i => m = n
  BY PendingLinked
<1>2. Pact(w, p)
  BY <1>1, SamePact
<1>3. \A n \in rest : /\ n.to = e => Bears(n, w, p)
                      /\ n.to # e => Bears(n, p, w)
  BY <1>1 DEF Same, Bears, Description
<1>4. ASSUME NEW n \in w.out
      PROVE  n.to = Peer(e) /\ Bears(n, p, w) /\ n.t \notin Rejections
  <2>1. n.t = "ACK" => v.tsx[n.i] = "over"
    BY <1>1 DEF Plain, Pact, Shape
  <2> QED BY <2>1 DEF Plain, Same, Bears, Provisionals, Rejections
<1> QED BY <1>1, <1>2, <1>3, <1>4 DEF Agreed

(* What a session sends is no part of it.                                  *)
LEMMA SendSame ==
    ASSUME NEW v \in Session, NEW t, NEW i, NEW sdp
    PROVE  /\ Same(v, Send(v, t, i, sdp)) /\ Send(v, t, i, sdp).state = v.state
           /\ Send(v, t, i, sdp).lapsed = v.lapsed
           /\ Send(v, t, i, sdp).out = v.out \cup {[to |-> Peer(v.role), t |-> t, i |-> i, sdp |-> sdp]}
BY DEF Send, Same, Session

(* Nor is the end of it, nor what has become of the user's wish to end it. *)
LEMMA EndSame ==
    ASSUME NEW v \in Session, NEW c
    PROVE  /\ Same(v, SetCause(v, c)) /\ Same(v, Disconnect(v))
           /\ Same(v, [v EXCEPT !.cancelling = TRUE])
           /\ Same(v, [v EXCEPT !.pending_cancel = TRUE])
           /\ Same(v, [v EXCEPT !.pending_cancel = FALSE])
           /\ Same(v, [v EXCEPT !.pending_bye = TRUE])
           /\ Same(v, [v EXCEPT !.pending_bye = FALSE])
           /\ Same(v, [v EXCEPT !.bye = TRUE]) /\ Same(v, [v EXCEPT !.bye = FALSE])
           /\ Same(v, [v EXCEPT !.state = c])
BY DEF SetCause, Disconnect, Same, Session

(* One step after the other.                                               *)
LEMMA SameTrans ==
    ASSUME NEW u, NEW v, NEW w, Same(u, v), Same(v, w)
    PROVE  Same(u, w)
BY DEF Same

(* A BYE, sent at once or kept for later, touches no negotiation.          *)
LEMMA SendByeSame ==
    ASSUME NEW v \in Session
    PROVE  Same(v, SendBye(v))
<1>1. CASE v.role = "uas" /\ v.state = CONNECTING /\ v.cause \notin Passing
  BY <1>1, EndSame DEF SendBye
<1>2. CASE ~(v.role = "uas" /\ v.state = CONNECTING /\ v.cause \notin Passing)
  <2> DEFINE u == [v EXCEPT !.bye = TRUE]
  <2>1. SendBye(v) = Send(u, "BYE", 0, 0)
    BY <1>2 DEF SendBye
  <2>2. Same(v, u) /\ u \in Session
    BY EndSame DEF Session
  <2> HIDE DEF u
  <2>3. Same(u, SendBye(v))
    BY <2>1, <2>2, SendSame
  <2> QED BY <2>2, <2>3, SameTrans
<1> QED BY <1>1, <1>2

(* Nor does the end of a session that is established.                      *)
LEMMA EndSessionSame ==
    ASSUME NEW v \in Session, NEW c \in Nat
    PROVE  Same(v, EndSession(v, c))
<1> DEFINE u == SetCause(v, c)
           x == [u EXCEPT !.cancelling = TRUE]
<1>1. Same(v, u) /\ u \in Session
  BY EndSame, SetCauseLemma DEF Core
<1> HIDE DEF u
<1>2. Same(u, x) /\ x \in Session
  BY <1>1, EndSame DEF Session
<1>3. EndSession(v, c) = SendBye(x)
  BY DEF EndSession, u
<1> HIDE DEF x
<1>4. Same(x, SendBye(x))
  BY <1>2, SendByeSame
<1> QED BY <1>1, <1>2, <1>3, <1>4, SameTrans

(* A session that is confirmed negotiates nothing by that.                 *)
LEMMA ConfirmSame ==
    ASSUME NEW v \in Session
    PROVE  Same(v, Confirm(v))
<1>1. 406 \in Nat
  OBVIOUS
<1> QED BY <1>1, EndSessionSame, EndSame DEF Confirm

(* Nor by its CANCEL.                                                      *)
LEMMA CancelSame ==
    ASSUME NEW v \in Session
    PROVE  Same(v, Cancel(v))
<1> DEFINE u == [v EXCEPT !.cancelling = TRUE]
<1>1. Same(v, u) /\ u \in Session
  BY EndSame DEF Session
<1>2. Cancel(v) = Send(u, "CANCEL", v.itsx, 0)
  BY DEF Cancel
<1> HIDE DEF u
<1>3. Same(u, Cancel(v))
  BY <1>1, <1>2, SendSame
<1> QED BY <1>1, <1>3, SameTrans

(* A session in the state it was in.                                       *)
LEMMA RestsAgreed ==
    ASSUME NEW e, Pending(e), NEW w, NEW rest \in SUBSET net, Same(inv[e], w),
           w.state = inv[e].state,
           \A n \in w.out : n.to = Peer(e) /\ Plain(inv[e], n)
    PROVE  Agreed(e, w, rest)
<1>1. Pact(inv[e], inv[Peer(e)]) /\ inv[e].role = e
  BY PendingLinked
<1>2. e = "uac" /\ w.state = CONNECTING => inv[e].itsx = 0
  BY <1>1 DEF Pact, Shape
<1> QED BY <1>2, StillAgreed

(* A message that changes nothing.                                         *)
LEMMA UnmovedAgreed ==
    ASSUME NEW e, Pending(e), NEW rest \in SUBSET net
    PROVE  Agreed(e, inv[e], rest)
<1>1. Same(inv[e], inv[e]) /\ inv[e].out = {}
  BY PendingLinked DEF Same
<1> QED BY <1>1, RestsAgreed

(* Messages of the given types that an end may send without more.          *)
LEMMA SaysPlain ==
    ASSUME NEW v, NEW w, NEW T, Says(v, w, T), v.out = {}, T \subseteq {"CANCEL", "BYE", "OK", "NACK"}
    PROVE  \A n \in w.out : n.to = Peer(v.role) /\ Plain(v, n)
BY DEF Says, Out, Plain

(* A BYE ends the session, or comes too early.                             *)
LEMMA OnByeAgrees ==
    ASSUME NEW e, NEW m, Got(e, m), Pending(e), NEW w \in OnBye(inv[e], m), w.state # DISCONNECTED
    PROVE  Agreed(e, w, Rest(e, m))
<1> DEFINE v == inv[e]
           o == Send(v, "OK", 0, 0)
<1>1. v \in Session /\ e \in Ends /\ v.state # DISCONNECTED /\ Rest(e, m) \in SUBSET net
  BY GotLemma DEF Pending, Alive
<1>2. o \in Session
  <2>1. "OK" \in MessageTypes /\ 0 \in 0..MaxInvites /\ 0 \in Nat
    BY InviteAssumption DEF MessageTypes
  <2> HIDE DEF v
  <2>2. Core(v, o)
    BY <1>1, <2>1, SendLemma
  <2> QED BY <2>2 DEF Core
<1>3. Disconnect(o).state = DISCONNECTED
  BY <1>2, DisconnectLemma
<1>4. w = v
  BY <1>1, <1>3 DEF OnBye
<1> QED BY <1>1, <1>4, UnmovedAgreed

(* So does the response to one.                                            *)
LEMMA ByeResponseAgrees ==
    ASSUME NEW e, Pending(e), NEW m, NEW w \in OnByeResponse(inv[e], m), w.state # DISCONNECTED,
           NEW rest \in SUBSET net
    PROVE  Agreed(e, w, rest)
<1> DEFINE v == inv[e]
           o == [v EXCEPT !.bye = FALSE]
<1>1. v \in Session /\ v.out = {}
  BY PendingLinked DEF Linked
<1>2. Same(v, o) /\ o \in Session /\ o.state = v.state /\ o.out = v.out
  BY <1>1, EndSame DEF Session
<1>3. Disconnect(o).state = DISCONNECTED
  BY <1>2, DisconnectLemma
<1>4. w = o
  BY <1>3 DEF OnByeResponse
<1> QED BY <1>1, <1>2, <1>4, RestsAgreed

(* A CANCEL ends the session, or comes too late.                           *)
LEMMA OnCancelAgrees ==
    ASSUME NEW e, NEW m, Got(e, m), Pending(e), m.t = "CANCEL", NEW w \in OnCancel(inv[e], m),
           w.state # DISCONNECTED
    PROVE  Agreed(e, w, Rest(e, m))
<1> DEFINE v == inv[e]
           r == Reject(v, m.i, "487")
<1>1. v \in Session /\ Carried(m, v, inv[Peer(e)]) /\ Rest(e, m) \in SUBSET net
  BY GotLemma
<1>2. r \in Session
  <2>1. m.i \in Ids /\ "487" \in Rejections
    BY <1>1 DEF Carried, Rejections
  <2> HIDE DEF v
  <2> QED BY <1>1, <2>1, RejectLemma DEF Goes
<1>3. Disconnect(r).state = DISCONNECTED
  BY <1>2, DisconnectLemma
<1>4. w = v
  BY <1>3 DEF OnCancel
<1> QED BY <1>1, <1>4, UnmovedAgreed

(* The user ends a session that was answered.                              *)
LEMMA EndAnsweredAgrees ==
    ASSUME NEW e, Pending(e), NEW c \in Codes
    PROVE  Agreed(e, EndSession(inv[e], c), net)
<1> DEFINE v == inv[e]
           w == EndSession(v, c)
<1>1. v \in Session /\ v.role = e /\ v.out = {} /\ c \in Nat
  BY PendingLinked, InviteAssumption DEF Linked
<1> HIDE DEF v
<1>2. Same(v, w)
  BY <1>1, EndSessionSame
<1>3. w.state = v.state /\ Says(v, w, {"BYE"})
  BY <1>1, EndSessionLemma
<1> HIDE DEF w
<1>4. \A n \in w.out : n.to = Peer(e) /\ Plain(v, n)
  BY <1>1, <1>3, SaysPlain
<1>5. Agreed(e, w, net)
  BY <1>2, <1>3, <1>4, RestsAgreed DEF v
<1> QED BY <1>5 DEF w, v

(* The caller asks for a CANCEL.                                           *)
LEMMA EndCallingAgrees ==
    ASSUME NEW e, Pending(e), NEW c \in Nat, NEW s, s = [SetCause(inv[e], c) EXCEPT !.cancelling = TRUE],
           inv[e].itsx # 0, NEW w, w = [s EXCEPT !.pending_cancel = TRUE] \/ w = Cancel(s)
    PROVE  Agreed(e, w, net)
<1> DEFINE v == inv[e]
           u == SetCause(v, c)
<1>1. v \in Session /\ v.role = e /\ v.out = {} /\ v.itsx # 0
  BY PendingLinked DEF Linked
<1> HIDE DEF v
<1>2. Core(v, u) /\ u.state = v.state /\ u.out = v.out /\ Same(v, u)
  BY <1>1, SetCauseLemma, EndSame
<1>3. s = [u EXCEPT !.cancelling = TRUE] /\ u \in Session
  BY <1>2 DEF Core, v
<1> HIDE DEF u
<1>4. Same(u, s) /\ s \in Session /\ s.state = u.state /\ s.out = u.out
  <2>1. s \in Session /\ s.state = u.state /\ s.out = u.out
    BY <1>3 DEF Session
  <2> QED BY <1>3, <2>1, EndSame
<1>5. Same(v, s)
  BY <1>2, <1>4, SameTrans
<1>6. Same(s, w) /\ w.state = s.state /\ Says(s, w, {"CANCEL"})
  <2>1. CASE w = [s EXCEPT !.pending_cancel = TRUE]
    BY <2>1, <1>4, EndSame DEF Says, Session
  <2>2. CASE w = Cancel(s)
    BY <2>2, <1>1, <1>4, <1>5, CancelLemma, CancelSame DEF Same
  <2> QED BY <2>1, <2>2
<1>7. Same(v, w) /\ w.state = v.state
  BY <1>2, <1>4, <1>5, <1>6, SameTrans
<1>8. \A n \in w.out : n.to = Peer(e) /\ Plain(v, n)
  <2>1. \A n \in w.out : n.to = Peer(s.role) /\ Plain(s, n)
    <3>1. s.out = {} /\ Says(s, w, {"CANCEL"})
      BY <1>1, <1>2, <1>4, <1>6
    <3> QED BY <3>1 DEF Says, Out, Plain
  <2> QED BY <1>1, <1>5, <2>1 DEF Same, Plain
<1> QED BY <1>7, <1>8, RestsAgreed DEF v

-----------------------------------------------------------------------------
(* Transactions that are rejected, and those that are over.                *)

(* Of the transactions and the negotiation only transaction i is new in w, *)
(* and the negotiator if no transaction was pending before: it is done.    *)
Turns(v, w, i) == /\ i \in Ids /\ w \in Session /\ w.role = v.role /\ w.mine = v.mine
                  /\ \A j \in Ids \ {i} : w.tsx[j] = v.tsx[j]
                  /\ w.done = v.done /\ w.ack = v.ack
                  /\ w.neg = v.neg \/ (/\ v.itsx = 0 /\ Sane(w.neg) /\ w.neg.act = v.neg.act
                                         /\ w.neg.st = "DONE")

(* What is served, and by whom.                                            *)
LEMMA ServesLemma ==
    ASSUME NEW v, NEW p, Linked(v, p), NEW i \in Ids, Serves(p, i)
    PROVE  /\ i \in v.mine /\ i \notin p.mine /\ p.itsx = i /\ i # 0
           /\ v.tsx[i] \in Open \cup {"over"}
           /\ p.tsx[i] = "proceeding" => v.tsx[i] \in Open
           /\ v.tsx[i] \in Open => v.itsx = i
BY DEF Linked, Serves, Owns, Served, Open, Ids

(* An end that has an INVITE of its own pending serves none.               *)
LEMMA OpenLemma ==
    ASSUME NEW v, NEW p, Linked(v, p), NEW i \in Ids, i \in v.mine, v.tsx[i] \in Open
    PROVE  v.itsx = i /\ i # 0 /\ ~Serving(v)
BY DEF Linked, Owns, Serving, Serves, Open, Ids

(* An INVITE that this end does not serve any more, or never did.          *)
LEMMA TurnsPact ==
    ASSUME NEW v, NEW w, NEW p, NEW i, Linked(v, p), Pact(v, p), Turns(v, w, i),
           i \notin v.mine, v.tsx[i] \in {"none", "rejected"}, w.tsx[i] \in {"rejected", "over"},
           w.state = v.state, v.state # NULL,
           w.role = "uac" /\ w.state = CONNECTING => w.itsx = 0
    PROVE  Pact(w, p)
<1>1. \A j \in Ids : Serves(w, j) = Serves(v, j)
  BY DEF Turns, Serves
<1>2. Serving(w) = Serving(v)
  BY <1>1 DEF Serving
<1>3. w.neg.act = v.neg.act
  BY DEF Turns
<1>4. Shape(w)
  <2>1. Sane(w.neg)
    BY DEF Turns, Pact, Shape
  <2>2. w.ack.i # 0 => w.ack.i \in Ids /\ w.tsx[w.ack.i] = "over"
    BY DEF Turns, Pact, Shape
  <2>3. \A j \in w.done : j \in Ids /\ w.tsx[j] # "none"
    BY DEF Turns, Pact, Shape
  <2>4. Resolved(w)
    BY <1>1, SameResolved, DoneResolved DEF Turns, Pact, Shape
  <2>5. w.state # NULL
    OBVIOUS
  <2> QED BY <2>1, <2>2, <2>3, <2>4, <2>5 DEF Shape
<1>5. Answers(w, p)
  <2> SUFFICES ASSUME NEW j \in Ids, Serves(p, j)
               PROVE  IF w.tsx[j] \in Open THEN Waits(j, w, p) ELSE Acked(j, w, p)
    BY DEF Answers
  <2>1. j \in v.mine /\ (v.tsx[j] \in Open => v.itsx = j) /\ j # 0
    BY ServesLemma
  <2>2. w.tsx[j] = v.tsx[j]
    BY <2>1 DEF Turns
  <2>3. CASE v.tsx[j] \in Open
    <3>1. Waits(j, v, p)
      BY <2>3 DEF Pact, Answers
    <3>2. w.neg = v.neg /\ w.done = v.done
      BY <2>1, <2>3 DEF Turns
    <3> QED BY <2>2, <2>3, <3>1, <3>2 DEF Waits
  <2>4. CASE v.tsx[j] \notin Open
    <3>1. Acked(j, v, p)
      BY <2>4 DEF Pact, Answers
    <3> QED BY <2>2, <2>4, <3>1, <1>3 DEF Acked, Turns
  <2> QED BY <2>3, <2>4
<1>6. Answers(p, w)
  <2> SUFFICES ASSUME NEW j \in Ids, Serves(w, j)
               PROVE  IF p.tsx[j] \in Open THEN Waits(j, p, w) ELSE Acked(j, p, w)
    BY DEF Answers
  <2>1. Serves(v, j) /\ j # i
    BY <1>1 DEF Serves
  <2>2. v.itsx = j /\ j # 0
    BY <2>1 DEF Linked, Serves, Owns, Open, Ids
  <2>3. w.neg = v.neg /\ w.done = v.done /\ w.tsx[j] = v.tsx[j]
    BY <2>1, <2>2 DEF Turns
  <2>4. IF p.tsx[j] \in Open THEN Waits(j, p, v) ELSE Acked(j, p, v)
    BY <2>1 DEF Pact, Answers
  <2> QED BY <2>3, <2>4 DEF Waits, Acked
<1> QED BY <1>2, <1>3, <1>4, <1>5, <1>6 DEF Pact

(* So are the messages.                                                    *)
LEMMA TurnsBears ==
    ASSUME NEW v, NEW w, NEW p, NEW i, Linked(v, p), Turns(v, w, i),
           i \notin v.mine, v.tsx[i] \in {"none", "rejected"}, w.tsx[i] \in {"rejected", "over"},
           NEW n \in Message
    PROVE  /\ Carried(n, v, p) /\ Bears(n, v, p) => Bears(n, w, p)
           /\ Carried(n, p, v) /\ Bears(n, p, v) => Bears(n, p, w)
<1>1. ASSUME Carried(n, v, p), Bears(n, v, p)
      PROVE  Bears(n, w, p)
  <2>1. n.t \in Rejections => n.i \in Ids /\ n.i # i
    BY <1>1 DEF Carried, Bears, Finals, Rejections, Open
  <2> QED BY <1>1, <2>1 DEF Bears, Turns
<1>2. ASSUME Carried(n, p, v), Bears(n, p, v)
      PROVE  Bears(n, p, w)
  <2>1. ASSUME n.t = "INVITE"
        PROVE  n.sdp = Offered(w.neg) /\ n.i \notin w.done
    <3>1. n.i \in v.mine /\ v.tsx[n.i] \in Open
      BY <1>2, <2>1 DEF Carried
    <3>2. v.itsx # 0
      BY <3>1, OpenLemma DEF Linked
    <3> QED BY <1>2, <2>1, <3>2 DEF Bears, Turns
  <2>2. ASSUME n.t \in Provisionals \cup {"200"}
        PROVE  /\ v.tsx[n.i] \in {"proceeding", "accepted"}
               /\ w.tsx[n.i] = v.tsx[n.i] /\ Description(w) = Description(v)
    <3>1. n.i \in Ids /\ v.tsx[n.i] \in {"proceeding", "accepted"}
      BY <1>2, <2>2 DEF Carried, Bears, Provisionals
    <3>2. v.itsx = n.i /\ n.i # 0
      BY <3>1 DEF Linked, Owns, Open, Ids
    <3> QED BY <3>1, <3>2 DEF Turns, Description
  <2>3. ASSUME n.t \in Rejections
        PROVE  /\ w.tsx[n.i] \in {"rejected", "over"}
               /\ p.tsx[n.i] \in Open
    <3>1. n.i \in Ids /\ v.tsx[n.i] \in {"rejected", "over"} /\ p.tsx[n.i] \in Open
      BY <1>2, <2>3 DEF Carried, Bears, Rejections
    <3> QED BY <3>1 DEF Turns
  <2>4. ASSUME n.t = "ACK"
        PROVE  w.tsx[n.i] = "over" /\ (w.ack.i = n.i => n.sdp = w.ack.sdp)
    <3>1. n.i \in Ids /\ v.tsx[n.i] = "over" /\ (v.ack.i = n.i => n.sdp = v.ack.sdp)
      BY <1>2, <2>4 DEF Carried, Bears
    <3> QED BY <3>1 DEF Turns
  <2> QED BY <1>2, <2>1, <2>2, <2>3, <2>4 DEF Bears
<1> QED BY <1>1, <1>2

(* What has been negotiated is the same in w.                              *)
Aside(v, w) == w.neg = v.neg /\ w.done = v.done /\ w.ack = v.ack

(* No end of a transaction touches it.                                     *)
LEMMA MoveAside ==
    ASSUME NEW v \in Session, NEW i \in Ids
    PROVE  /\ Aside(v, Over(v, i))
           /\ \A t, sdp : Aside(v, Reject(v, i, t)) /\ Aside(v, Accept(v, i, sdp))
<1> DEFINE r == [v EXCEPT !.tsx[i] = "rejected"]
           a == [v EXCEPT !.tsx[i] = "accepted"]
<1>1. Aside(v, Over(v, i))
  BY DEF Over, Aside, Session
<1>2. /\ r.neg = v.neg /\ r.done = v.done /\ r.ack = v.ack
      /\ a.neg = v.neg /\ a.done = v.done /\ a.ack = v.ack
  BY DEF Session
<1>3. r \in Session /\ a \in Session
  <2>1. PICK x \in [Ids -> TsxStates] : x = [v.tsx EXCEPT ![i] = "rejected"]
    BY DEF Session, TsxStates
  <2>2. PICK y \in [Ids -> TsxStates] : y = [v.tsx EXCEPT ![i] = "accepted"]
    BY DEF Session, TsxStates
  <2>3. r = [v EXCEPT !.tsx = x] /\ a = [v EXCEPT !.tsx = y]
    BY <2>1, <2>2 DEF Session
  <2> HIDE DEF r, a
  <2> QED BY <2>3 DEF Session
<1>4. \A t, sdp : Reject(v, i, t) = Send(r, t, i, 0) /\ Accept(v, i, sdp) = Send(a, "200", i, sdp)
  BY DEF Reject, Accept
<1> HIDE DEF r, a
<1>5. \A t, sdp : Same(r, Send(r, t, i, 0)) /\ Same(a, Send(a, "200", i, sdp))
  BY <1>3, SendSame
<1> QED BY <1>1, <1>2, <1>4, <1>5 DEF Same, Aside

(* An INVITE that is rejected by e, which has none pending or negotiates   *)
(* nothing.                                                                *)
LEMMA RejectedAgreed ==
    ASSUME NEW e, NEW m, Got(e, m), Pending(e), m.t = "INVITE", inv[e].state # NULL,
           NEW w, Turns(inv[e], w, m.i), w.tsx[m.i] = "rejected", w.state = inv[e].state,
           w.role = "uac" /\ w.state = CONNECTING => w.itsx = 0,
           NEW t \in Rejections,
           w.out = {[to |-> Peer(e), t |-> t, i |-> m.i, sdp |-> 0]}
    PROVE  Agreed(e, w, Rest(e, m))
<1> DEFINE v == inv[e]
           p == inv[Peer(e)]
           i == m.i
<1>1. /\ Linked(v, p) /\ Pact(v, p)
      /\ \A n \in net : /\ n \in Message
                        /\ n.to = e => Carried(n, v, p) /\ Bears(n, v, p)
                        /\ n.to # e => Carried(n, p, v) /\ Bears(n, p, v)
      /\ \A k, n \in net : k.t \in Rejections /\ n.t \in Rejections /\ k.i = n.i => k = n
  BY PendingLinked
<1>2. i \in p.mine /\ p.tsx[i] \in Open /\ v.tsx[i] = "none" /\ i \notin v.mine /\ i \in Ids
  BY <1>1 DEF Got, Carried, Linked
<1>3. v.tsx[i] \in {"none", "rejected"} /\ w.tsx[i] \in {"rejected", "over"}
  BY <1>2
<1>4. Rest(e, m) \subseteq net
  BY DEF Rest
<1> HIDE DEF v, p, i
<1>5. Pact(w, p)
  BY <1>1, <1>2, <1>3, TurnsPact DEF v, i
<1>6. ASSUME NEW n \in Rest(e, m)
      PROVE  /\ n.to = e => Bears(n, w, p)
             /\ n.to # e => Bears(n, p, w)
  BY <1>1, <1>2, <1>3, <1>4, TurnsBears DEF v, i
<1>7. ASSUME NEW n \in Rest(e, m)
      PROVE  ~(n.t \in Rejections /\ n.i = i)
  BY <1>1, <1>2, <1>4 DEF Bears, Open
<1>8. ASSUME NEW n \in w.out
      PROVE  n.to = Peer(e) /\ Bears(n, p, w) /\ n.i = i
  <2>1. n.to = Peer(e) /\ n.t = t /\ n.i = i
    BY DEF i
  <2> QED BY <2>1, <1>2 DEF Bears, Rejections, Provisionals, i
<1>9. \A k, n \in w.out : k = n
  OBVIOUS
<1>10. \A k, n \in Rest(e, m) \cup w.out : k.t \in Rejections /\ n.t \in Rejections /\ k.i = n.i => k = n
  BY <1>1, <1>4, <1>7, <1>8, <1>9
<1> QED BY <1>5, <1>6, <1>8, <1>10 DEF Agreed, p

(* An INVITE that comes at a wrong time.                                   *)
LEMMA RejectAgrees ==
    ASSUME NEW e, NEW m, Got(e, m), Pending(e), m.t = "INVITE", inv[e].state # NULL,
           NEW t \in Rejections
    PROVE  Agreed(e, Reject(inv[e], m.i, t), Rest(e, m))
<1> DEFINE v == inv[e]
           i == m.i
           w == Reject(v, i, t)
<1>1. /\ v \in Session /\ v.role = e /\ v.out = {} /\ i \in Ids /\ Pact(v, inv[Peer(e)])
      /\ v.state # NULL
  BY PendingLinked, GotLemma DEF Carried, Linked, Finals, Provisionals, Rejections
<1> HIDE DEF v, i
<1>2. /\ Goes(v, w, i, "rejected", v.itsx)
      /\ w.state = v.state
      /\ w.out = v.out \cup {[to |-> Peer(v.role), t |-> t, i |-> i, sdp |-> 0]}
  BY <1>1, RejectLemma
<1>3. Aside(v, w)
  BY <1>1, MoveAside
<1> HIDE DEF w
<1>4. Turns(v, w, i) /\ w.tsx[i] = "rejected"
  BY <1>1, <1>2, <1>3 DEF Goes, Turns, Aside, Session
<1>5. w.role = "uac" /\ w.state = CONNECTING => w.itsx = 0
  BY <1>1, <1>2 DEF Goes, Pact, Shape
<1>6. w.out = {[to |-> Peer(e), t |-> t, i |-> i, sdp |-> 0]}
  BY <1>1, <1>2
<1>7. Agreed(e, w, Rest(e, m))
  BY <1>1, <1>2, <1>4, <1>5, <1>6, RejectedAgreed DEF v, i
<1> QED BY <1>7 DEF v, i, w

(* The ACK of a rejection.                                                 *)
LEMMA OnNackAgrees ==
    ASSUME NEW e, NEW m, Got(e, m), Pending(e), m.t = "NACK", NEW w \in OnNack(inv[e], m)
    PROVE  Agreed(e, w, Rest(e, m))
<1> DEFINE v == inv[e]
           p == inv[Peer(e)]
           i == m.i
<1>1. /\ Linked(v, p) /\ Pact(v, p) /\ v.role = e /\ v.out = {} /\ v \in Session
      /\ \A n \in net : /\ n \in Message
                        /\ n.to = e => Carried(n, v, p) /\ Bears(n, v, p)
                        /\ n.to # e => Carried(n, p, v) /\ Bears(n, p, v)
      /\ \A k, n \in net : k.t \in Rejections /\ n.t \in Rejections /\ k.i = n.i => k = n
  BY PendingLinked DEF Linked
<1>2. i \in Ids
  BY GotLemma DEF Carried
<1>3. Rest(e, m) \in SUBSET net
  BY DEF Rest
<1>4. CASE v.tsx[i] # "rejected"
  <2>1. w = v
    BY <1>4 DEF OnNack
  <2> QED BY <1>3, <2>1, UnmovedAgreed
<1>5. CASE v.tsx[i] = "rejected"
  <2>1. w = Over(v, i)
    BY <1>5 DEF OnNack
  <2> HIDE DEF v, i, p
  <2>2. /\ Goes(v, w, i, "over", IF v.itsx = i THEN 0 ELSE v.itsx)
        /\ w.state = v.state /\ w.out = v.out /\ Aside(v, w)
    BY <1>1, <1>2, <2>1, OverLemma, MoveAside
  <2>3. Turns(v, w, i) /\ w.tsx[i] = "over"
    BY <1>1, <1>2, <2>2 DEF Goes, Turns, Aside, Session
  <2>4. w.role = "uac" /\ w.state = CONNECTING => w.itsx = 0
    BY <1>1, <2>2 DEF Goes, Pact, Shape
  <2>5. i \notin v.mine
    BY <1>1, <1>2, <1>5 DEF Linked, Owns, Open
  <2>6. v.state # NULL
    <3>1. Fresh(inv[e])
      BY DEF Pending, IInv, Calls
    <3> QED BY <3>1, <1>2, <1>5 DEF Fresh, v
  <2>7. v.tsx[i] \in {"none", "rejected"} /\ w.tsx[i] \in {"rejected", "over"}
    BY <1>5, <2>3
  <2>8. Pact(w, p)
    BY <1>1, <2>2, <2>3, <2>4, <2>5, <2>6, <2>7, TurnsPact
  <2>9. ASSUME NEW n \in Rest(e, m)
        PROVE  /\ n.to = e => Bears(n, w, p)
               /\ n.to # e => Bears(n, p, w)
    BY <1>1, <1>3, <2>3, <2>5, <2>7, TurnsBears
  <2> QED BY <1>1, <1>3, <2>2, <2>8, <2>9 DEF Agreed, p
<1> QED BY <1>4, <1>5

-----------------------------------------------------------------------------
(* What the negotiator holds, in detail.                                   *)

(* A pair of equal parts.                                                  *)
LEMMA PairLemma ==
    ASSUME NEW a \in Nat \X Nat, a[1] = a[2]
    PROVE  a = <<a[1], a[1]>>
OBVIOUS

(* The fields that the negotiator's operations set.                        *)
LEMMA NegExact ==
    ASSUME NEW n \in Neg, NEW o \in Nat
    PROVE  /\ n.st \in {"NULL", "DONE"} => LocalOffer(n, o).loc = o
           /\ RemoteOffer(n, o).rem = o /\ RemoteOffer(n, o).act = n.act
           /\ LocalAnswer(n).loc = n.rem /\ LocalAnswer(n).rem = n.rem /\ LocalAnswer(n).act = n.act
           /\ Negotiate(n).act = <<n.loc, n.rem>>
           /\ Negotiate(RemoteAnswer(n, o)).act = <<n.loc, o>>
           /\ n.act \in Nat \X Nat /\ n.loc \in Nat /\ n.rem \in Nat /\ n.st \in NegStates
<1>1. n.st \in {"NULL", "DONE"} => LocalOffer(n, o).loc = o
  BY DEF LocalOffer, Neg
<1>2. RemoteOffer(n, o).rem = o /\ RemoteOffer(n, o).act = n.act
  BY DEF RemoteOffer, Neg
<1>3. LocalAnswer(n).loc = n.rem /\ LocalAnswer(n).rem = n.rem /\ LocalAnswer(n).act = n.act
  BY DEF LocalAnswer, Neg
<1>4. ASSUME NEW k \in Neg PROVE Negotiate(k).act = <<k.loc, k.rem>>
  <2>1. PICK a \in Nat \X Nat : a = <<k.loc, k.rem>>
    BY DEF Neg
  <2>2. Negotiate(k) = [k EXCEPT !.st = "DONE", !.act = a, !.loc = 0, !.rem = 0]
    BY <2>1 DEF Negotiate
  <2> QED BY <2>1, <2>2 DEF Neg
<1>5. RemoteAnswer(n, o) \in Neg /\ RemoteAnswer(n, o).loc = n.loc /\ RemoteAnswer(n, o).rem = o
  BY DEF RemoteAnswer, Neg, NegStates
<1>6. Negotiate(n).act = <<n.loc, n.rem>> /\ Negotiate(RemoteAnswer(n, o)).act = <<n.loc, o>>
  BY <1>4, <1>5
<1>7. n.act \in Nat \X Nat /\ n.loc \in Nat /\ n.rem \in Nat /\ n.st \in NegStates
  BY DEF Neg
<1> QED BY <1>1, <1>2, <1>3, <1>6, <1>7

(* An offer of the other end.                                              *)
LEMMA OfferedLemma ==
    ASSUME NEW n \in Neg, NEW o \in Nat
    PROVE  LET r == RemoteOffer(n, o)
           IN  r \in Neg /\ r.st = "REMOTE_OFFER" /\ r.rem = o /\ r.act = n.act
<1>1. RemoteOffer(n, o) \in Neg /\ RemoteOffer(n, o).st = "REMOTE_OFFER"
  BY NegLemma
<1>2. RemoteOffer(n, o).rem = o /\ RemoteOffer(n, o).act = n.act
  BY NegExact
<1> QED BY <1>1, <1>2

(* The offer of p in its response is taken, and answered unless the user   *)
(* does not.                                                               *)
Takes(w, p) == /\ p.neg.st = "LOCAL_OFFER" /\ w.neg.act = p.neg.act /\ w.neg.rem = p.neg.loc
               /\ \/ w.neg.st = "WAIT_NEGO"
                  \/ w.neg.st = "REMOTE_OFFER" /\ "noanswer" \in Faults

(* What the caller does with the description in a response to its INVITE.  *)
LEMMA CheckWaits ==
    ASSUME NEW v \in Session, NEW p \in Session, NEW m \in Message, m.i \in Ids,
           Sane(v.neg), Sane(p.neg), Waits(m.i, v, p), m.sdp \in {0, Description(p)},
           NEW w \in CheckSdp(v, m)
    PROVE  /\ Waits(m.i, w, p) /\ Sane(w.neg) /\ w.ack = v.ack
           /\ w.done \in {v.done, v.done \cup {m.i}}
           /\ m.sdp = Description(p) /\ p.tsx[m.i] = "accepted" => w.neg.st # "LOCAL_OFFER"
           /\ w.neg = v.neg \/ w.neg.st = "DONE" \/ Takes(w, p)
<1> DEFINE i == m.i
           n == v.neg
           q == p.neg
<1>1. /\ n \in Neg /\ q \in Neg /\ m.sdp \in Nat
      /\ n.act \in Nat \X Nat /\ n.loc \in Nat /\ n.rem \in Nat /\ n.st \in NegStates
      /\ q.act \in Nat \X Nat /\ q.loc \in Nat /\ q.rem \in Nat /\ q.st \in NegStates
      /\ n.act[1] = n.act[2] /\ q.act[1] = q.act[2] /\ q.act = <<q.act[1], q.act[1]>>
  <2>1. n \in Neg /\ q \in Neg /\ m.sdp \in Nat
    BY DEF Session, Message
  <2>2. n.act[1] = n.act[2] /\ q.act[1] = q.act[2]
    BY DEF Sane
  <2> QED BY <2>1, <2>2, NegExact, PairLemma
<1>2. CASE w = v /\ (m.sdp = Description(p) /\ p.tsx[i] = "accepted" => n.st # "LOCAL_OFFER")
  BY <1>2
<1>3. ASSUME m.sdp # 0, i \notin v.done, n.st \in {"NULL", "DONE"}, q.st = "LOCAL_OFFER", m.sdp = q.loc,
             i \notin p.done, n.act = q.act
      PROVE  /\ Waits(i, w, p) /\ Sane(w.neg) /\ w.ack = v.ack /\ w.done = v.done
             /\ w.neg.st # "LOCAL_OFFER" /\ Takes(w, p)
  <2>1. PICK x \in Answered(RemoteOffer(n, m.sdp)) : w = [v EXCEPT !.neg = x]
    BY <1>3 DEF CheckSdp
  <2>2. w.neg = x /\ w.done = v.done /\ w.ack = v.ack
    BY <2>1 DEF Session
  <2> DEFINE r == RemoteOffer(n, m.sdp)
             l == LocalAnswer(r)
  <2>3. r \in Neg /\ r.st = "REMOTE_OFFER" /\ r.rem = m.sdp /\ r.act = n.act
    BY <1>1, OfferedLemma
  <2>4. l.st = "WAIT_NEGO" /\ l.loc = r.rem /\ l.rem = r.rem /\ l.act = r.act
    <3> HIDE DEF r
    <3> QED BY <2>3, NegLemma, NegExact, 0 \in Nat
  <2>5. x = l \/ (x = r /\ "noanswer" \in Faults)
    BY <2>1 DEF Answered
  <2> HIDE DEF r, l
  <2>6. /\ x.act = n.act /\ x.rem = m.sdp
        /\ \/ x.st = "REMOTE_OFFER" /\ "noanswer" \in Faults
           \/ x.st = "WAIT_NEGO" /\ x.loc = m.sdp
    BY <2>3, <2>4, <2>5
  <2>7. Sane(x)
    BY <1>1, <1>3, <2>6 DEF Sane, Offering
  <2>8. Waits(i, w, p)
    BY <1>3, <2>2, <2>6 DEF Waits, Offering
  <2>9. Takes(w, p)
    BY <1>3, <2>2, <2>6 DEF Takes
  <2> QED BY <2>2, <2>6, <2>7, <2>8, <2>9
<1>4. ASSUME m.sdp # 0, i \notin v.done, n.st = "LOCAL_OFFER", q.st = "DONE", i \in p.done,
             m.sdp = q.act[1], n.loc = q.act[1]
      PROVE  /\ Waits(i, w, p) /\ Sane(w.neg) /\ w.ack = v.ack /\ w.done = v.done \cup {i}
             /\ w.neg.st # "LOCAL_OFFER" /\ w.neg.st = "DONE"
  <2>1. PICK x \in Neg : x = Negotiate(RemoteAnswer(n, m.sdp)) /\ x.st = "DONE"
    BY <1>1, NegLemma
  <2>2. x.act = q.act
    BY <1>1, <1>4, <2>1, NegExact
  <2>3. w = [v EXCEPT !.neg = x, !.done = v.done \cup {i}]
    BY <1>4, <2>1 DEF CheckSdp, Session
  <2>4. w.neg = x /\ w.done = v.done \cup {i} /\ w.ack = v.ack
    BY <2>3 DEF Session
  <2>5. Sane(x)
    BY <1>1, <2>1, <2>2 DEF Sane, Offering
  <2>6. Waits(i, w, p)
    BY <1>4, <2>1, <2>2, <2>4 DEF Waits
  <2> QED BY <2>1, <2>4, <2>5, <2>6
<1>5. m.sdp = 0 \/ i \in v.done \/ n.st \in {"REMOTE_OFFER", "WAIT_NEGO"} => w = v
  BY DEF CheckSdp
<1>6. CASE q.st \in {"NULL", "REMOTE_OFFER"}
  <2>1. p.tsx[i] = "proceeding" /\ q.act = <<0, 0>>
    BY <1>6 DEF Waits
  <2>2. m.sdp = 0
    BY <1>6, <2>1 DEF Description
  <2> QED BY <1>2, <1>5, <2>1, <2>2
<1>7. CASE q.st = "LOCAL_OFFER"
  <2>1. /\ i \notin v.done /\ i \notin p.done /\ n.act = q.act
        /\ n.st # "LOCAL_OFFER" /\ m.sdp \in {0, q.loc}
    BY <1>7 DEF Waits, Offering, Description
  <2> QED BY <1>1, <1>2, <1>3, <1>5, <1>7, <2>1 DEF NegStates
<1>8. CASE q.st = "DONE"
  <2>1. /\ i \in p.done /\ q.act[1] # 0 /\ m.sdp \in {0, q.act[1]} /\ Description(p) = q.act[1]
        /\ \/ Offered(n) = q.act[1] /\ i \notin v.done
           \/ n.st = "DONE" /\ i \in v.done
    BY <1>8 DEF Waits, Description
  <2>2. Offered(n) = q.act[1] => n.st \in Offering /\ n.loc = q.act[1]
    BY <2>1 DEF Offered
  <2>3. CASE n.st = "LOCAL_OFFER" /\ m.sdp # 0
    <3>1. i \notin v.done /\ n.loc = q.act[1]
      BY <2>1, <2>2, <2>3
    <3> QED BY <1>4, <1>8, <2>1, <2>3, <3>1
  <2>4. CASE ~(n.st = "LOCAL_OFFER" /\ m.sdp # 0)
    <3>1. w = v
      BY <2>1, <2>2, <2>4, <1>5 DEF Offering
    <3>2. m.sdp = Description(p) => n.st # "LOCAL_OFFER"
      BY <2>1, <2>4
    <3> QED BY <1>2, <3>1, <3>2
  <2> QED BY <2>3, <2>4
<1>9. q.st \in {"NULL", "REMOTE_OFFER", "LOCAL_OFFER", "DONE"}
  BY DEF Waits
<1> QED BY <1>6, <1>7, <1>8, <1>9

(* The ACK of the caller, which may take its answer.                       *)
LEMMA AckedLemma ==
    ASSUME NEW v \in Session, NEW p \in Session, NEW i \in Ids, Sane(v.neg), Sane(p.neg),
           Waits(i, v, p), p.tsx[i] = "accepted", v.neg.st # "LOCAL_OFFER", v.ack.i # i, v.itsx = i
    PROVE  LET a == CreateAck(v, i)
           IN  /\ Acked(i, a, p) /\ Sane(a.neg) /\ a.done \in {v.done, v.done \cup {i}}
               /\ a.neg.st = "DONE" \/ (a.neg = v.neg /\ v.neg.st # "WAIT_NEGO")
<1> DEFINE n == v.neg
           q == p.neg
           a == CreateAck(v, i)
<1>1. /\ n \in Neg /\ q \in Neg /\ i # 0
      /\ n.act \in Nat \X Nat /\ n.loc \in Nat /\ n.rem \in Nat /\ n.st \in NegStates
      /\ q.act \in Nat \X Nat /\ q.loc \in Nat /\ q.rem \in Nat /\ q.st \in NegStates
      /\ n.act[1] = n.act[2] /\ q.act[1] = q.act[2] /\ q.act = <<q.act[1], q.act[1]>>
  <2>1. n \in Neg /\ q \in Neg /\ i # 0
    BY DEF Session, Ids
  <2>2. n.act[1] = n.act[2] /\ q.act[1] = q.act[2]
    BY DEF Sane
  <2> QED BY <2>1, <2>2, NegExact, PairLemma, 0 \in Nat
<1>2. CASE n.st = "WAIT_NEGO"
  <2>1. PICK x \in Neg : x = Negotiate(n) /\ x.st = "DONE"
    BY <1>1, NegLemma, 0 \in Nat
  <2>2. x.act = <<n.loc, n.loc>> /\ n.loc # 0
    BY <1>1, <1>2, <2>1, NegExact, 0 \in Nat DEF Sane, Offering
  <2>3. a = [v EXCEPT !.neg = x, !.done = v.done \cup {i}, !.ack = [i |-> i, sdp |-> n.loc]]
    BY <1>1, <1>2, <2>1 DEF CreateAck, Session
  <2>4. a.neg = x /\ a.done = v.done \cup {i} /\ a.ack.i = i /\ a.ack.sdp = n.loc
    BY <2>3 DEF Session
  <2>5. Sane(x)
    BY <2>1, <2>2 DEF Sane, Offering
  <2>6. Offered(n) = n.loc
    BY <1>2 DEF Offered, Offering
  <2>7. \/ q.st = "LOCAL_OFFER" /\ i \notin p.done /\ n.loc = q.loc
        \/ q.st = "DONE" /\ i \in p.done /\ n.loc = q.act[1]
    BY <1>2, <2>6 DEF Waits, Offering
  <2>8. Acked(i, a, p)
    BY <1>1, <2>2, <2>4, <2>7 DEF Acked
  <2> QED BY <2>1, <2>4, <2>5, <2>8
<1>3. CASE n.st # "WAIT_NEGO"
  <2>1. a = [v EXCEPT !.ack = [i |-> i, sdp |-> 0]]
    BY <1>3 DEF CreateAck
  <2>2. a.neg = n /\ a.done = v.done /\ a.ack.i = i /\ a.ack.sdp = 0
    BY <2>1 DEF Session
  <2>3. n.st \notin Offering
    BY <1>3 DEF Offering
  <2>4. Acked(i, a, p)
    BY <2>2, <2>3 DEF Acked, Waits, Offered
  <2> QED BY <1>3, <2>2, <2>4
<1> QED BY <1>2, <1>3

-----------------------------------------------------------------------------
(* An INVITE of this end has a response.                                   *)

(* The transaction i of this end, which was pending, is s in w; what is    *)
(* negotiated in w is not looked at here.                                  *)
Client(v, w, i, s) == /\ i \in v.mine /\ v.tsx[i] \in Open /\ s \in {"proceeding", "over"}
                      /\ w \in Session /\ w.role = v.role /\ w.mine = v.mine
                      /\ w.tsx = [v.tsx EXCEPT ![i] = s]
                      /\ w.itsx = IF s = "over" THEN 0 ELSE v.itsx
                      /\ w.done \in {v.done, v.done \cup {i}}
                      /\ w.ack = v.ack \/ (w.ack.i = i /\ s = "over")
                      /\ Sane(w.neg) /\ Resolved(w) /\ w.state # NULL
                      /\ w.role = "uac" /\ w.state = CONNECTING => w.itsx = 0

(* It serves no more than before.                                          *)
LEMMA ClientServes ==
    ASSUME NEW v \in Session, NEW w, NEW i \in v.mine, NEW s, w.mine = v.mine,
           w.tsx = [v.tsx EXCEPT ![i] = s], NEW j \in Ids, Serves(w, j)
    PROVE  Serves(v, j)
BY DEF Serves, Session

(* The fields of such a step.                                              *)
LEMMA ClientLemma ==
    ASSUME NEW v, NEW w, NEW p, NEW i, NEW s, Linked(v, p), Pact(v, p), Client(v, w, i, s)
    PROVE  /\ i \in Ids /\ i # 0 /\ v.itsx = i /\ ~Serving(v) /\ ~Serving(w)
           /\ w.tsx[i] = s /\ \A j \in Ids \ {i} : w.tsx[j] = v.tsx[j]
           /\ Shape(w)
<1>1. i \in Ids /\ i \in v.mine /\ v.tsx[i] \in Open
  BY DEF Client, Linked
<1>2. v.itsx = i /\ i # 0 /\ ~Serving(v)
  BY <1>1, OpenLemma
<1>3. w.tsx[i] = s /\ \A j \in Ids \ {i} : w.tsx[j] = v.tsx[j]
  BY <1>1 DEF Client, Linked, Session
<1>4. ~Serving(w)
  BY <1>1, <1>2, <1>3 DEF Client, Serving, Serves
<1>5. Shape(w)
  <2>1. Shape(v)
    BY DEF Pact
  <2>2. ASSUME w.ack.i # 0 PROVE w.ack.i \in Ids /\ w.tsx[w.ack.i] = "over"
    <3>1. CASE w.ack = v.ack
      <4>1. v.ack.i \in Ids /\ v.tsx[v.ack.i] = "over"
        BY <2>1, <2>2, <3>1 DEF Shape
      <4> QED BY <1>1, <1>3, <3>1, <4>1 DEF Open
    <3>2. CASE w.ack.i = i /\ s = "over"
      BY <1>1, <1>3, <3>2
    <3> QED BY <3>1, <3>2 DEF Client
  <2>3. ASSUME NEW j \in w.done PROVE j \in Ids /\ w.tsx[j] # "none"
    <3>1. j \in v.done \/ j = i
      BY DEF Client
    <3> QED BY <1>1, <1>3, <2>1, <3>1 DEF Shape, Client
  <2> QED BY <2>2, <2>3 DEF Shape, Client
<1> QED BY <1>1, <1>2, <1>3, <1>4, <1>5

(* The other end has served it.                                            *)
LEMMA ClientPact ==
    ASSUME NEW v, NEW w, NEW p, NEW i, NEW s, Linked(v, p), Pact(v, p), Client(v, w, i, s),
           Serves(p, i), IF s = "over" THEN Acked(i, w, p) ELSE Waits(i, w, p)
    PROVE  Pact(w, p)
<1>1. /\ i \in Ids /\ i # 0 /\ v.itsx = i /\ ~Serving(w) /\ w.tsx[i] = s /\ Shape(w)
      /\ s \in {"proceeding", "over"}
  <2>1. s \in {"proceeding", "over"}
    BY DEF Client
  <2> QED BY <2>1, ClientLemma
<1>2. Serving(p)
  BY <1>1 DEF Serving
<1>3. Answers(w, p)
  <2> SUFFICES ASSUME NEW j \in Ids, Serves(p, j)
               PROVE  IF w.tsx[j] \in Open THEN Waits(j, w, p) ELSE Acked(j, w, p)
    BY DEF Answers
  <2>1. p.itsx = j /\ p.itsx = i
    BY <1>1, ServesLemma
  <2> QED BY <1>1, <2>1 DEF Open
<1>4. Answers(p, w)
  BY <1>1 DEF Answers, Serving
<1> QED BY <1>1, <1>2, <1>3, <1>4 DEF Pact

(* The other end has not, and what is used did not change.                 *)
LEMMA ClientPactRejected ==
    ASSUME NEW v, NEW w, NEW p, NEW i, Linked(v, p), Pact(v, p), Client(v, w, i, "over"),
           ~Serves(p, i), w.neg.act = v.neg.act, w.ack = v.ack
    PROVE  Pact(w, p)
<1>1. /\ i \in Ids /\ i # 0 /\ v.itsx = i /\ ~Serving(v) /\ ~Serving(w) /\ Shape(w)
      /\ \A j \in Ids \ {i} : w.tsx[j] = v.tsx[j]
  BY ClientLemma
<1>2. Answers(w, p)
  <2> SUFFICES ASSUME NEW j \in Ids, Serves(p, j)
               PROVE  IF w.tsx[j] \in Open THEN Waits(j, w, p) ELSE Acked(j, w, p)
    BY DEF Answers
  <2>1. j # i /\ (v.tsx[j] \in Open => v.itsx = j)
    BY ServesLemma
  <2>2. v.tsx[j] \notin Open /\ w.tsx[j] = v.tsx[j]
    BY <1>1, <2>1
  <2>3. Acked(j, v, p)
    BY <2>2 DEF Pact, Answers
  <2> QED BY <2>2, <2>3 DEF Acked
<1>3. Answers(p, w)
  BY <1>1 DEF Answers, Serving
<1> QED BY <1>1, <1>2, <1>3 DEF Pact

(* The messages that are left.                                             *)
LEMMA ClientBears ==
    ASSUME NEW v, NEW w, NEW p, NEW i, NEW s, Linked(v, p), Pact(v, p), Client(v, w, i, s),
           p.tsx[i] # "none", NEW n \in Message
    PROVE  /\ Carried(n, v, p) /\ Bears(n, v, p) /\ (n.t \in Rejections /\ n.i = i => s # "over")
              => Bears(n, w, p)
           /\ Carried(n, p, v) /\ Bears(n, p, v) => Bears(n, p, w)
<1>1. /\ i \in Ids /\ i # 0 /\ v.itsx = i /\ ~Serving(v)
      /\ w.tsx[i] = s /\ \A j \in Ids \ {i} : w.tsx[j] = v.tsx[j]
      /\ i \in v.mine /\ v.tsx[i] \in Open /\ s \in {"proceeding", "over"}
      /\ w.ack = v.ack \/ (w.ack.i = i /\ s = "over")
  <2>1. /\ i \in v.mine /\ v.tsx[i] \in Open /\ s \in {"proceeding", "over"}
        /\ w.ack = v.ack \/ (w.ack.i = i /\ s = "over")
    BY DEF Client
  <2> QED BY <2>1, ClientLemma
<1>2. ASSUME Carried(n, v, p), Bears(n, v, p), n.t \in Rejections /\ n.i = i => s # "over"
      PROVE  Bears(n, w, p)
  <2>1. n.t \in Rejections => n.i \in Ids /\ v.tsx[n.i] \in Open
    BY <1>2 DEF Carried, Bears, Rejections
  <2>2. n.t \in Rejections => w.tsx[n.i] \in Open
    BY <1>1, <1>2, <2>1 DEF Open
  <2> QED BY <1>2, <2>2 DEF Bears
<1>3. ASSUME Carried(n, p, v), Bears(n, p, v)
      PROVE  Bears(n, p, w)
  <2>1. n.t # "INVITE"
    <3>1. SUFFICES ASSUME n.t = "INVITE" PROVE FALSE
      OBVIOUS
    <3>2. n.i \in v.mine /\ v.tsx[n.i] \in Open /\ p.tsx[n.i] = "none" /\ n.i \in Ids
      BY <1>3, <3>1 DEF Carried
    <3>3. v.itsx = n.i
      BY <3>2, OpenLemma
    <3> QED BY <1>1, <3>2, <3>3
  <2>2. n.t \notin Provisionals \cup {"200"}
    <3>1. SUFFICES ASSUME n.t \in Provisionals \cup {"200"} PROVE FALSE
      OBVIOUS
    <3>2. n.i \in Ids /\ n.i \in p.mine /\ v.tsx[n.i] \in {"proceeding", "accepted"}
      BY <1>3, <3>1 DEF Carried, Bears, Provisionals, Finals
    <3>3. Serves(v, n.i)
      BY <3>2 DEF Serves, Linked
    <3> QED BY <1>1, <3>2, <3>3 DEF Serving
  <2>3. ASSUME n.t \in Rejections
        PROVE  w.tsx[n.i] \in {"rejected", "over"} /\ p.tsx[n.i] \in Open
    <3>1. n.i \in Ids /\ v.tsx[n.i] \in {"rejected", "over"} /\ p.tsx[n.i] \in Open
      BY <1>3, <2>3 DEF Carried, Bears, Rejections
    <3>2. n.i # i
      BY <1>1, <3>1 DEF Open
    <3> QED BY <1>1, <3>1, <3>2
  <2>4. ASSUME n.t = "ACK"
        PROVE  w.tsx[n.i] = "over" /\ (w.ack.i = n.i => n.sdp = w.ack.sdp)
    <3>1. n.i \in Ids /\ v.tsx[n.i] = "over" /\ (v.ack.i = n.i => n.sdp = v.ack.sdp)
      BY <1>3, <2>4 DEF Carried, Bears
    <3>2. n.i # i
      BY <1>1, <3>1 DEF Open
    <3> QED BY <1>1, <3>1, <3>2
  <2> QED BY <2>1, <2>2, <2>3, <2>4 DEF Bears
<1> QED BY <1>2, <1>3

(* Both together: a response to an INVITE of this end.                     *)
LEMMA ClientAgreed ==
    ASSUME NEW e, NEW m, Got(e, m), Pending(e), NEW w, NEW s, Client(inv[e], w, m.i, s),
           inv[Peer(e)].tsx[m.i] # "none", Pact(w, inv[Peer(e)]),
           m.t \in Rejections \/ inv[Peer(e)].tsx[m.i] = "accepted" \/ s # "over",
           \A n \in w.out : /\ n.to = Peer(e)
                            /\ \/ n.t \in {"CANCEL", "BYE", "NACK"}
                               \/ n.t = "ACK" /\ s = "over" /\ n.i = m.i /\ n.sdp = w.ack.sdp
    PROVE  Agreed(e, w, Rest(e, m))
<1> DEFINE v == inv[e]
           p == inv[Peer(e)]
           i == m.i
<1>1. /\ Linked(v, p) /\ Pact(v, p) /\ m \in net
      /\ \A n \in net : /\ n \in Message
                        /\ n.to = e => Carried(n, v, p) /\ Bears(n, v, p)
                        /\ n.to # e => Carried(n, p, v) /\ Bears(n, p, v)
      /\ \A k, n \in net : k.t \in Rejections /\ n.t \in Rejections /\ k.i = n.i => k = n
  BY PendingLinked DEF Got
<1>2. Rest(e, m) \subseteq net /\ i \in Ids /\ w.tsx[i] = s
  BY <1>1, ClientLemma DEF Rest
<1>3. ASSUME NEW n \in Rest(e, m), n.to = e, n.t \in Rejections, n.i = i
      PROVE  s # "over"
  <2>1. CASE m.t \in Rejections
    <3>1. n = m
      BY <1>1, <1>2, <1>3, <2>1
    <3>2. m.t = "200"
      BY <3>1 DEF Rest
    <3> QED BY <2>1, <3>2 DEF Rejections
  <2>2. CASE p.tsx[i] = "accepted"
    BY <1>1, <1>2, <1>3, <2>2 DEF Bears
  <2> QED BY <2>1, <2>2
<1> HIDE DEF v, p, i
<1>4. ASSUME NEW n \in Rest(e, m)
      PROVE  /\ n.to = e => Bears(n, w, p)
             /\ n.to # e => Bears(n, p, w)
  <2>1. p.tsx[i] # "none" /\ Client(v, w, i, s) /\ n \in net
    BY <1>2 DEF v, p, i
  <2> QED BY <1>1, <1>3, <2>1, ClientBears
<1>5. ASSUME NEW n \in w.out
      PROVE  n.to = Peer(e) /\ Bears(n, p, w) /\ n.t \notin Rejections
  BY <1>2 DEF Bears, Provisionals, Rejections, i
<1>6. \A k, n \in Rest(e, m) \cup w.out : k.t \in Rejections /\ n.t \in Rejections /\ k.i = n.i => k = n
  BY <1>1, <1>2, <1>5
<1> QED BY <1>4, <1>5, <1>6 DEF Agreed, p

(* A rejection leaves an established session as it was.                    *)
LEMMA OnRejectedAgrees ==
    ASSUME NEW e, NEW m, Got(e, m), Pending(e), m.t \in Rejections, NEW w \in OnRejected(inv[e], m),
           w.state # DISCONNECTED
    PROVE  Agreed(e, w, Rest(e, m))
<1> DEFINE v == inv[e]
           p == inv[Peer(e)]
           i == m.i
           r == Over(v, i)
           o == Send(r, "NACK", i, 0)
<1>1. /\ Linked(v, p) /\ Pact(v, p) /\ v.role = e /\ v.out = {} /\ v \in Session
      /\ Bears(m, v, p) /\ v.state # DISCONNECTED
  BY PendingLinked DEF Linked, Got, Pending, Alive
<1>2. i \in v.mine /\ i \in Ids /\ v.tsx[i] \in Open /\ p.tsx[i] \in {"rejected", "over"}
      /\ i \in 0..MaxInvites
  <2>1. Carried(m, v, p) /\ m \in Message
    BY GotLemma
  <2> QED BY <1>1, <2>1 DEF Carried, Bears, Finals, Message, Linked
<1>3. v.itsx = i
  BY <1>1, <1>2, OpenLemma
<1>4. \/ w = Disconnect(o)
      \/ w = SendBye(Disconnect(o))
      \/ v.state = CONFIRMED /\ w = [o EXCEPT !.neg = CancelOffer(o.neg)]
      \/ v.state = CONFIRMED /\ w = o
  <2>1. v.state \in 0..6
    BY <1>1, StateOrder DEF Session
  <2>2. v.state < CONFIRMED \/ v.state = CONFIRMED
    BY <1>1, <2>1, StateOrder
  <2> QED BY <2>2, StateOrder DEF OnRejected
<1> HIDE DEF v, i, p
<1>5. /\ Goes(v, r, i, "over", IF v.itsx = i THEN 0 ELSE v.itsx) /\ Aside(v, r)
      /\ r.state = v.state /\ r.out = v.out /\ r \in Session
  BY <1>1, <1>2, OverLemma, MoveAside DEF Goes
<1>6. "NACK" \in MessageTypes /\ "NACK" \notin {"BYE", "OK"} /\ 0 \in Nat
  BY DEF MessageTypes, Requests
<1> HIDE DEF r
<1>7. /\ Core(r, o) /\ o.state = r.state /\ o \in Session
      /\ o.out = r.out \cup {[to |-> Peer(r.role), t |-> "NACK", i |-> i, sdp |-> 0]}
  <2>1. /\ Core(r, o) /\ o.state = r.state
        /\ o.out = r.out \cup {[to |-> Peer(r.role), t |-> "NACK", i |-> i, sdp |-> 0]}
    <3>1. /\ r \in Session /\ "NACK" \in MessageTypes /\ "NACK" \notin {"BYE", "OK"} /\ 0 \in Nat
          /\ i \in Ids /\ i \in 0..MaxInvites
      BY <1>2, <1>5, <1>6
    <3>2. LET z == Send(r, "NACK", i, 0)
          IN  /\ Core(r, z) /\ z.state = r.state /\ z.neg = r.neg /\ z.cause = r.cause
              /\ z.out = r.out \cup {[to |-> Peer(r.role), t |-> "NACK", i |-> i, sdp |-> 0]}
              /\ Says(r, z, {"NACK"})
      BY <3>1, SendLemma
    <3> QED BY <3>2
  <2> QED BY <2>1 DEF Core
<1>8. Same(r, o)
  BY <1>5, SendSame
<1> HIDE DEF o
<1>9. Disconnect(o).state = DISCONNECTED /\ Disconnect(o) \in Session
  BY <1>7, DisconnectLemma DEF Core
<1>10. SendBye(Disconnect(o)).state = DISCONNECTED
  BY <1>9, SendByeLemma
<1>11. v.neg \in Neg /\ Sane(v.neg)
  BY <1>1 DEF Session, Pact, Shape
<1>12. /\ w \in Session /\ w.role = v.role /\ w.mine = v.mine /\ w.tsx = [v.tsx EXCEPT ![i] = "over"]
       /\ w.itsx = 0 /\ w.done = v.done /\ w.ack = v.ack /\ w.state = CONFIRMED
       /\ w.out = {[to |-> Peer(e), t |-> "NACK", i |-> i, sdp |-> 0]}
       /\ Sane(w.neg) /\ w.neg.act = v.neg.act
       /\ v.state = CONFIRMED /\ (w.neg = v.neg \/ w.neg.st = "DONE")
  <2>1. CASE v.state = CONFIRMED /\ w = o
    BY <2>1, <1>1, <1>3, <1>5, <1>7, <1>8, <1>11 DEF Goes, Core, Same, Aside
  <2>2. CASE v.state = CONFIRMED /\ w = [o EXCEPT !.neg = CancelOffer(o.neg)]
    <3>1. PICK n \in Neg : n = CancelOffer(v.neg)
      BY <1>11, NegLemma, 0 \in Nat
    <3>2. n.act = v.neg.act /\ (n = v.neg \/ n.st = "DONE")
      BY <1>11, <3>1, NegLemma, 0 \in Nat
    <3>3. Sane(n)
      BY <1>11, <3>2 DEF Sane, Offering
    <3>4. o.neg = v.neg
      BY <1>5, <1>8 DEF Same, Aside
    <3>5. w = [o EXCEPT !.neg = n]
      BY <2>2, <3>1, <3>4
    <3>6. Core(o, w) /\ w.state = o.state /\ w.neg = n /\ w.out = o.out
      BY <1>7, <3>5, NegFieldLemma
    <3>7. w.done = o.done /\ w.ack = o.ack
      BY <1>7, <3>5 DEF Session
    <3> QED BY <2>2, <3>2, <3>3, <3>6, <3>7, <1>1, <1>3, <1>5, <1>7, <1>8 DEF Goes, Core, Same, Aside
  <2> QED BY <1>4, <1>9, <1>10, <2>1, <2>2
<1>13. Client(v, w, i, "over")
  <2>1. Resolved(v) /\ \A j \in Ids : Serves(w, j) => Serves(v, j)
    BY <1>1, <1>2, <1>12, ClientServes DEF Pact, Shape
  <2>2. Resolved(w)
    BY <2>1, <1>12, SameResolved, DoneResolved
  <2> QED BY <2>2, <1>2, <1>12, StateOrder DEF Client
<1>14. ~Serves(p, i)
  BY <1>2 DEF Serves
<1>15. Pact(w, p)
  BY <1>1, <1>12, <1>13, <1>14, ClientPactRejected
<1>16. p.tsx[i] # "none" /\ \A n \in w.out : n.to = Peer(e) /\ n.t = "NACK"
  BY <1>2, <1>12
<1> QED BY <1>13, <1>15, <1>16, ClientAgreed DEF v, p, i

(* Who calls for the first time meets a callee that is not confirmed: its  *)
(* first offer changes nothing.                                            *)
LEMMA FirstOffer ==
    ASSUME NEW e, Pending(e), NEW i \in inv[e].mine, inv[e].state \in {CALLING, EARLY},
           NEW w, Takes(w, inv[Peer(e)])
    PROVE  w.neg.act = <<0, 0>>
<1> DEFINE v == inv[e]
           p == inv[Peer(e)]
<1>1. v \in Session /\ p \in Session /\ Pact(v, p)
  BY PendingLinked DEF Linked
<1>2. e = "uac" /\ Peer(e) = "uas"
  <2>1. e # "uas"
    BY StateOrder DEF Pending, IInv, Calls, Callee
  <2> QED BY <2>1 DEF Pending, Ends, Peer
<1>3. p.state # CONFIRMED /\ p.state # DISCONNECTED
  <2>1. Callers /\ Alive /\ Peer(e) \in Ends
    BY <1>2 DEF Pending, IInv, Ends
  <2> QED BY <2>1, <1>2, StateOrder DEF Callers, Alive
<1>4. p.state < CONFIRMED
  BY <1>1, <1>3, StateOrder DEF Session
<1>5. p.neg.act = <<0, 0>>
  BY <1>1, <1>4 DEF Pact, Shape, Resolved, Takes
<1> QED BY <1>5 DEF Takes

(* A provisional response lets the caller go on, or the CANCEL.            *)
LEMMA OnProvisionalAgrees ==
    ASSUME NEW e, NEW m, Got(e, m), Pending(e), m.t \in Provisionals, NEW w \in OnProvisional(inv[e], m)
    PROVE  Agreed(e, w, Rest(e, m))
<1> DEFINE v == inv[e]
           p == inv[Peer(e)]
           i == m.i
           q == [v EXCEPT !.tsx[i] = "proceeding"]
           h == [q EXCEPT !.pending_cancel = FALSE]
           c == IF v.state = CALLING /\ v.pending_cancel THEN Cancel(h) ELSE q
           y == [c EXCEPT !.state = EARLY]
<1>1. /\ Linked(v, p) /\ Pact(v, p) /\ v.role = e /\ v.out = {} /\ v \in Session /\ p \in Session
      /\ Bears(m, v, p) /\ m \in Message
  BY PendingLinked DEF Linked, Got
<1>2. i \in v.mine /\ i \in Ids /\ v.tsx[i] \in Open /\ p.tsx[i] \in {"proceeding", "accepted"}
      /\ m.sdp \in {0, Description(p)} /\ i \notin p.mine
  <2>1. Carried(m, v, p)
    BY GotLemma
  <2> QED BY <1>1, <2>1 DEF Carried, Bears, Message, Linked
<1>3. v.itsx = i /\ i # 0 /\ Serves(p, i)
  BY <1>1, <1>2, OpenLemma DEF Serves
<1>4. Waits(i, v, p) /\ Sane(v.neg) /\ Sane(p.neg) /\ (v.role = "uac" /\ v.state = CONNECTING => v.itsx = 0)
  BY <1>1, <1>2, <1>3 DEF Pact, Answers, Shape
<1>5. w \in (IF v.state \in {CALLING, EARLY} /\ m.t = "18x" THEN CheckSdp(y, m) ELSE {c})
  BY DEF OnProvisional
<1>5a. v.state # NULL
  BY SeenLemma
<1> HIDE DEF v, i, p
<1>6. /\ Goes(v, q, i, "proceeding", v.itsx) /\ q.state = v.state /\ q.neg = v.neg /\ q.out = v.out
      /\ q \in Session
  BY <1>1, <1>2, ProceedLemma DEF Goes
<1>7. q.done = v.done /\ q.ack = v.ack
  BY <1>1 DEF Session
<1> HIDE DEF q
<1>8. /\ Core(q, h) /\ h.state = q.state /\ h.neg = q.neg /\ h.out = q.out /\ h \in Session
  BY <1>6, PendingCancelLemma DEF Core
<1>9. h.done = q.done /\ h.ack = q.ack /\ h.itsx # 0 /\ h.role = e
  BY <1>1, <1>3, <1>6, <1>8 DEF Core, Goes, Session
<1> HIDE DEF h
<1>10. /\ Core(h, Cancel(h)) /\ Cancel(h).state = h.state /\ Cancel(h).neg = h.neg
       /\ Says(h, Cancel(h), {"CANCEL"}) /\ Same(h, Cancel(h))
  BY <1>8, <1>9, CancelLemma, CancelSame
<1>11. /\ Goes(v, c, i, "proceeding", v.itsx) /\ c.state = v.state /\ c.neg = v.neg /\ c \in Session
       /\ c.done = v.done /\ c.ack = v.ack
       /\ \A n \in c.out : n.to = Peer(e) /\ n.t = "CANCEL"
  <2>1. CASE v.state = CALLING /\ v.pending_cancel
    <3>1. c = Cancel(h)
      BY <2>1
    <3>2. \A n \in Cancel(h).out : n.to = Peer(e) /\ n.t = "CANCEL"
      BY <1>1, <1>6, <1>8, <1>9, <1>10 DEF Says, Out
    <3> QED BY <3>1, <3>2, <1>6, <1>7, <1>8, <1>9, <1>10 DEF Core, Goes, Same
  <2>2. CASE ~(v.state = CALLING /\ v.pending_cancel)
    <3>1. c = q
      BY <2>2
    <3> QED BY <3>1, <1>1, <1>6, <1>7
  <2> QED BY <2>1, <2>2
<1> HIDE DEF c
<1>12. /\ Core(c, y) /\ y.state = EARLY /\ y.neg = c.neg /\ y.out = c.out /\ y \in Session
  <2>1. EARLY \in 0..6
    BY StateOrder
  <2> QED BY <1>11, <2>1, StateLemma DEF Core
<1>13. y.done = c.done /\ y.ack = c.ack
  BY <1>11 DEF Session
<1> HIDE DEF y
<1>14. /\ Goes(v, w, i, "proceeding", v.itsx) /\ w.out = c.out /\ w.ack = v.ack
       /\ w.state \in {v.state, EARLY} /\ w.done \in {v.done, v.done \cup {i}}
       /\ Sane(w.neg) /\ Waits(i, w, p)
       /\ \/ w.neg = v.neg /\ (w.state = v.state \/ v.state < CONFIRMED)
          \/ w.neg.st = "DONE"
          \/ w.neg.act = <<0, 0>> /\ w.neg.st # "LOCAL_OFFER"
  <2>1. CASE v.state \in {CALLING, EARLY} /\ m.t = "18x"
    <3>1. w \in CheckSdp(y, m) /\ y.neg = v.neg /\ y.done = v.done /\ y.ack = v.ack
      BY <2>1, <1>5, <1>11, <1>12, <1>13
    <3>2. Negotiates(y, w)
      BY <1>1, <1>12, <3>1, CheckSdpLemma
    <3>3. Waits(i, y, p) /\ Sane(y.neg)
      BY <1>4, <3>1 DEF Waits
    <3>4. /\ Waits(i, w, p) /\ Sane(w.neg) /\ w.ack = y.ack /\ w.done \in {y.done, y.done \cup {i}}
          /\ w.neg = y.neg \/ w.neg.st = "DONE" \/ Takes(w, p)
      BY <1>1, <1>2, <1>4, <1>12, <3>1, <3>3, CheckWaits DEF i
    <3>5. Takes(w, p) => w.neg.act = <<0, 0>> /\ w.neg.st # "LOCAL_OFFER"
      <4>1. i \in inv[e].mine /\ inv[e].state \in {CALLING, EARLY} /\ p = inv[Peer(e)]
        BY <2>1, <1>2 DEF v, p
      <4>2. Takes(w, inv[Peer(e)]) => w.neg.act = <<0, 0>>
        BY <4>1, FirstOffer
      <4> QED BY <4>1, <4>2 DEF Takes
    <3>6. v.state < CONFIRMED
      BY <2>1, StateOrder
    <3> QED BY <3>1, <3>2, <3>4, <3>5, <3>6, <1>11, <1>12 DEF Negotiates, Core, Goes
  <2>2. CASE ~(v.state \in {CALLING, EARLY} /\ m.t = "18x")
    <3>1. w = c
      BY <2>2, <1>5
    <3>2. Waits(i, w, p)
      BY <1>4, <1>11, <3>1 DEF Waits
    <3> QED BY <3>1, <3>2, <1>4, <1>11
  <2> QED BY <2>1, <2>2
<1>15. Client(v, w, i, "proceeding")
  <2>1. w.state # NULL /\ (w.role = "uac" /\ w.state = CONNECTING => w.itsx = 0)
    BY <1>3, <1>4, <1>5a, <1>14, StateOrder DEF Goes
  <2>2. Resolved(v) /\ \A j \in Ids : Serves(w, j) => Serves(v, j)
    BY <1>1, <1>2, <1>14, ClientServes DEF Pact, Shape, Goes
  <2>3. Resolved(w)
    <3>1. CASE w.neg = v.neg /\ (w.state = v.state \/ v.state < CONFIRMED)
      BY <3>1, <2>2, <1>14, SameResolved DEF Goes
    <3>2. CASE w.neg.act = <<0, 0>> /\ w.neg.st # "LOCAL_OFFER"
      BY <3>2 DEF Resolved
    <3> QED BY <3>1, <3>2, <1>14, DoneResolved
  <2> QED BY <2>1, <2>3, <1>2, <1>14 DEF Client, Goes
<1>16. Pact(w, p)
  BY <1>1, <1>3, <1>14, <1>15, ClientPact
<1>17. p.tsx[i] # "none" /\ \A n \in w.out : n.to = Peer(e) /\ n.t = "CANCEL"
  BY <1>2, <1>11, <1>14
<1> QED BY <1>15, <1>16, <1>17, ClientAgreed DEF v, p, i

(* What a caller says of its session when it has sent its ACK.             *)
LEMMA SendAckSame ==
    ASSUME NEW v \in Session, NEW i \in Ids
    PROVE  LET a == CreateAck(v, i)
               w == SendAck(v, i)
           IN  /\ Same(a, w) /\ a \in Session /\ w \in Session /\ a.role = v.role /\ a.tsx = v.tsx
               /\ a.itsx = v.itsx /\ a.mine = v.mine
               /\ w.state \in {v.state, CONFIRMED}
               /\ \A n \in w.out : \/ n \in v.out
                                   \/ n = [to |-> Peer(v.role), t |-> "ACK", i |-> i, sdp |-> a.ack.sdp]
                                   \/ n.to = Peer(v.role) /\ n.t = "BYE"
<1> DEFINE a == CreateAck(v, i)
           s == Send(a, "ACK", i, a.ack.sdp)
           w == SendAck(v, i)
<1>1. Negotiates(v, a) /\ a.ack.sdp \in Nat
  BY CreateAckLemma
<1>2. "ACK" \in MessageTypes /\ i \in 0..MaxInvites
  BY InviteAssumption DEF MessageTypes, Requests, Ids
<1>3. w = (IF s.state < CONFIRMED THEN Confirm(s) ELSE s)
  BY DEF SendAck
<1> HIDE DEF a
<1>4. PICK d \in Nat : d = a.ack.sdp
  BY <1>1
<1>5. a \in Session
  BY <1>1 DEF Negotiates, Core
<1>6. LET z == Send(a, "ACK", i, d)
      IN  /\ Core(a, z) /\ z.state = a.state /\ z.neg = a.neg /\ z.cause = a.cause
          /\ z.out = a.out \cup {[to |-> Peer(a.role), t |-> "ACK", i |-> i, sdp |-> d]}
          /\ Says(a, z, {"ACK"})
  BY <1>2, <1>5, SendLemma
<1>7. /\ Core(a, s) /\ s.state = a.state
      /\ s.out = a.out \cup {[to |-> Peer(a.role), t |-> "ACK", i |-> i, sdp |-> a.ack.sdp]}
  BY <1>4, <1>6
<1>8. Same(a, s) /\ s \in Session
  BY <1>5, <1>7, SendSame DEF Core
<1> HIDE DEF s, w
<1>9. Same(s, Confirm(s))
  BY <1>8, ConfirmSame
<1>10. /\ Core(s, Confirm(s)) /\ Confirm(s).state \in {s.state, CONFIRMED} /\ Confirm(s).neg = s.neg
       /\ Confirm(s).cause \in {s.cause, 406} /\ Says(s, Confirm(s), {"BYE"})
  BY <1>8, ConfirmLemma
<1>11. a.role = v.role /\ a.tsx = v.tsx /\ a.itsx = v.itsx /\ a.mine = v.mine /\ a.state = v.state /\ a.out = v.out
  BY <1>1 DEF Negotiates, Core
<1>12. CASE w = s
  BY <1>5, <1>7, <1>8, <1>11, <1>12 DEF w, a
<1>13. CASE w = Confirm(s)
  <2>1. Same(a, w) /\ w \in Session /\ w.state \in {v.state, CONFIRMED}
    BY <1>7, <1>8, <1>9, <1>10, <1>11, <1>13, SameTrans DEF Core
  <2>2. ASSUME NEW n \in w.out
        PROVE  \/ n \in v.out
               \/ n = [to |-> Peer(v.role), t |-> "ACK", i |-> i, sdp |-> a.ack.sdp]
               \/ n.to = Peer(v.role) /\ n.t = "BYE"
    <3>1. n \in s.out \/ n \in Out(s.role, {"BYE"})
      BY <1>10, <1>13 DEF Says
    <3>2. s.role = v.role
      BY <1>8, <1>11 DEF Same
    <3> QED BY <1>7, <1>11, <3>1, <3>2 DEF Out
  <2> QED BY <1>5, <1>11, <2>1, <2>2 DEF w, a
<1> QED BY <1>3, <1>12, <1>13

(* The first 200 to an INVITE is acknowledged, with what its caller has    *)
(* then.                                                                   *)
LEMMA AcknowledgedAgrees ==
    ASSUME NEW e, NEW m, Got(e, m), Pending(e), m.t = "200", inv[e].tsx[m.i] \in Open,
           NEW u \in Session, Core(inv[e], u), u.out = {}, u.ack = inv[e].ack,
           u.done \in {inv[e].done, inv[e].done \cup {m.i}}, u.state \in {CONNECTING, CONFIRMED},
           Sane(u.neg), Waits(m.i, u, inv[Peer(e)]), u.neg.st # "LOCAL_OFFER",
           u.neg.act # <<0, 0>> => \/ u.neg.st \in {"DONE", "WAIT_NEGO"}
                                   \/ u.state = CONFIRMED /\ LeftOpen(u)
    PROVE  Agreed(e, Over(SendAck(u, m.i), m.i), Rest(e, m))
<1> DEFINE v == inv[e]
           p == inv[Peer(e)]
           i == m.i
           a == CreateAck(u, i)
           x == SendAck(u, i)
           w == Over(x, i)
<1>1. /\ Linked(v, p) /\ Pact(v, p) /\ v.role = e /\ v \in Session /\ p \in Session /\ Bears(m, v, p)
  BY PendingLinked DEF Linked, Got
<1>2. i \in v.mine /\ i \in Ids /\ v.tsx[i] \in Open /\ p.tsx[i] = "accepted" /\ i \notin p.mine
  <2>1. Carried(m, v, p)
    BY GotLemma
  <2> QED BY <1>1, <2>1 DEF Carried, Bears, Finals, Linked
<1>3. v.itsx = i /\ i # 0 /\ Serves(p, i)
  BY <1>1, <1>2, OpenLemma DEF Serves
<1>4. Sane(p.neg) /\ v.ack.i # i
  <2>1. v.ack.i # 0 => v.tsx[v.ack.i] = "over"
    BY <1>1 DEF Pact, Shape
  <2> QED BY <1>1, <1>2, <1>3, <2>1 DEF Pact, Shape, Open
<1>5. u.itsx = i /\ u.tsx = v.tsx /\ u.mine = v.mine /\ u.role = v.role /\ u.ack.i # i
  BY <1>3, <1>4 DEF Core
<1> HIDE DEF v, i, p
<1>6. /\ Acked(i, a, p) /\ Sane(a.neg) /\ a.done \in {u.done, u.done \cup {i}}
      /\ a.neg.st = "DONE" \/ (a.neg = u.neg /\ u.neg.st # "WAIT_NEGO")
  BY <1>1, <1>2, <1>4, <1>5, AckedLemma DEF i, p
<1>7. /\ Same(a, x) /\ a \in Session /\ x \in Session /\ a.role = u.role /\ a.tsx = u.tsx
      /\ a.itsx = u.itsx /\ a.mine = u.mine
      /\ x.state \in {u.state, CONFIRMED}
      /\ \A n \in x.out : \/ n \in u.out
                          \/ n = [to |-> Peer(u.role), t |-> "ACK", i |-> i, sdp |-> a.ack.sdp]
                          \/ n.to = Peer(u.role) /\ n.t = "BYE"
  BY <1>2, SendAckSame
<1> HIDE DEF a, x
<1>8. /\ Goes(x, w, i, "over", IF x.itsx = i THEN 0 ELSE x.itsx)
      /\ w.state = x.state /\ w.neg = x.neg /\ w.cause = x.cause /\ w.lapsed = x.lapsed
      /\ w.out = x.out
  BY <1>2, <1>7, OverLemma
<1>9. Aside(x, w)
  BY <1>2, <1>7, MoveAside
<1> HIDE DEF w
<1>10. /\ w \in Session /\ w.role = v.role /\ w.mine = v.mine /\ w.tsx = [v.tsx EXCEPT ![i] = "over"]
       /\ w.itsx = 0 /\ w.neg = a.neg /\ w.done = a.done /\ w.ack = a.ack
       /\ w.state \in {CONNECTING, CONFIRMED}
  BY <1>5, <1>7, <1>8, <1>9 DEF Goes, Same, Aside
<1>11. w.ack.i = i /\ Acked(i, w, p) /\ Sane(w.neg) /\ w.done \in {v.done, v.done \cup {i}}
  <2>1. u.done \in {v.done, v.done \cup {i}}
    BY DEF v, i
  <2> QED BY <1>6, <1>10, <2>1 DEF Acked
<1>11a. Resolved(w)
  <2>1. (u.state = CONFIRMED => w.state = CONFIRMED) /\ w.mine = u.mine
    BY <1>5, <1>7, <1>8, <1>10
  <2>2. CASE a.neg = u.neg /\ u.neg.st # "WAIT_NEGO"
    BY <2>1, <2>2, <1>10, StateOrder DEF Resolved, LeftOpen
  <2> QED BY <2>2, <1>6, <1>10, DoneResolved
<1>12. Client(v, w, i, "over")
  BY <1>2, <1>10, <1>11, <1>11a, StateOrder DEF Client
<1>13. Pact(w, p)
  BY <1>1, <1>3, <1>11, <1>12, ClientPact
<1>14. \A n \in w.out : /\ n.to = Peer(e)
                        /\ n.t = "BYE" \/ (n.t = "ACK" /\ n.i = i /\ n.sdp = w.ack.sdp)
  BY <1>1, <1>5, <1>7, <1>8, <1>10
<1>15. p.tsx[i] = "accepted" /\ p.tsx[i] # "none"
  BY <1>2
<1>16. Agreed(e, w, Rest(e, m))
  BY <1>12, <1>13, <1>14, <1>15, ClientAgreed DEF v, p, i
<1> QED BY <1>16 DEF w, x, i

(* A 200.                                                                  *)
LEMMA OnAcceptedAgrees ==
    ASSUME NEW e, NEW m, Got(e, m), Pending(e), m.t = "200", NEW w \in OnAccepted(inv[e], m)
    PROVE  Agreed(e, w, Rest(e, m))
<1> DEFINE v == inv[e]
           p == inv[Peer(e)]
           i == m.i
<1>1. /\ Linked(v, p) /\ Pact(v, p) /\ v.role = e /\ v.out = {} /\ v \in Session /\ p \in Session
      /\ Bears(m, v, p) /\ m \in Message /\ v.state # DISCONNECTED
  BY PendingLinked DEF Linked, Got, Pending, Alive
<1>2. /\ i \in v.mine /\ i \in Ids /\ p.tsx[i] = "accepted" /\ m.sdp = Description(p) /\ Serves(p, i)
      /\ v.tsx[i] \in Open \cup {"over"} /\ Rest(e, m) \in SUBSET net
  <2>1. Carried(m, v, p) /\ Rest(e, m) \in SUBSET net
    BY GotLemma
  <2>2. i \in v.mine /\ i \in Ids /\ i \notin p.mine
    BY <1>1, <2>1 DEF Carried, Finals, Linked
  <2>3. p.tsx[i] = "accepted" /\ m.sdp = Description(p) /\ Serves(p, i)
    BY <1>1, <2>2 DEF Bears, Serves
  <2> QED BY <1>1, <2>1, <2>2, <2>3, ServesLemma
<1>3. CASE v.tsx[i] = "over"
  <2>1. Acked(i, v, p)
    BY <1>1, <1>2, <1>3 DEF Pact, Answers, Open
  <2>2. v.ack.i = i /\ CreateAck(v, i) = v
    BY <2>1 DEF Acked, CreateAck
  <2>3. w = SendAck(v, i)
    BY <1>3, <2>2 DEF OnAccepted
  <2>4. v \in Session /\ i \in Ids
    BY <1>1, <1>2
  <2> HIDE DEF v, i, p
  <2>5. /\ Same(v, w) /\ w.state \in {v.state, CONFIRMED}
        /\ \A n \in w.out : \/ n \in v.out
                            \/ n = [to |-> Peer(v.role), t |-> "ACK", i |-> i, sdp |-> v.ack.sdp]
                            \/ n.to = Peer(v.role) /\ n.t = "BYE"
    BY <2>2, <2>3, <2>4, SendAckSame
  <2>6. \A n \in w.out : n.to = Peer(e) /\ Plain(v, n)
    BY <1>1, <2>2, <2>4, <2>5, 0 \notin Ids DEF Plain, Ids
  <2>7. w.state = NULL => v.state = NULL
    BY <2>5, StateOrder
  <2>8. e = "uac" /\ w.state = CONNECTING => v.itsx = 0
    BY <1>1, <2>5, StateOrder DEF Pact, Shape
  <2>9. w.state = v.state \/ v.state < CONFIRMED
    BY <1>1, <2>5, StateOrder DEF Session
  <2> QED BY <1>2, <2>5, <2>6, <2>7, <2>8, <2>9, StillAgreed DEF v
<1>4. CASE v.tsx[i] \in Open
  <2>1. v.itsx = i /\ i # 0
    BY <1>1, <1>2, <1>4, OpenLemma
  <2>2. Waits(i, v, p) /\ Sane(v.neg) /\ Sane(p.neg) /\ (v.role = "uac" /\ v.state = CONNECTING => v.itsx = 0)
    BY <1>1, <1>2, <1>4 DEF Pact, Answers, Shape
  <2>3. v.state \in {CALLING, EARLY, CONFIRMED}
    <3>1. v.state # NULL /\ (e = "uas" => ~(v.state < CONFIRMED)) /\ v.state \in 0..6
      BY SeenLemma, GotLemma DEF Finals
    <3>2. e \in Ends /\ (e = "uac" => v.state # INCOMING)
      BY DEF Got, IInv, Callers
    <3> QED BY <1>1, <2>1, <2>2, <3>1, <3>2, StateOrder DEF Ends
  <2>4. CASE v.state \in {CALLING, EARLY}
    <3> DEFINE y == [v EXCEPT !.state = CONNECTING]
    <3>1. PICK u \in CheckSdp(y, m) : w = Over(SendAck(u, i), i)
      <4>1. v.tsx[i] # "over"
        BY <1>4 DEF Open
      <4>2. v.state # CONFIRMED
        BY <2>4, StateOrder
      <4>3. w \in {Over(SendAck(x, m.i), m.i) : x \in CheckSdp([v EXCEPT !.state = CONNECTING], m)}
        BY <2>4, <4>1, <4>2 DEF OnAccepted
      <4> QED BY <4>3
    <3>2. v \in Session /\ CONNECTING \in 0..6
      BY <1>1, StateOrder
    <3>2a. v.out = {}
      BY <1>1
    <3> HIDE DEF v, i, p
    <3>3. Core(v, y) /\ y.state = CONNECTING /\ y.neg = v.neg /\ y.out = v.out
      BY <3>2, StateLemma
    <3>4. y \in Session /\ y.done = v.done /\ y.ack = v.ack
      BY <3>2, <3>3 DEF Core, Session
    <3> HIDE DEF y
    <3>5. Negotiates(y, u)
      BY <1>1, <3>1, <3>4, CheckSdpLemma
    <3>6. Waits(i, y, p) /\ Sane(y.neg)
      BY <2>2, <3>3, <3>4 DEF Waits
    <3>7. /\ Waits(i, u, p) /\ Sane(u.neg) /\ u.ack = y.ack /\ u.done \in {y.done, y.done \cup {i}}
          /\ u.neg.st # "LOCAL_OFFER"
          /\ u.neg = y.neg \/ u.neg.st = "DONE" \/ Takes(u, p)
      BY <1>1, <1>2, <2>2, <3>1, <3>4, <3>6, CheckWaits DEF i
    <3>7a. u.neg.act # <<0, 0>> => u.neg.st = "DONE"
      <4>1. CASE Takes(u, p)
        <5>1. i \in inv[e].mine /\ inv[e].state \in {CALLING, EARLY} /\ Takes(u, inv[Peer(e)])
          BY <4>1, <1>2, <2>4 DEF v, p
        <5> QED BY <5>1, FirstOffer
      <4>2. CASE u.neg = v.neg
        <5>1. v.state < CONFIRMED /\ Resolved(v)
          BY <1>1, <2>4, StateOrder DEF Pact, Shape
        <5> QED BY <4>2, <5>1 DEF Resolved
      <4> QED BY <4>1, <4>2, <3>3, <3>7
    <3>8. /\ u \in Session /\ Core(v, u) /\ u.out = {} /\ u.ack = v.ack
          /\ u.done \in {v.done, v.done \cup {i}} /\ u.state \in {CONNECTING, CONFIRMED}
      BY <3>2a, <3>3, <3>4, <3>5, <3>7 DEF Negotiates, Core
    <3> QED BY <1>4, <3>1, <3>7, <3>7a, <3>8, AcknowledgedAgrees DEF v, i, p
  <2>5. CASE v.state = CONFIRMED
    <3>1. PICK u \in CheckSdp(v, m) :
             w = Over(SendAck(IF u.neg.st = "LOCAL_OFFER"
                              THEN [u EXCEPT !.neg = CancelOffer(u.neg)] ELSE u, i), i)
      <4>1. v.tsx[i] # "over"
        BY <1>4 DEF Open
      <4>2. v.state \notin {CALLING, EARLY}
        BY <2>5, StateOrder
      <4> QED BY <2>5, <4>1, <4>2 DEF OnAccepted
    <3>5. Negotiates(v, u)
      BY <1>1, <3>1, CheckSdpLemma
    <3> HIDE DEF v, i, p
    <3>7. /\ Waits(i, u, p) /\ Sane(u.neg) /\ u.ack = v.ack /\ u.done \in {v.done, v.done \cup {i}}
          /\ u.neg.st # "LOCAL_OFFER"
          /\ u.neg = v.neg \/ u.neg.st = "DONE" \/ Takes(u, p)
      BY <1>1, <1>2, <2>2, <3>1, CheckWaits DEF i
    <3>8. /\ u \in Session /\ Core(v, u) /\ u.out = {} /\ u.ack = v.ack
          /\ u.done \in {v.done, v.done \cup {i}} /\ u.state \in {CONNECTING, CONFIRMED}
      BY <1>1, <2>5, <3>5, <3>7 DEF Negotiates, Core
    <3>8a. u.neg.act # <<0, 0>> => u.neg.st \in {"DONE", "WAIT_NEGO"} \/ LeftOpen(u)
      <4>1. CASE Takes(u, p)
        <5>1. Resolved(p)
          BY <1>1 DEF Pact, Shape
        <5>2. u.neg.rem = i
          BY <1>2, <4>1, <5>1 DEF Resolved, Takes
        <5>3. i \in u.mine
          BY <1>2, <3>8 DEF Core
        <5> QED BY <4>1, <5>2, <5>3 DEF Takes, LeftOpen
      <4>2. CASE u.neg = v.neg
        <5>1. Resolved(v) /\ u.mine = v.mine
          BY <1>1, <3>8 DEF Pact, Shape, Core
        <5> QED BY <2>5, <3>7, <4>2, <5>1 DEF Resolved, LeftOpen
      <4> QED BY <4>1, <4>2, <3>7
    <3>8b. u.state = CONFIRMED
      BY <2>5, <3>5 DEF Negotiates
    <3>9. w = Over(SendAck(u, i), i)
      BY <3>1, <3>7
    <3> QED BY <1>4, <3>7, <3>8, <3>8a, <3>8b, <3>9, AcknowledgedAgrees DEF v, i, p
  <2> QED BY <2>3, <2>4, <2>5
<1> QED BY <1>2, <1>3, <1>4

-----------------------------------------------------------------------------
(* The ACK.                                                                *)

(* What the callee of an INVITE does with the description in the ACK.      *)
LEMMA CheckAcked ==
    ASSUME NEW v \in Session, NEW p \in Session, NEW m \in Message,
           Sane(v.neg), Sane(p.neg), Acked(m.i, p, v), m.sdp = p.ack.sdp,
           NEW u \in CheckSdp(v, m)
    PROVE  /\ u.neg.act = p.neg.act /\ Sane(u.neg) /\ u.ack = v.ack
           /\ u.done \in {v.done, v.done \cup {m.i}}
           /\ u.neg.st = "DONE" \/ (u.neg.st = "LOCAL_OFFER" /\ u.neg = v.neg)
<1> DEFINE i == m.i
           n == v.neg
<1>1. /\ n \in Neg /\ m.sdp \in Nat /\ n.st \in NegStates /\ n.loc \in Nat
  <2>1. n \in Neg /\ m.sdp \in Nat
    BY DEF Session, Message
  <2> QED BY <2>1, NegExact
<1>2. CASE n.st = "DONE" /\ i \in v.done /\ p.neg.act = n.act
  <2>1. u = v
    BY <1>2 DEF CheckSdp
  <2> QED BY <1>2, <2>1
<1>3. CASE n.st = "LOCAL_OFFER" /\ m.sdp = 0 /\ p.neg.act = n.act
  <2>1. u = v
    BY <1>3 DEF CheckSdp
  <2> QED BY <1>3, <2>1
<1>4. CASE n.st = "LOCAL_OFFER" /\ i \notin v.done /\ m.sdp = n.loc /\ p.neg.act = <<n.loc, n.loc>>
  <2>1. PICK x \in Neg : x = Negotiate(RemoteAnswer(n, m.sdp)) /\ x.st = "DONE"
    <3>1. PICK k \in Neg : k = RemoteAnswer(n, m.sdp)
      BY <1>1, NegLemma
    <3>2. Negotiate(k) \in Neg /\ Negotiate(k).st = "DONE"
      BY NegLemma, 0 \in Nat
    <3> QED BY <3>1, <3>2
  <2>2. x.act = <<n.loc, n.loc>> /\ n.loc # 0
    BY <1>1, <1>4, <2>1, NegExact DEF Sane, Offering
  <2>3. u = [v EXCEPT !.neg = x, !.done = v.done \cup {i}]
    BY <1>4, <2>1, <2>2 DEF CheckSdp, Session
  <2>4. u.neg = x /\ u.done = v.done \cup {i} /\ u.ack = v.ack
    BY <2>3 DEF Session
  <2>5. Sane(x)
    BY <2>1, <2>2 DEF Sane, Offering
  <2> QED BY <1>4, <2>1, <2>2, <2>4, <2>5
<1> QED BY <1>2, <1>3, <1>4 DEF Acked

(* An INVITE that this end has served, and of which the other end knows    *)
(* the outcome: what both use is the same.                                 *)
LEMMA ServedPact ==
    ASSUME NEW v, NEW w, NEW p, NEW i \in Ids, Linked(v, p), Pact(v, p),
           Serves(v, i), v.tsx[i] = "accepted", p.tsx[i] = "over",
           Goes(v, w, i, "over", 0), w.ack = v.ack, w.done \in {v.done, v.done \cup {i}},
           Sane(w.neg), w.neg.act = p.neg.act, w.state # NULL,
           w.neg.st = "DONE" \/ (w.neg = v.neg /\ v.state < CONFIRMED)
    PROVE  /\ Pact(w, p) /\ v.itsx = i /\ i # 0
           /\ \A j \in Ids \ {i} : w.tsx[j] = v.tsx[j] /\ ~Serves(v, j)
<1>1. v.itsx = i /\ i # 0 /\ i \notin v.mine
  BY DEF Linked, Owns, Serves, Open, Ids
<1>2. w.tsx[i] = "over" /\ \A j \in Ids \ {i} : w.tsx[j] = v.tsx[j]
  BY DEF Goes, Linked, Session
<1>3. \A j \in Ids \ {i} : ~Serves(v, j)
  BY <1>1 DEF Linked, Owns, Serves, Open, Ids
<1>4. ~Serving(w)
  BY <1>2, <1>3 DEF Serving, Serves, Goes
<1>5. Serving(v) /\ ~Serving(p)
  BY DEF Serving, Pact
<1>6. Shape(w)
  <2>1. Shape(v)
    BY DEF Pact
  <2>2. w.ack.i # 0 => w.ack.i \in Ids /\ w.tsx[w.ack.i] = "over"
    BY <1>2, <2>1 DEF Shape
  <2>3. \A j \in w.done : j \in Ids /\ w.tsx[j] # "none"
    BY <1>2, <2>1 DEF Shape
  <2>4. Resolved(w)
    <3>1. \A j \in Ids : Serves(w, j) => Serves(v, j)
      BY <1>4 DEF Serving
    <3> QED BY <2>1, <3>1, SameResolved, DoneResolved DEF Shape, Goes
  <2> QED BY <2>2, <2>3, <2>4 DEF Shape, Goes
<1>7. Answers(w, p) /\ Answers(p, w)
  BY <1>4, <1>5 DEF Answers, Serving
<1>8. Pact(w, p)
  BY <1>4, <1>5, <1>6, <1>7 DEF Pact
<1> QED BY <1>1, <1>2, <1>3, <1>8

(* The messages that are left.                                             *)
LEMMA ServedBears ==
    ASSUME NEW v, NEW w, NEW p, NEW i \in Ids, Linked(v, p), v.itsx = i, i # 0,
           i \notin v.mine, v.tsx[i] = "accepted", p.tsx[i] = "over", w.tsx[i] = "over", w.ack = v.ack,
           \A j \in Ids \ {i} : w.tsx[j] = v.tsx[j] /\ ~Serves(v, j),
           NEW n \in Message
    PROVE  /\ Carried(n, v, p) /\ Bears(n, v, p) => Bears(n, w, p)
           /\ Carried(n, p, v) /\ Bears(n, p, v) /\ ~(n.t = "200" /\ n.i = i) => Bears(n, p, w)
<1>1. ASSUME Carried(n, v, p), Bears(n, v, p)
      PROVE  Bears(n, w, p)
  <2>1. n.t \in Rejections => n.i \in Ids /\ v.tsx[n.i] \in Open
    BY <1>1 DEF Carried, Bears, Rejections
  <2>2. n.t \in Rejections => w.tsx[n.i] \in Open
    BY <2>1 DEF Open
  <2> QED BY <1>1, <2>2 DEF Bears
<1>2. ASSUME Carried(n, p, v), Bears(n, p, v), ~(n.t = "200" /\ n.i = i)
      PROVE  Bears(n, p, w)
  <2>1. n.t # "INVITE"
    <3>1. SUFFICES ASSUME n.t = "INVITE" PROVE FALSE
      OBVIOUS
    <3>2. n.i \in v.mine /\ v.tsx[n.i] \in Open /\ n.i \in Ids
      BY <1>2, <3>1 DEF Carried
    <3>3. v.itsx = n.i
      BY <3>2, OpenLemma
    <3> QED BY <3>2, <3>3
  <2>2. n.t \notin Provisionals \cup {"200"}
    <3>1. SUFFICES ASSUME n.t \in Provisionals \cup {"200"} PROVE FALSE
      OBVIOUS
    <3>2. /\ n.i \in Ids /\ n.i \in p.mine /\ v.tsx[n.i] \in {"proceeding", "accepted"}
          /\ n.t \in Provisionals => p.tsx[n.i] \in Open
      BY <1>2, <3>1 DEF Carried, Bears, Provisionals, Finals
    <3>3. Serves(v, n.i)
      BY <3>2 DEF Serves, Linked
    <3>4. n.i = i
      BY <3>2, <3>3
    <3> QED BY <1>2, <3>1, <3>2, <3>4 DEF Open
  <2>3. ASSUME n.t \in Rejections
        PROVE  w.tsx[n.i] \in {"rejected", "over"} /\ p.tsx[n.i] \in Open
    <3>1. n.i \in Ids /\ v.tsx[n.i] \in {"rejected", "over"} /\ p.tsx[n.i] \in Open
      BY <1>2, <2>3 DEF Carried, Bears, Rejections
    <3> QED BY <3>1
  <2>4. ASSUME n.t = "ACK"
        PROVE  w.tsx[n.i] = "over" /\ (w.ack.i = n.i => n.sdp = w.ack.sdp)
    <3>1. n.i \in Ids /\ v.tsx[n.i] = "over" /\ (v.ack.i = n.i => n.sdp = v.ack.sdp)
      BY <1>2, <2>4 DEF Carried, Bears
    <3> QED BY <3>1
  <2> QED BY <2>1, <2>2, <2>3, <2>4 DEF Bears
<1> QED BY <1>1, <1>2

(* The session is confirmed, and a BYE goes that was waiting.              *)
LEMMA ReleaseSame ==
    ASSUME NEW x \in Session, NEW w,
           w = IF x.state # CONNECTING THEN x
               ELSE LET c == Confirm(x)
                    IN  IF c.pending_bye THEN SendBye([c EXCEPT !.pending_bye = FALSE]) ELSE c
    PROVE  /\ Same(x, w) /\ w \in Session /\ w.state \in {x.state, CONFIRMED}
           /\ Says(x, w, {"BYE"})
<1> DEFINE c == Confirm(x)
           d == [c EXCEPT !.pending_bye = FALSE]
<1>1. /\ Core(x, c) /\ c.state \in {x.state, CONFIRMED} /\ c.neg = x.neg
      /\ c.cause \in {x.cause, 406} /\ Says(x, c, {"BYE"})
  BY ConfirmLemma
<1>2. Same(x, c) /\ c \in Session
  BY <1>1, ConfirmSame DEF Core
<1>3. w = x \/ w = c \/ w = SendBye(d)
  OBVIOUS
<1> HIDE DEF c
<1>4. Same(c, d) /\ d \in Session /\ d.state = c.state /\ d.out = c.out
  BY <1>2, EndSame DEF Session
<1> HIDE DEF d
<1>5. /\ Core(d, SendBye(d)) /\ SendBye(d).state = d.state /\ SendBye(d).neg = d.neg
      /\ SendBye(d).cause = d.cause /\ Says(d, SendBye(d), {"BYE"})
  BY <1>4, SendByeLemma
<1>6. Same(d, SendBye(d))
  BY <1>4, SendByeSame
<1>7. CASE w = x
  BY <1>7 DEF Same, Says
<1>8. CASE w = c
  BY <1>1, <1>2, <1>8
<1>9. CASE w = SendBye(d)
  <2>1. Same(x, w)
    BY <1>2, <1>4, <1>6, <1>9, SameTrans
  <2>2. w \in Session /\ w.state \in {x.state, CONFIRMED}
    BY <1>1, <1>4, <1>5, <1>9 DEF Core
  <2>3. Says(x, w, {"BYE"})
    BY <1>1, <1>2, <1>4, <1>5, <1>9 DEF Says, Same
  <2> QED BY <2>1, <2>2, <2>3
<1> QED BY <1>3, <1>7, <1>8, <1>9

(* The ACK ends the exchange: both ends use the same now.                  *)
LEMMA OnAckAgrees ==
    ASSUME NEW e, NEW m, Got(e, m), Pending(e), m.t = "ACK", NEW w \in OnAck(inv[e], m)
    PROVE  Agreed(e, w, Rest(e, m))
<1> DEFINE v == inv[e]
           p == inv[Peer(e)]
           i == m.i
           K(u) == IF u.neg.st = "LOCAL_OFFER" /\ u.state = CONFIRMED
                   THEN [u EXCEPT !.neg = CancelOffer(u.neg)] ELSE u
           F(x) == IF x.state # CONNECTING THEN x
                   ELSE LET c == Confirm(x)
                        IN  IF c.pending_bye THEN SendBye([c EXCEPT !.pending_bye = FALSE]) ELSE c
<1>1. /\ Linked(v, p) /\ Pact(v, p) /\ v.role = e /\ v.out = {} /\ v \in Session /\ p \in Session
      /\ Bears(m, v, p) /\ m \in Message /\ v.state # DISCONNECTED /\ m.to = e
      /\ \A n \in net : /\ n \in Message
                        /\ n.to = e => Carried(n, v, p) /\ Bears(n, v, p)
                        /\ n.to # e => Carried(n, p, v) /\ Bears(n, p, v)
      /\ \A k, n \in net : k.t \in Rejections /\ n.t \in Rejections /\ k.i = n.i => k = n
  BY PendingLinked DEF Linked, Got, Pending, Alive
<1>2. Rest(e, m) \in SUBSET net /\ i \in Ids
  BY GotLemma DEF Carried
<1>3. CASE v.itsx # i \/ v.tsx[i] # "accepted"
  <2>1. w = v
    BY <1>3 DEF OnAck
  <2> QED BY <1>2, <2>1, UnmovedAgreed
<1>4. CASE v.itsx = i /\ v.tsx[i] = "accepted"
  <2>1. PICK u \in CheckSdp(v, m) : w = F(Over(K(u), i))
    <3>1. v.state < DISCONNECTED
      BY <1>1, StateOrder DEF Session
    <3> QED BY <1>4, <3>1 DEF OnAck
  <2>2. i \notin v.mine /\ Serves(v, i) /\ p.tsx[i] = "over"
    <3>1. i \notin v.mine
      BY <1>1, <1>2, <1>4 DEF Linked, Owns, Open
    <3> QED BY <1>1, <1>4, <3>1 DEF Serves, Bears
  <2>3. Acked(i, p, v) /\ Sane(v.neg) /\ Sane(p.neg)
    BY <1>1, <1>2, <2>2 DEF Pact, Answers, Shape, Open
  <2>4. m.sdp = p.ack.sdp
    BY <1>1, <2>3 DEF Bears, Acked
  <2>5. v.state # NULL
    <3>1. Fresh(v)
      BY DEF Pending, IInv, Calls
    <3> QED BY <3>1, <1>2, <1>4 DEF Fresh
  <2>6. /\ u.neg.act = p.neg.act /\ Sane(u.neg) /\ u.ack = v.ack /\ u.done \in {v.done, v.done \cup {i}}
        /\ Negotiates(v, u)
        /\ u.neg.st = "DONE" \/ (u.neg.st = "LOCAL_OFFER" /\ u.neg = v.neg)
    <3> HIDE DEF v, p
    <3> QED BY <1>1, <2>1, <2>3, <2>4, CheckAcked, CheckSdpLemma
  <2>7. u \in Session
    BY <2>6 DEF Negotiates, Core
  <2>8. /\ Core(u, K(u)) /\ K(u).state = u.state /\ K(u).out = u.out /\ K(u).ack = u.ack
        /\ K(u).done = u.done /\ Sane(K(u).neg) /\ K(u).neg.act = u.neg.act
        /\ K(u).neg.st = "DONE" \/ (K(u).neg = v.neg /\ u.state # CONFIRMED)
    <3>1. CASE u.neg.st = "LOCAL_OFFER" /\ u.state = CONFIRMED
      <4>1. u.neg \in Neg
        BY <2>7 DEF Session
      <4>2. PICK n \in Neg : n = CancelOffer(u.neg) /\ n.st = "DONE" /\ n.act = u.neg.act
        BY <3>1, <4>1, NegLemma, 0 \in Nat
      <4>3. K(u) = [u EXCEPT !.neg = n]
        BY <3>1, <4>2
      <4> HIDE DEF K
      <4>4. Core(u, K(u)) /\ K(u).state = u.state /\ K(u).neg = n /\ K(u).out = u.out
        BY <2>7, <4>3, NegFieldLemma
      <4>5. K(u).done = u.done /\ K(u).ack = u.ack
        BY <2>7, <4>3 DEF Session
      <4>6. Sane(n)
        BY <2>6, <4>2 DEF Sane, Offering
      <4> QED BY <4>2, <4>4, <4>5, <4>6
    <3>2. CASE ~(u.neg.st = "LOCAL_OFFER" /\ u.state = CONFIRMED)
      BY <2>6, <2>7, <3>2 DEF Core
    <3> QED BY <3>1, <3>2
  <2> HIDE DEF K
  <2>9. PICK k \in Session : k = K(u)
    BY <2>8 DEF Core
  <2>10. /\ Core(v, k) /\ k.state = v.state /\ k.out = {} /\ k.ack = v.ack
         /\ k.done \in {v.done, v.done \cup {i}} /\ Sane(k.neg) /\ k.neg.act = p.neg.act
         /\ k.neg.st = "DONE" \/ (k.neg = v.neg /\ v.state < CONFIRMED)
    <3>1. u.state = v.state /\ (v.state = CONFIRMED \/ v.state < CONFIRMED)
      BY <1>1, <2>6, StateOrder DEF Negotiates, Session
    <3> QED BY <1>1, <2>6, <2>8, <2>9, <3>1 DEF Core, Negotiates
  <2> HIDE DEF v, p, i
  <2> DEFINE x == Over(k, i)
  <2>11. /\ Goes(k, x, i, "over", IF k.itsx = i THEN 0 ELSE k.itsx)
         /\ x.state = k.state /\ x.neg = k.neg /\ x.cause = k.cause /\ x.lapsed = k.lapsed
         /\ x.out = k.out
    BY <1>2, OverLemma
  <2>12. Aside(k, x) /\ x \in Session
    BY <1>2, <2>11, MoveAside DEF Goes
  <2>13. w = F(x)
    BY <2>1, <2>9
  <2> HIDE DEF x
  <2>14. Same(x, w) /\ w \in Session /\ w.state \in {x.state, CONFIRMED} /\ Says(x, w, {"BYE"})
    BY <2>12, <2>13, ReleaseSame
  <2>15. /\ Goes(v, w, i, "over", 0) /\ w.ack = v.ack /\ w.done \in {v.done, v.done \cup {i}}
         /\ Sane(w.neg) /\ w.neg.act = p.neg.act /\ w.state # NULL
         /\ w.neg.st = "DONE" \/ (w.neg = v.neg /\ v.state < CONFIRMED)
    <3>1. Goes(v, w, i, "over", 0)
      BY <1>4, <2>10, <2>11, <2>14 DEF Goes, Core, Same
    <3>2. w.neg = k.neg /\ w.ack = k.ack /\ w.done = k.done
      BY <2>12, <2>14 DEF Same, Aside
    <3>3. w.state # NULL
      BY <2>5, <2>10, <2>11, <2>14, StateOrder
    <3> QED BY <2>10, <3>1, <3>2, <3>3
  <2>16. /\ Pact(w, p) /\ i # 0
         /\ \A j \in Ids \ {i} : w.tsx[j] = v.tsx[j] /\ ~Serves(v, j)
    BY <1>1, <1>2, <1>4, <2>2, <2>15, ServedPact
  <2>17. w.tsx[i] = "over"
    BY <1>1, <1>2, <2>15 DEF Goes, Session
  <2>18. ASSUME NEW n \in Rest(e, m)
         PROVE  /\ n.to = e => Bears(n, w, p)
                /\ n.to # e => Bears(n, p, w)
    <3>1. ~(n.t = "200" /\ n.i = i)
      BY <2>18 DEF Rest, Late, Rejections, i
    <3>2. n \in net /\ w.ack = v.ack
      BY <1>2, <2>15
    <3> QED BY <1>1, <1>2, <1>4, <2>2, <2>16, <2>17, <3>1, <3>2, ServedBears
  <2>19. \A n \in w.out : n.to = Peer(e) /\ n.t = "BYE"
    <3>1. x.out = {} /\ x.role = e
      BY <1>1, <2>10, <2>11 DEF Goes, Core
    <3> QED BY <2>14, <3>1 DEF Says, Out
  <2>20. \A n \in w.out : n.to = Peer(e) /\ Bears(n, p, w) /\ n.t \notin Rejections
    BY <2>19 DEF Bears, Provisionals, Rejections
  <2> QED BY <1>1, <1>2, <2>16, <2>18, <2>20 DEF Agreed, p
<1> QED BY <1>3, <1>4

-----------------------------------------------------------------------------
(* An INVITE that this end serves.                                         *)

(* The INVITE i is served in w, which has begun or gone on to do so; what  *)
(* is negotiated in w is not looked at here.                               *)
Server(v, w, i, s) == /\ i \in Ids /\ i \notin v.mine /\ s \in {"proceeding", "accepted"}
                      /\ \/ v.itsx = 0 /\ v.tsx[i] = "none"
                         \/ v.itsx = i /\ v.tsx[i] = "proceeding"
                      /\ Goes(v, w, i, s, i) /\ w.ack = v.ack
                      /\ w.done \in {v.done, v.done \cup {i}} /\ Sane(w.neg) /\ Resolved(w)
                      /\ w.state # NULL /\ ~(w.role = "uac" /\ w.state = CONNECTING)

(* The fields of such a step.                                              *)
LEMMA ServerLemma ==
    ASSUME NEW v, NEW w, NEW p, NEW i, NEW s, Linked(v, p), Server(v, w, i, s)
    PROVE  /\ i \in Ids /\ i # 0 /\ i \notin v.mine /\ s \in {"proceeding", "accepted"}
           /\ v.itsx \in {0, i} /\ w.tsx[i] = s /\ w.mine = v.mine /\ w.ack = v.ack
           /\ v.tsx[i] \in {"none", "proceeding"}
           /\ \A j \in Ids \ {i} : w.tsx[j] = v.tsx[j]
<1>1. /\ i \in Ids /\ i \notin v.mine /\ s \in {"proceeding", "accepted"}
      /\ v.itsx \in {0, i} /\ v.tsx[i] \in {"none", "proceeding"}
      /\ w.mine = v.mine /\ w.ack = v.ack /\ w.tsx = [v.tsx EXCEPT ![i] = s]
  BY DEF Server, Goes
<1>2. v.tsx \in [Ids -> TsxStates] /\ i # 0
  BY <1>1 DEF Linked, Session, Ids
<1>3. w.tsx[i] = s /\ \A j \in Ids \ {i} : w.tsx[j] = v.tsx[j]
  BY <1>1, <1>2
<1> QED BY <1>1, <1>2, <1>3

(* It serves nothing else.                                                 *)
LEMMA ServerServes ==
    ASSUME NEW v, NEW w, NEW p, NEW i \in Ids, NEW s, Linked(v, p), v.itsx \in {0, i},
           Goes(v, w, i, s, i), NEW j \in Ids, Serves(w, j)
    PROVE  j = i
<1>1. SUFFICES ASSUME j # i PROVE FALSE
  OBVIOUS
<1>2. v.tsx \in [Ids -> TsxStates] /\ w.tsx = [v.tsx EXCEPT ![i] = s] /\ w.mine = v.mine
  BY DEF Linked, Session, Goes
<1>3. Serves(v, j)
  BY <1>1, <1>2 DEF Serves
<1>4. v.itsx = j /\ j # 0
  BY <1>3 DEF Linked, Owns, Serves, Open, Ids
<1> QED BY <1>1, <1>4

(* Its caller waits for what w answers.                                    *)
LEMMA ServerPact ==
    ASSUME NEW v, NEW w, NEW p, NEW i, NEW s, Linked(v, p), Pact(v, p), Server(v, w, i, s),
           p.tsx[i] \in Open, i \in p.mine, Waits(i, p, w)
    PROVE  Pact(w, p)
<1>1. /\ i \in Ids /\ i # 0 /\ i \notin v.mine /\ s \in {"proceeding", "accepted"}
      /\ v.itsx \in {0, i} /\ w.tsx[i] = s /\ w.mine = v.mine /\ w.ack = v.ack
      /\ v.tsx[i] \in {"none", "proceeding"}
      /\ \A j \in Ids \ {i} : w.tsx[j] = v.tsx[j]
  BY ServerLemma
<1>2. ~Serving(p)
  <2>1. Linked(p, v)
    BY DEF Linked
  <2> QED BY <1>1, <2>1, OpenLemma
<1>3. Serving(w)
  BY <1>1 DEF Serving, Serves
<1>4. ASSUME NEW j \in Ids, Serves(w, j) PROVE j = i
  <2>1. SUFFICES ASSUME j # i PROVE FALSE
    OBVIOUS
  <2>2. Serves(v, j)
    BY <1>1, <1>4, <2>1 DEF Serves
  <2>3. v.itsx = j /\ j # 0
    BY <2>2 DEF Linked, Owns, Serves, Open, Ids
  <2> QED BY <1>1, <2>1, <2>3
<1>5. Answers(p, w)
  BY <1>4 DEF Answers
<1>6. Answers(w, p)
  BY <1>2 DEF Answers, Serving
<1>7. Shape(w)
  <2>1. Shape(v) /\ v.tsx[i] # "over"
    BY DEF Pact, Server
  <2>2. w.ack.i # 0 => w.ack.i \in Ids /\ w.tsx[w.ack.i] = "over"
    BY <1>1, <2>1 DEF Shape
  <2>3. \A j \in w.done : j \in Ids /\ w.tsx[j] # "none"
    <3>1. w.done \in {v.done, v.done \cup {i}}
      BY DEF Server
    <3> QED BY <1>1, <2>1, <3>1 DEF Shape
  <2> QED BY <2>2, <2>3 DEF Shape, Server
<1> QED BY <1>2, <1>3, <1>5, <1>6, <1>7 DEF Pact

(* What was sent before stays true.                                        *)
LEMMA ServerBears ==
    ASSUME NEW v, NEW w, NEW p, NEW i, NEW s, Linked(v, p), Server(v, w, i, s),
           v.tsx[i] = "proceeding" => Description(v) \in {0, Description(w)},
           NEW n \in Message
    PROVE  /\ Carried(n, v, p) /\ Bears(n, v, p) => Bears(n, w, p)
           /\ Carried(n, p, v) /\ Bears(n, p, v) => Bears(n, p, w)
<1>1. /\ i \in Ids /\ i # 0 /\ i \notin v.mine /\ s \in {"proceeding", "accepted"}
      /\ v.itsx \in {0, i} /\ w.tsx[i] = s /\ w.mine = v.mine /\ w.ack = v.ack
      /\ v.tsx[i] \in {"none", "proceeding"}
      /\ \A j \in Ids \ {i} : w.tsx[j] = v.tsx[j]
  BY ServerLemma
<1>2. ASSUME Carried(n, v, p), Bears(n, v, p)
      PROVE  Bears(n, w, p)
  <2>1. n.t \in Rejections => n.i \in Ids /\ n.i \in v.mine /\ v.tsx[n.i] \in Open
    BY <1>2 DEF Carried, Bears, Finals, Rejections
  <2>2. n.t \in Rejections => w.tsx[n.i] \in Open
    BY <1>1, <2>1
  <2> QED BY <1>2, <2>2 DEF Bears
<1>3. ASSUME Carried(n, p, v), Bears(n, p, v), n.t # "INVITE"
      PROVE  Bears(n, p, w)
  <2>1. ASSUME n.t \in Provisionals \cup {"200"}
        PROVE  /\ n.t \in Provisionals /\ w.tsx[n.i] \in {"proceeding", "accepted"}
               /\ n.sdp \in {0, Description(w)}
    <3>1. /\ n.i \in Ids /\ v.tsx[n.i] \in {"proceeding", "accepted"}
          /\ n.t \in Provisionals => n.sdp \in {0, Description(v)}
          /\ n.t = "200" => v.tsx[n.i] = "accepted"
          /\ n.i \in p.mine
      BY <1>3, <2>1 DEF Carried, Bears, Provisionals, Finals
    <3>2. v.itsx = n.i /\ n.i # 0
      BY <3>1 DEF Linked, Owns, Open, Ids
    <3>3. n.i = i /\ v.tsx[i] = "proceeding"
      BY <1>1, <3>1, <3>2
    <3> QED BY <1>1, <2>1, <3>1, <3>3
  <2>2. ASSUME n.t \in Rejections
        PROVE  w.tsx[n.i] \in {"rejected", "over"} /\ p.tsx[n.i] \in Open
    <3>1. n.i \in Ids /\ v.tsx[n.i] \in {"rejected", "over"} /\ p.tsx[n.i] \in Open
      BY <1>3, <2>2 DEF Carried, Bears, Rejections
    <3> QED BY <1>1, <3>1
  <2>3. ASSUME n.t = "ACK"
        PROVE  w.tsx[n.i] = "over" /\ (w.ack.i = n.i => n.sdp = w.ack.sdp)
    <3>1. n.i \in Ids /\ v.tsx[n.i] = "over" /\ (v.ack.i = n.i => n.sdp = v.ack.sdp)
      BY <1>3, <2>3 DEF Carried, Bears
    <3> QED BY <1>1, <3>1
  <2>4. "200" \notin Provisionals
    BY DEF Provisionals
  <2> QED BY <1>3, <2>1, <2>2, <2>3, <2>4 DEF Bears
<1>4. ASSUME Carried(n, p, v), n.t = "INVITE"
      PROVE  FALSE
  <2>1. n.i \in v.mine /\ v.tsx[n.i] \in Open /\ n.i \in Ids
    BY <1>4 DEF Carried
  <2>2. v.itsx = n.i /\ n.i # 0
    BY <2>1, OpenLemma
  <2> QED BY <1>1, <2>1, <2>2
<1> QED BY <1>2, <1>3, <1>4

(* Both together.                                                          *)
LEMMA ServerAgreed ==
    ASSUME NEW e, Pending(e), NEW rest \in SUBSET net, NEW i, NEW s, NEW w,
           Server(inv[e], w, i, s), inv[Peer(e)].tsx[i] \in Open, i \in inv[Peer(e)].mine,
           Waits(i, inv[Peer(e)], w),
           inv[e].tsx[i] = "proceeding" => Description(inv[e]) \in {0, Description(w)},
           \A n \in w.out : /\ n.to = Peer(e) /\ n.i = i
                            /\ \/ n.t \in Provisionals /\ n.sdp \in {0, Description(w)}
                               \/ n.t = "200" /\ s = "accepted" /\ n.sdp = Description(w)
    PROVE  Agreed(e, w, rest)
<1> DEFINE v == inv[e]
           p == inv[Peer(e)]
<1>1. /\ Linked(v, p) /\ Pact(v, p)
      /\ \A n \in net : /\ n \in Message
                        /\ n.to = e => Carried(n, v, p) /\ Bears(n, v, p)
                        /\ n.to # e => Carried(n, p, v) /\ Bears(n, p, v)
      /\ \A k, n \in net : k.t \in Rejections /\ n.t \in Rejections /\ k.i = n.i => k = n
  BY PendingLinked
<1>2. w.tsx[i] = s /\ s \in {"proceeding", "accepted"}
  BY <1>1, ServerLemma
<1>3. Pact(w, p)
  BY <1>1, ServerPact
<1>4. ASSUME NEW n \in rest
      PROVE  /\ n.to = e => Bears(n, w, p)
             /\ n.to # e => Bears(n, p, w)
  <2>1. v.tsx[i] = "proceeding" => Description(v) \in {0, Description(w)}
    OBVIOUS
  <2>2. Server(v, w, i, s)
    OBVIOUS
  <2> HIDE DEF v, p
  <2> QED BY <1>1, <2>1, <2>2, ServerBears
<1>5. ASSUME NEW n \in w.out
      PROVE  n.to = Peer(e) /\ Bears(n, p, w) /\ n.t \notin Rejections
  BY <1>2 DEF Bears, Provisionals, Rejections
<1>6. \A k, n \in rest \cup w.out : k.t \in Rejections /\ n.t \in Rejections /\ k.i = n.i => k = n
  BY <1>1, <1>5
<1> QED BY <1>3, <1>4, <1>5, <1>6 DEF Agreed

(* Nothing is served while this end has nothing pending and the other an   *)
(* INVITE that has not come yet: both use the same.                        *)
LEMMA IdleLemma ==
    ASSUME NEW v, NEW p, Linked(v, p), Pact(v, p), v.itsx = 0, NEW i \in Ids,
           i \in p.mine, p.tsx[i] \in Open, v.tsx[i] = "none"
    PROVE  /\ v.neg.act = p.neg.act /\ ~Serving(v) /\ ~Serving(p) /\ i \notin v.mine
           /\ i \notin v.done /\ i # 0
<1>1. Linked(p, v)
  BY DEF Linked
<1>2. ~Serving(p)
  BY <1>1, OpenLemma
<1>3. ~Serving(v)
  BY DEF Linked, Owns, Serving, Serves, Open, Ids
<1>4. i \notin v.done /\ i # 0 /\ i \notin v.mine
  BY DEF Pact, Shape, Linked, Ids
<1> QED BY <1>2, <1>3, <1>4 DEF Pact

(* The first INVITE.                                                       *)
LEMMA OnInviteAgrees ==
    ASSUME NEW e, NEW m, Got(e, m), Pending(e), m.t = "INVITE", inv[e].state = NULL,
           NEW w \in OnInvite(inv[e], m)
    PROVE  Agreed(e, w, Rest(e, m))
<1> DEFINE v == inv[e]
           p == inv[Peer(e)]
           i == m.i
           n1 == IF m.sdp = 0 THEN v.neg ELSE RemoteOffer(v.neg, m.sdp)
           x == [v EXCEPT !.state = INCOMING, !.itsx = i, !.tsx[i] = "proceeding", !.neg = n1]
<1>1. /\ Linked(v, p) /\ Pact(v, p) /\ v.role = e /\ v.out = {} /\ v \in Session /\ p \in Session
      /\ Bears(m, v, p) /\ m \in Message
  BY PendingLinked DEF Linked, Got
<1>2. /\ i \in Ids /\ i \in p.mine /\ p.tsx[i] \in Open /\ v.tsx[i] = "none" /\ Rest(e, m) \in SUBSET net
      /\ i \in 0..MaxInvites /\ Closable(v) /\ Fresh(v)
  <2>1. Carried(m, v, p) /\ Rest(e, m) \in SUBSET net /\ Closable(v)
    BY GotLemma
  <2>2. Fresh(v)
    BY DEF Pending, IInv, Calls
  <2> QED BY <1>1, <2>1, <2>2 DEF Carried, Linked, Message
<1>3. v.itsx = 0 /\ v.neg.st = "NULL" /\ v.neg.act = <<0, 0>>
  BY <1>1, <1>2 DEF Fresh, Pact, Shape, Closable
<1>4. /\ v.neg.act = p.neg.act /\ i \notin v.mine /\ i \notin v.done /\ i # 0
  BY <1>1, <1>2, <1>3, IdleLemma
<1>5. m.sdp = Offered(p.neg) /\ i \notin p.done
  BY <1>1 DEF Bears
<1>6. v.neg \in Neg /\ m.sdp \in Nat /\ Sane(v.neg)
  BY <1>1 DEF Session, Message, Pact, Shape
<1>7. /\ n1 \in Neg /\ n1.act = <<0, 0>> /\ Sane(n1)
      /\ IF m.sdp = 0 THEN n1.st = "NULL" ELSE n1.st = "REMOTE_OFFER" /\ n1.rem = m.sdp
  <2>1. CASE m.sdp = 0
    BY <2>1, <1>3, <1>6
  <2>2. CASE m.sdp # 0
    <3>1. n1 = RemoteOffer(v.neg, m.sdp)
      BY <2>2
    <3> HIDE DEF n1, v
    <3>2. n1 \in Neg /\ n1.st = "REMOTE_OFFER" /\ n1.rem = m.sdp /\ n1.act = v.neg.act
      BY <1>6, <3>1, OfferedLemma
    <3> QED BY <2>2, <3>2, <1>3 DEF Sane, Offering
  <2> QED BY <2>1, <2>2
<1>8. w = Send(x, "100", i, 0)
  BY DEF OnInvite
<1> HIDE DEF i, n1, v, p
<1>9. /\ Goes(v, x, i, "proceeding", i) /\ x.state = INCOMING /\ x.neg = n1 /\ x.out = v.out
      /\ x.done = v.done /\ x.ack = v.ack
  <2>1. PICK r \in [Ids -> TsxStates] : r = [v.tsx EXCEPT ![i] = "proceeding"]
    BY <1>1, <1>2 DEF Session, TsxStates
  <2>2. PICK d \in NULL..DISCONNECTED : d = INCOMING
    BY StateOrder
  <2>3. x = [v EXCEPT !.state = d, !.itsx = i, !.tsx = r, !.neg = n1]
    BY <2>1, <2>2, <1>1 DEF Session
  <2> HIDE DEF x
  <2>4. x \in Session
    BY <2>3, <1>1, <1>2, <1>7 DEF Session
  <2> QED BY <2>1, <2>2, <2>3, <2>4, <1>1 DEF Goes, Session
<1>10. x \in Session
  BY <1>9 DEF Goes
<1> HIDE DEF x
<1>11. /\ Same(x, w) /\ w.state = x.state
       /\ w.out = x.out \cup {[to |-> Peer(x.role), t |-> "100", i |-> i, sdp |-> 0]}
  BY <1>8, <1>10, SendSame
<1>12. w \in Session
  <2>1. /\ "100" \in MessageTypes /\ "100" \notin {"BYE", "OK"} /\ 0 \in Nat
        /\ i \in 0..MaxInvites /\ i \in Ids
    BY <1>2 DEF MessageTypes, Provisionals
  <2>2. LET z == Send(x, "100", i, 0)
        IN  /\ Core(x, z) /\ z.state = x.state /\ z.neg = x.neg /\ z.cause = x.cause
            /\ z.out = x.out \cup {[to |-> Peer(x.role), t |-> "100", i |-> i, sdp |-> 0]}
            /\ Says(x, z, {"100"})
    BY <1>10, <2>1, SendLemma
  <2> QED BY <1>8, <2>2 DEF Core
<1>13. Server(v, w, i, "proceeding")
  <2>1. Goes(v, w, i, "proceeding", i)
    BY <1>9, <1>11, <1>12 DEF Goes, Same
  <2>2. w.state # NULL /\ w.state # CONNECTING
    BY <1>9, <1>11, StateOrder
  <2>3. Sane(w.neg) /\ w.done = v.done /\ w.ack = v.ack /\ w.neg = n1
    BY <1>7, <1>9, <1>11 DEF Same
  <2>4. Resolved(w)
    BY <1>7, <2>3 DEF Resolved
  <2> QED BY <1>2, <1>3, <1>4, <2>1, <2>2, <2>3, <2>4 DEF Server
<1>14. Waits(i, p, w)
  <2>1. w.neg = n1 /\ w.done = v.done /\ w.tsx[i] = "proceeding"
    <3>1. w.tsx = [v.tsx EXCEPT ![i] = "proceeding"]
      BY <1>9, <1>11 DEF Goes, Same
    <3> QED BY <3>1, <1>1, <1>2, <1>9, <1>11 DEF Same, Session
  <2> QED BY <2>1, <1>3, <1>4, <1>5, <1>7 DEF Waits
<1>15. \A n \in w.out : n.to = Peer(e) /\ n.i = i /\ n.t \in Provisionals /\ n.sdp = 0
  BY <1>1, <1>9, <1>11 DEF Goes, Provisionals
<1>16. v.tsx[i] # "proceeding"
  BY <1>2
<1> QED BY <1>2, <1>13, <1>14, <1>15, <1>16, ServerAgreed DEF v, p

(* A re-INVITE that is answered is served.                                 *)
LEMMA ReinviteServed ==
    ASSUME NEW e, NEW m, Got(e, m), Pending(e), m.t = "INVITE", inv[e].state = CONFIRMED,
           inv[e].itsx = 0, NEW y \in Session, y.role = e, y.tsx = inv[e].tsx, y.itsx = m.i,
           y.mine = inv[e].mine, y.ack = inv[e].ack, y.state = CONFIRMED, y.out = {},
           y.done \in {inv[e].done, inv[e].done \cup {m.i}}, Sane(y.neg), NEW o \in Nat,
           \/ /\ y.neg.st = "LOCAL_OFFER" /\ m.sdp = 0 /\ y.done = inv[e].done
              /\ y.neg.act = inv[e].neg.act /\ o = y.neg.loc /\ o = m.i
           \/ /\ y.neg.st = "DONE" /\ m.sdp # 0 /\ y.done = inv[e].done \cup {m.i}
              /\ y.neg.act = <<m.sdp, m.sdp>> /\ o = m.sdp
    PROVE  Agreed(e, Accept(y, m.i, o), Rest(e, m))
<1> DEFINE v == inv[e]
           p == inv[Peer(e)]
           i == m.i
           w == Accept(y, i, o)
<1>1. /\ Linked(v, p) /\ Pact(v, p) /\ v \in Session /\ v.role = e /\ p \in Session /\ Bears(m, v, p)
      /\ m \in Message
  BY PendingLinked DEF Linked, Got
<1>2. i \in Ids /\ i \in p.mine /\ p.tsx[i] \in Open /\ v.tsx[i] = "none" /\ Rest(e, m) \in SUBSET net
  <2>1. Carried(m, v, p) /\ Rest(e, m) \in SUBSET net
    BY GotLemma
  <2> QED BY <1>1, <2>1 DEF Carried, Linked
<1>3. v.neg.act = p.neg.act /\ i \notin v.mine /\ i \notin v.done /\ i # 0
  BY <1>1, <1>2, IdleLemma
<1>4. m.sdp = Offered(p.neg) /\ i \notin p.done /\ Sane(p.neg)
  BY <1>1 DEF Bears, Pact, Shape
<1>5. /\ v.itsx = 0 /\ y.tsx = v.tsx /\ y.itsx = i /\ y.mine = v.mine /\ y.ack = v.ack
      /\ y.role = v.role /\ y.done \in {v.done, v.done \cup {i}}
      /\ \/ /\ y.neg.st = "LOCAL_OFFER" /\ m.sdp = 0 /\ y.done = v.done
            /\ y.neg.act = v.neg.act /\ o = y.neg.loc /\ o = i
         \/ /\ y.neg.st = "DONE" /\ m.sdp # 0 /\ y.done = v.done \cup {i}
            /\ y.neg.act = <<m.sdp, m.sdp>> /\ o = m.sdp
  BY <1>1
<1> HIDE DEF v, p, i
<1>6. /\ Goes(y, w, i, "accepted", y.itsx)
      /\ w.state = y.state /\ w.neg = y.neg /\ w.cause = y.cause
      /\ w.lapsed = y.lapsed
      /\ w.out = y.out \cup {[to |-> Peer(y.role), t |-> "200", i |-> i, sdp |-> o]}
      /\ Says(y, w, {"200"})
  BY <1>2, AcceptLemma
<1>7. Aside(y, w)
  BY <1>2, MoveAside
<1> HIDE DEF w
<1>8. Server(v, w, i, "accepted")
  <2>1. Goes(v, w, i, "accepted", i)
    BY <1>5, <1>6 DEF Goes
  <2>2. w.state # NULL /\ w.state # CONNECTING /\ w.state = CONFIRMED
    BY <1>6, StateOrder
  <2>3. Resolved(w)
    <3>1. w.neg = y.neg
      BY <1>7 DEF Aside
    <3>2. \A j \in Ids : Serves(w, j) => j = i
      BY <1>1, <1>2, <1>5, <2>1, ServerServes
    <3> QED BY <1>5, <2>2, <3>1, <3>2, StateOrder DEF Resolved
  <2> QED BY <1>2, <1>3, <1>5, <1>7, <2>1, <2>2, <2>3 DEF Server, Aside
<1>9. Waits(i, p, w) /\ Description(w) = o
  <2>1. w.neg = y.neg /\ w.done = y.done
    BY <1>7 DEF Aside
  <2>2. CASE y.neg.st = "LOCAL_OFFER" /\ m.sdp = 0 /\ y.done = v.done
             /\ y.neg.act = v.neg.act /\ o = y.neg.loc
    <3>1. p.neg.st \notin Offering
      BY <1>4, <2>2 DEF Offered, Sane
    <3> QED BY <1>3, <1>4, <2>1, <2>2, <3>1 DEF Waits, Description
  <2>3. CASE y.neg.st = "DONE" /\ m.sdp # 0 /\ y.done = v.done \cup {i}
             /\ y.neg.act = <<m.sdp, m.sdp>> /\ o = m.sdp
    BY <1>4, <2>1, <2>3 DEF Waits, Description
  <2> QED BY <1>5, <2>2, <2>3
<1>10. \A n \in w.out : n.to = Peer(e) /\ n.i = i /\ n.t = "200" /\ n.sdp = Description(w)
  BY <1>6, <1>9
<1>11. v.tsx[i] # "proceeding"
  BY <1>2
<1>12. \A n \in w.out : /\ n.to = Peer(e) /\ n.i = i
                        /\ \/ n.t \in Provisionals /\ n.sdp \in {0, Description(w)}
                           \/ n.t = "200" /\ "accepted" = "accepted" /\ n.sdp = Description(w)
  BY <1>10
<1>13. Agreed(e, w, Rest(e, m))
  <2>1. /\ Pending(e) /\ Rest(e, m) \in SUBSET net /\ Server(inv[e], w, i, "accepted")
        /\ inv[Peer(e)].tsx[i] \in Open /\ i \in inv[Peer(e)].mine /\ Waits(i, inv[Peer(e)], w)
        /\ inv[e].tsx[i] = "proceeding" => Description(inv[e]) \in {0, Description(w)}
    BY <1>2, <1>8, <1>9, <1>11 DEF v, p
  <2> QED BY ONLY <2>1, <1>12, ServerAgreed
<1> QED BY <1>13 DEF w, i

(* One that is not, while none was pending before.                         *)
LEMMA ReinviteRefused ==
    ASSUME NEW e, NEW m, Got(e, m), Pending(e), m.t = "INVITE", inv[e].state = CONFIRMED,
           inv[e].itsx = 0, NEW y \in Session, y.role = e, y.tsx = inv[e].tsx, y.itsx = m.i,
           y.mine = inv[e].mine, y.ack = inv[e].ack, y.state = CONFIRMED, y.out = {},
           y.done = inv[e].done, Sane(y.neg), y.neg.act = inv[e].neg.act,
           y.neg = inv[e].neg \/ y.neg.st = "DONE", NEW t \in Rejections
    PROVE  Agreed(e, Reject(y, m.i, t), Rest(e, m))
<1> DEFINE v == inv[e]
           i == m.i
           w == Reject(y, i, t)
<1>1. v \in Session /\ v.role = e /\ i \in Ids
  BY GotLemma DEF Carried
<1>2. /\ v.itsx = 0 /\ y.tsx = v.tsx /\ y.itsx = i /\ y.mine = v.mine /\ y.ack = v.ack
      /\ y.role = v.role /\ y.done = v.done /\ y.neg.act = v.neg.act /\ y.state = v.state
      /\ y.neg = v.neg \/ y.neg.st = "DONE"
      /\ y.out = {} /\ v.state # NULL /\ y.state # CONNECTING
  BY <1>1, StateOrder
<1> HIDE DEF v, i
<1>3. /\ Goes(y, w, i, "rejected", y.itsx)
      /\ w.state = y.state /\ w.neg = y.neg /\ w.cause = y.cause
      /\ w.lapsed = y.lapsed
      /\ w.out = y.out \cup {[to |-> Peer(y.role), t |-> t, i |-> i, sdp |-> 0]}
      /\ Says(y, w, {t})
  BY <1>1, RejectLemma
<1>4. Aside(y, w)
  BY <1>1, MoveAside
<1> HIDE DEF w
<1>5. Turns(v, w, i) /\ w.tsx[i] = "rejected"
  <2>1. w \in Session /\ w.tsx = [v.tsx EXCEPT ![i] = "rejected"] /\ w.role = v.role /\ w.mine = v.mine
    BY <1>2, <1>3 DEF Goes
  <2>2. w.tsx[i] = "rejected" /\ \A j \in Ids \ {i} : w.tsx[j] = v.tsx[j]
    BY <1>1, <2>1 DEF Session
  <2> QED BY <1>1, <1>2, <1>4, <2>1, <2>2 DEF Turns, Aside
<1>6. w.out = {[to |-> Peer(e), t |-> t, i |-> i, sdp |-> 0]} /\ w.state = v.state /\ w.state # CONNECTING
  BY <1>1, <1>2, <1>3
<1>7. Agreed(e, w, Rest(e, m))
  BY <1>2, <1>5, <1>6, RejectedAgreed DEF v, i
<1> QED BY <1>7 DEF w, i

(* A re-INVITE.                                                            *)
LEMMA OnReinviteAgrees ==
    ASSUME NEW e, NEW m, Got(e, m), Pending(e), m.t = "INVITE", inv[e].state = CONFIRMED,
           NEW w \in OnReinvite(inv[e], m)
    PROVE  Agreed(e, w, Rest(e, m))
<1> DEFINE v == inv[e]
           i == m.i
           x == [v EXCEPT !.itsx = i]
<1>1. v \in Session /\ v.role = e /\ v.out = {} /\ m \in Message
  BY GotLemma
<1>2. i \in Ids /\ i \in Nat /\ i # 0 /\ i \in 0..MaxInvites /\ m.sdp \in Nat
  <2>1. i \in Ids
    BY GotLemma DEF Carried
  <2> QED BY <1>1, <2>1 DEF Message, Ids
<1>3. "491" \in Rejections /\ "488" \in Rejections /\ v.state # NULL
  BY StateOrder DEF Rejections
<1>4. v.neg \in Neg /\ Sane(v.neg)
  <2>1. Pact(v, inv[Peer(e)])
    BY PendingLinked
  <2> QED BY <1>1, <2>1 DEF Session, Pact, Shape
<1>5. CASE v.itsx # 0
  <2>1. w = Reject(v, m.i, "491")
    BY <1>5 DEF OnReinvite
  <2> QED BY <1>3, <2>1, RejectAgrees
<1>6. CASE v.itsx = 0
  <2>1. /\ x \in Session /\ x.role = e /\ x.state = CONFIRMED /\ x.itsx = i /\ x.tsx = v.tsx
        /\ x.mine = v.mine /\ x.neg = v.neg /\ x.out = {} /\ x.done = v.done /\ x.ack = v.ack
    <3>1. v.state = CONFIRMED
      OBVIOUS
    <3> HIDE DEF i, v
    <3> QED BY <1>1, <1>2, <3>1 DEF Session
  <2>2. CASE v.neg.st # "DONE"
    <3>1. w = Reject(x, i, "491")
      BY <1>6, <2>2 DEF OnReinvite
    <3>2. Sane(x.neg) /\ x.neg.act = v.neg.act /\ x.neg = v.neg
      BY <1>4, <2>1
    <3> HIDE DEF x
    <3>3. Agreed(e, Reject(x, i, "491"), Rest(e, m))
      BY <1>3, <1>6, <2>1, <3>2, ReinviteRefused
    <3> QED BY <3>1, <3>3
  <2>3. CASE v.neg.st = "DONE" /\ m.sdp = 0
    <3>1. w \in {Accept([x EXCEPT !.neg = LocalOffer(x.neg, i)], i, LocalOffer(x.neg, i).loc)}
      BY <1>6, <2>3 DEF OnReinvite
    <3>2. PICK n \in Neg : n = LocalOffer(v.neg, i) /\ n.act = v.neg.act /\ n.st = "LOCAL_OFFER" /\ n.loc = i
      <4>1. PICK k \in Neg, o \in Nat : k = v.neg /\ o = i
        BY <1>2, <1>4
      <4>2. /\ LocalOffer(k, o) \in Neg /\ LocalOffer(k, o).act = k.act
            /\ k.st \in {"NULL", "DONE"} => LocalOffer(k, o).st = "LOCAL_OFFER"
        BY NegLemma
      <4>3. k.st \in {"NULL", "DONE"} => LocalOffer(k, o).loc = o
        BY NegExact
      <4> QED BY <2>3, <4>1, <4>2, <4>3
    <3> DEFINE y == [x EXCEPT !.neg = n]
    <3>3. w = Accept(y, i, i)
      BY <2>1, <3>1, <3>2
    <3>4. Sane(n)
      BY <1>2, <1>4, <3>2 DEF Sane, Offering
    <3> HIDE DEF x
    <3>5. Core(x, y) /\ y.state = x.state /\ y.neg = n /\ y.out = x.out /\ y \in Session
      BY <2>1, NegFieldLemma DEF Core
    <3>6. y.done = x.done /\ y.ack = x.ack
      BY <2>1 DEF Session
    <3> HIDE DEF y
    <3>7. /\ y.role = e /\ y.tsx = v.tsx /\ y.itsx = i /\ y.mine = v.mine /\ y.ack = v.ack
          /\ y.state = CONFIRMED /\ y.out = {} /\ y.done = v.done /\ Sane(y.neg)
          /\ y.neg.st = "LOCAL_OFFER" /\ y.neg.act = v.neg.act /\ i = y.neg.loc
      BY <2>1, <3>2, <3>4, <3>5, <3>6 DEF Core
    <3>8. Agreed(e, Accept(y, i, i), Rest(e, m))
      BY <1>2, <1>6, <2>3, <3>5, <3>7, ReinviteServed
    <3> QED BY <3>3, <3>8
  <2>4. CASE v.neg.st = "DONE" /\ m.sdp # 0
    <3>1. w \in {IF n.st = "REMOTE_OFFER"
                 THEN Reject([x EXCEPT !.neg = CancelOffer(n)], i, "488")
                 ELSE Accept([x EXCEPT !.neg = Negotiate(n), !.done = @ \cup {i}], i, n.loc)
                   : n \in Answered(RemoteOffer(v.neg, m.sdp))}
      BY <1>6, <2>4 DEF OnReinvite
    <3> DEFINE r == RemoteOffer(v.neg, m.sdp)
    <3>2. r \in Neg /\ r.st = "REMOTE_OFFER" /\ r.rem = m.sdp /\ r.act = v.neg.act
      <4> HIDE DEF v
      <4> QED BY <1>2, <1>4, OfferedLemma
    <3> HIDE DEF r, x, v, i
    <3>3. PICK n \in Answered(r) :
             w = IF n.st = "REMOTE_OFFER" THEN Reject([x EXCEPT !.neg = CancelOffer(n)], i, "488")
                 ELSE Accept([x EXCEPT !.neg = Negotiate(n), !.done = @ \cup {i}], i, n.loc)
      BY <3>1 DEF r
    <3>4. n = r \/ n = LocalAnswer(r)
      BY <3>3 DEF Answered
    <3>5. CASE n = r
      <4>1. PICK k \in Neg : k = CancelOffer(r) /\ k.st = "DONE" /\ k.act = r.act
        BY <3>2, NegLemma, 0 \in Nat
      <4> DEFINE y == [x EXCEPT !.neg = k]
      <4>2. w = Reject(y, i, "488")
        BY <3>2, <3>3, <3>5, <4>1
      <4>3. Sane(k)
        BY <1>4, <3>2, <4>1 DEF Sane, Offering
      <4>4. Core(x, y) /\ y.state = x.state /\ y.neg = k /\ y.out = x.out /\ y \in Session
        BY <2>1, NegFieldLemma DEF Core
      <4>5. y.done = x.done /\ y.ack = x.ack
        BY <2>1 DEF Session
      <4> HIDE DEF y
      <4>6. /\ y.role = e /\ y.tsx = v.tsx /\ y.itsx = i /\ y.mine = v.mine /\ y.ack = v.ack
            /\ y.state = CONFIRMED /\ y.out = {} /\ y.done = v.done /\ Sane(y.neg)
            /\ y.neg.act = v.neg.act /\ y.neg.st = "DONE"
        BY <2>1, <3>2, <4>1, <4>3, <4>4, <4>5 DEF Core
      <4>7. Agreed(e, Reject(y, i, "488"), Rest(e, m))
        BY <1>3, <1>6, <4>4, <4>6, ReinviteRefused DEF v, i
      <4> QED BY <4>2, <4>7
    <3>6. CASE n = LocalAnswer(r)
      <4>1. n \in Neg /\ n.st = "WAIT_NEGO" /\ n.loc = m.sdp /\ n.rem = m.sdp
        BY <3>2, <3>6, NegLemma, NegExact, 0 \in Nat
      <4>2. PICK k \in Neg : k = Negotiate(n) /\ k.st = "DONE" /\ k.act = <<m.sdp, m.sdp>>
        <5>1. Negotiate(n) \in Neg /\ Negotiate(n).st = "DONE"
          BY <4>1, NegLemma, 0 \in Nat
        <5>2. Negotiate(n).act = <<n.loc, n.rem>>
          BY <4>1, NegExact, 0 \in Nat
        <5> QED BY <4>1, <5>1, <5>2
      <4>3. PICK d \in SUBSET (0..MaxInvites) : d = x.done \cup {i}
        BY <1>2, <2>1 DEF Session
      <4> DEFINE y == [x EXCEPT !.neg = k, !.done = d]
      <4>4. w = Accept(y, i, m.sdp)
        BY <2>1, <3>3, <4>1, <4>2, <4>3 DEF Session
      <4>5. Negotiates(x, y) /\ y.neg = k
        BY <2>1, NegotiatesLemma
      <4>6. y \in Session /\ y.done = d /\ y.ack = x.ack
        BY <2>1, <4>5 DEF Session, Negotiates, Core
      <4>7. Sane(k)
        BY <1>2, <4>2 DEF Sane, Offering
      <4> HIDE DEF y
      <4>8. /\ y.role = e /\ y.tsx = v.tsx /\ y.itsx = i /\ y.mine = v.mine /\ y.ack = v.ack
            /\ y.state = CONFIRMED /\ y.out = {} /\ y.done = v.done \cup {i} /\ Sane(y.neg)
            /\ y.neg.st = "DONE" /\ y.neg.act = <<m.sdp, m.sdp>>
        BY <2>1, <4>2, <4>3, <4>5, <4>6, <4>7 DEF Core, Negotiates
      <4>9. Agreed(e, Accept(y, i, m.sdp), Rest(e, m))
        BY <1>2, <1>6, <2>4, <4>6, <4>8, ReinviteServed DEF v, i
      <4> QED BY <4>4, <4>9
    <3> QED BY <3>4, <3>5, <3>6
  <2> QED BY <2>2, <2>3, <2>4
<1> QED BY <1>5, <1>6

-----------------------------------------------------------------------------
(* The users' part.                                                        *)

(* The callee makes the first offer, in its response.                      *)
First(d, i) == d.neg.act = <<0, 0>> /\ d.neg.loc = i

(* What a callee describes is what its caller waits for.                   *)
LEMMA DescribeWaits ==
    ASSUME NEW v \in Session, NEW p \in Session, NEW i \in Ids, v.itsx = i, Sane(v.neg), Sane(p.neg),
           Waits(i, p, v), v.neg.st # "DONE"
    PROVE  LET d == Describe(v)
           IN  /\ Waits(i, p, d) /\ Sane(d.neg) /\ d.ack = v.ack
               /\ d.done \in {v.done, v.done \cup {i}}
               /\ d.neg.st \in {"LOCAL_OFFER", "DONE"} /\ Description(v) \in {0, Description(d)}
               /\ d.neg = v.neg \/ d.neg.st = "DONE" \/ First(d, i)
<1> DEFINE n == v.neg
           d == Describe(v)
<1>1. n \in Neg /\ i \in Nat /\ i # 0 /\ p.neg.st \in NegStates /\ 0 \in Nat
  <2>1. n \in Neg /\ p.neg \in Neg
    BY DEF Session
  <2>2. p.neg.st \in NegStates
    BY <2>1 DEF Neg
  <2>3. i \in Nat /\ i # 0
    BY InviteAssumption DEF Ids
  <2> QED BY <2>1, <2>2, <2>3
<1>2. CASE n.st = "REMOTE_OFFER"
  <2>1. /\ n.rem # 0 /\ i \notin p.done /\ i \notin v.done
        /\ n.act = <<0, 0>> /\ Offered(p.neg) = n.rem
    BY <1>2 DEF Waits, Sane
  <2>2. /\ LocalAnswer(n) \in Neg /\ LocalAnswer(n).loc = n.rem /\ LocalAnswer(n).rem = n.rem
    <3>1. LocalAnswer(n) \in Neg
      BY <1>1, NegLemma
    <3>2. LocalAnswer(n).loc = n.rem /\ LocalAnswer(n).rem = n.rem
      BY <1>1, NegExact
    <3> QED BY <3>1, <3>2
  <2>3. PICK k \in Neg : k = Negotiate(LocalAnswer(n)) /\ k.st = "DONE" /\ k.act = <<n.rem, n.rem>>
    <3>1. PICK l \in Neg : l = LocalAnswer(n)
      BY <2>2
    <3>2. Negotiate(l) \in Neg /\ Negotiate(l).st = "DONE"
      BY <1>1, NegLemma
    <3>3. Negotiate(l).act = <<l.loc, l.rem>>
      BY <1>1, NegExact
    <3> QED BY <2>2, <3>1, <3>2, <3>3
  <2>4. d = [v EXCEPT !.neg = k, !.done = v.done \cup {i}]
    BY <1>2, <2>3 DEF Describe, Session
  <2>5. d.neg = k /\ d.done = v.done \cup {i} /\ d.ack = v.ack
    BY <2>4 DEF Session
  <2>6. Sane(k)
    BY <2>3 DEF Sane, Offering
  <2>7. Waits(i, p, d)
    BY <2>1, <2>3, <2>5 DEF Waits
  <2>8. Description(v) = 0
    BY <1>2, <2>1 DEF Description
  <2> QED BY <2>3, <2>5, <2>6, <2>7, <2>8
<1>3. CASE n.st = "NULL"
  <2>1. /\ i \notin p.done /\ i \notin v.done /\ p.neg.act = <<0, 0>>
        /\ n.act = <<0, 0>> /\ Offered(p.neg) = 0
    BY <1>3 DEF Waits
  <2>2. PICK k \in Neg : k = LocalOffer(n, i) /\ k.st = "LOCAL_OFFER" /\ k.loc = i /\ k.act = n.act
    <3>1. LocalOffer(n, i) \in Neg /\ LocalOffer(n, i).act = n.act /\ LocalOffer(n, i).st = "LOCAL_OFFER"
      <4>1. /\ LocalOffer(n, i) \in Neg /\ LocalOffer(n, i).act = n.act
            /\ n.st \in {"NULL", "DONE"} => LocalOffer(n, i).st = "LOCAL_OFFER"
        BY <1>1, NegLemma
      <4> QED BY <1>3, <4>1
    <3>2. n.st \in {"NULL", "DONE"} => LocalOffer(n, i).loc = i
      BY <1>1, NegExact
    <3> QED BY <1>3, <3>1, <3>2
  <2>3. d = [v EXCEPT !.neg = k]
    BY <1>3, <2>2 DEF Describe
  <2>4. d.neg = k /\ d.done = v.done /\ d.ack = v.ack
    BY <2>3 DEF Session
  <2>5. Sane(k)
    BY <1>1, <2>1, <2>2 DEF Sane, Offering
  <2>6. p.neg.st \notin Offering
    BY <2>1 DEF Offered, Sane
  <2>7. Waits(i, p, d)
    BY <2>1, <2>2, <2>4, <2>6 DEF Waits
  <2>8. Description(v) = 0
    BY <1>3, <2>1 DEF Description
  <2>9. First(d, i)
    BY <2>1, <2>2, <2>4 DEF First
  <2> QED BY <2>2, <2>4, <2>5, <2>7, <2>8, <2>9
<1>4. CASE n.st = "LOCAL_OFFER"
  <2>1. LocalOffer(n, i) = n
    BY <1>4 DEF LocalOffer
  <2>2. d = v
    BY <1>4, <2>1 DEF Describe, Session
  <2> QED BY <1>4, <2>2
<1>5. n.st \in {"NULL", "REMOTE_OFFER", "LOCAL_OFFER", "DONE"}
  BY DEF Waits
<1> QED BY <1>2, <1>3, <1>4, <1>5

(* The callee that has not answered yet, and what it describes.            *)
LEMMA CalleeLemma ==
    ASSUME Pending("uas"), inv["uas"].state \in {INCOMING, EARLY}, inv["uas"].itsx # 0,
           NEW d, d = inv["uas"] \/ (inv["uas"].neg.st # "DONE" /\ d = Describe(inv["uas"]))
    PROVE  LET v == inv["uas"]
               p == inv["uac"]
               i == v.itsx
           IN  /\ v \in Session /\ v.role = "uas" /\ v.out = {} /\ i \in Ids /\ i # 0
               /\ i \notin v.mine /\ v.tsx[i] = "proceeding"
               /\ i \in p.mine /\ p.tsx[i] \in Open /\ Waits(i, p, d) /\ Sane(d.neg) /\ d.ack = v.ack
               /\ d.done \in {v.done, v.done \cup {i}} /\ Description(v) \in {0, Description(d)}
               /\ d \in Session /\ Negotiates(v, d) /\ Description(d) \in Nat
               /\ d # v => d.neg.st \in {"LOCAL_OFFER", "DONE"}
               /\ \A w, s : Goes(v, w, i, s, i) /\ w.neg = d.neg => Resolved(w)
<1> DEFINE v == inv["uas"]
           p == inv["uac"]
           i == v.itsx
<1>1. Peer("uas") = "uac"
  BY DEF Peer
<1>2. /\ Linked(v, p) /\ Pact(v, p) /\ v.role = "uas" /\ v.out = {} /\ v \in Session /\ p \in Session
  <2>1. Linked(v, p) /\ Pact(v, p) /\ v.role = "uas" /\ v.out = {}
    BY <1>1, PendingLinked
  <2> QED BY <2>1 DEF Linked
<1>3. /\ i \in Ids /\ v.tsx[i] = "proceeding" /\ v.mine = {} /\ i \in p.mine /\ v.state < CONFIRMED
  BY PendingLemma DEF Pending
<1>4. Closable(v)
  BY DEF Pending, IInv, Offers, Ends
<1>5. i # 0 /\ p.tsx[i] \in Open
  BY <1>2, <1>3 DEF Linked, Served, Ids
<1>6. Waits(i, p, v) /\ Sane(v.neg) /\ Sane(p.neg)
  BY <1>2, <1>3, <1>5 DEF Pact, Answers, Serves, Shape
<1>7. d = v \/ (v.neg.st # "DONE" /\ d = Describe(v))
  OBVIOUS
<1> HIDE DEF v, p
<1>8. /\ Negotiates(v, d) /\ Description(d) \in Nat
  BY <1>2, <1>3, <1>4, <1>7, DescribeLemma
<1>9. d \in Session
  BY <1>8 DEF Negotiates, Core
<1>10. /\ Waits(i, p, d) /\ Sane(d.neg) /\ d.ack = v.ack
       /\ d.done \in {v.done, v.done \cup {i}} /\ Description(v) \in {0, Description(d)}
       /\ d # v => d.neg.st \in {"LOCAL_OFFER", "DONE"}
       /\ d.neg = v.neg \/ d.neg.st = "DONE" \/ First(d, i)
  <2>1. CASE d = v
    BY <1>6, <2>1
  <2>2. CASE v.neg.st # "DONE" /\ d = Describe(v)
    <3> HIDE DEF i
    <3>1. v.itsx = i
      BY DEF i
    <3> QED BY <1>2, <1>3, <1>6, <2>2, <3>1, DescribeWaits
  <2> QED BY <1>7, <2>1, <2>2
<1>11. ASSUME NEW w, NEW s, Goes(v, w, i, s, i), w.neg = d.neg
       PROVE  Resolved(w)
  <2>1. \A j \in Ids : Serves(w, j) => j = i
    <3> HIDE DEF i
    <3>1. v.itsx = i
      BY DEF i
    <3> QED BY <1>2, <1>3, <1>11, <3>1, ServerServes
  <2>2. Serves(v, i)
    BY <1>3 DEF Serves
  <2>3. Resolved(v) /\ w.mine = v.mine
    BY <1>2, <1>11 DEF Pact, Shape, Goes
  <2>4. CASE First(d, i)
    BY <2>1, <2>4, <1>11 DEF First, Resolved
  <2>5. CASE w.neg = v.neg
    BY <2>1, <2>2, <2>3, <2>5, <1>3, SameResolved
  <2> QED BY <2>4, <2>5, <1>10, <1>11, DoneResolved
<1> QED BY <1>2, <1>3, <1>5, <1>8, <1>9, <1>10, <1>11 DEF v, p

(* A provisional answer.                                                   *)
LEMMA RingAgrees ==
    ASSUME Pending("uas"), inv["uas"].state \in {INCOMING, EARLY}, inv["uas"].itsx # 0,
           NEW media \in BOOLEAN, NEW d,
           d = IF media /\ inv["uas"].neg.st # "DONE" THEN Describe(inv["uas"]) ELSE inv["uas"],
           NEW w, w = Send([d EXCEPT !.state = EARLY], "18x", inv["uas"].itsx,
                           IF media THEN Description(d) ELSE 0)
    PROVE  Agreed("uas", w, net)
<1> DEFINE v == inv["uas"]
           p == inv["uac"]
           i == v.itsx
           r == [d EXCEPT !.state = EARLY]
           z == IF media THEN Description(d) ELSE 0
<1>1. /\ v \in Session /\ v.role = "uas" /\ v.out = {} /\ i \in Ids /\ i # 0
      /\ i \notin v.mine /\ v.tsx[i] = "proceeding"
      /\ i \in p.mine /\ p.tsx[i] \in Open /\ Waits(i, p, d) /\ Sane(d.neg) /\ d.ack = v.ack
      /\ d.done \in {v.done, v.done \cup {i}} /\ Description(v) \in {0, Description(d)}
      /\ d \in Session /\ Negotiates(v, d) /\ Description(d) \in Nat
      /\ d # v => d.neg.st \in {"LOCAL_OFFER", "DONE"}
      /\ \A w1, s : Goes(v, w1, i, s, i) /\ w1.neg = d.neg => Resolved(w1)
  <2>1. d = inv["uas"] \/ (inv["uas"].neg.st # "DONE" /\ d = Describe(inv["uas"]))
    OBVIOUS
  <2> QED BY <2>1, CalleeLemma
<1>2. w = Send(r, "18x", i, z) /\ z \in {0, Description(d)} /\ z \in Nat /\ Peer("uas") = "uac"
  BY <1>1 DEF Peer
<1> HIDE DEF v, p, z
<1>3. Core(d, r) /\ r.state = EARLY /\ r.neg = d.neg /\ r.out = d.out /\ r \in Session
  <2>1. EARLY \in 0..6
    BY StateOrder
  <2>2. Core(d, r) /\ r.state = EARLY /\ r.neg = d.neg /\ r.cause = d.cause /\ r.out = d.out
    BY <1>1, <2>1, StateLemma
  <2>3. r \in Session
    BY <2>2 DEF Core
  <2> QED BY <2>2, <2>3
<1>4. r.done = d.done /\ r.ack = d.ack
  BY <1>1 DEF Session
<1> HIDE DEF r
<1>5. /\ "18x" \in MessageTypes /\ "18x" \notin {"BYE", "OK"} /\ i \in 0..MaxInvites
      /\ i \in Ids /\ z \in Nat /\ r \in Session
  BY <1>1, <1>2, <1>3, InviteAssumption DEF MessageTypes, Provisionals, Ids
<1>6. LET x == Send(r, "18x", i, z)
      IN  /\ Core(r, x) /\ x.state = r.state /\ x.neg = r.neg /\ x.cause = r.cause
          /\ x.out = r.out \cup {[to |-> Peer(r.role), t |-> "18x", i |-> i, sdp |-> z]}
          /\ Says(r, x, {"18x"})
  BY <1>5, SendLemma
<1>7. Same(r, w)
  BY <1>2, <1>3, SendSame
<1>8. /\ Goes(v, w, i, "proceeding", i) /\ w.neg = d.neg /\ w.done = d.done /\ w.ack = v.ack
      /\ w.state = EARLY /\ w.role = "uas"
      /\ w.out = {[to |-> "uac", t |-> "18x", i |-> i, sdp |-> z]}
  <2>1. w.tsx = v.tsx /\ w.mine = v.mine /\ w.itsx = v.itsx /\ w.role = v.role /\ w \in Session
    BY <1>1, <1>2, <1>3, <1>6 DEF Core, Negotiates
  <2>2. v.tsx = [v.tsx EXCEPT ![i] = "proceeding"]
    BY <1>1 DEF Session
  <2>3. w.neg = d.neg /\ w.done = d.done /\ w.ack = v.ack /\ w.state = EARLY
    BY <1>1, <1>2, <1>3, <1>4, <1>6, <1>7 DEF Same
  <2>4. w.out = {[to |-> "uac", t |-> "18x", i |-> i, sdp |-> z]}
    BY <1>1, <1>2, <1>3, <1>6 DEF Core, Negotiates
  <2> QED BY <1>1, <2>1, <2>2, <2>3, <2>4 DEF Goes, i
<1>9. Server(v, w, i, "proceeding")
  <2>1. v.itsx = i
    BY DEF i
  <2> HIDE DEF i
  <2>2. w.state # NULL /\ ~(w.role = "uac" /\ w.state = CONNECTING)
    BY <1>8, StateOrder
  <2>3. /\ Goes(v, w, i, "proceeding", i) /\ w.ack = v.ack /\ Sane(w.neg)
        /\ w.done \in {v.done, v.done \cup {i}}
    BY <1>1, <1>8
  <2>4. i \in Ids /\ i \notin v.mine /\ v.tsx[i] = "proceeding"
    BY <1>1
  <2>5. Resolved(w)
    BY <1>1, <1>8
  <2> QED BY <2>1, <2>2, <2>3, <2>4, <2>5 DEF Server
<1>10. Description(w) = Description(d) /\ w.tsx[i] = "proceeding"
  <2>1. w.tsx = [v.tsx EXCEPT ![i] = "proceeding"] /\ v.tsx \in [Ids -> TsxStates]
    BY <1>1, <1>8 DEF Goes, Session
  <2>2. w.tsx[i] = "proceeding"
    BY <1>1, <2>1
  <2>3. Description(w) = Description(d)
    BY <1>8 DEF Description
  <2> QED BY <2>2, <2>3
<1>11. Waits(i, p, w)
  <2>1. w.neg = d.neg /\ w.done = d.done /\ w.tsx[i] = "proceeding" /\ Waits(i, p, d)
    BY <1>1, <1>8, <1>10
  <2> QED BY <2>1 DEF Waits
<1>12. \A n \in w.out : /\ n.to = Peer("uas") /\ n.i = i
                        /\ \/ n.t \in Provisionals /\ n.sdp \in {0, Description(w)}
                           \/ n.t = "200" /\ "proceeding" = "accepted" /\ n.sdp = Description(w)
  BY <1>2, <1>8, <1>10 DEF Provisionals
<1>13. Description(v) \in {0, Description(w)}
  BY <1>1, <1>10
<1> HIDE DEF i
<1>14. /\ Server(inv["uas"], w, i, "proceeding") /\ Waits(i, inv[Peer("uas")], w)
      /\ inv[Peer("uas")].tsx[i] \in Open /\ i \in inv[Peer("uas")].mine
  BY <1>1, <1>2, <1>9, <1>11 DEF v, p
<1>15. Description(inv["uas"]) \in {0, Description(w)}
  BY <1>13 DEF v
<1> QED BY <1>12, <1>14, <1>15, ServerAgreed

(* The callee's 200.                                                       *)
LEMMA AnswerAgrees ==
    ASSUME Pending("uas"), inv["uas"].state \in {INCOMING, EARLY}, inv["uas"].itsx # 0,
           NEW d, d = IF inv["uas"].neg.st # "DONE" THEN Describe(inv["uas"]) ELSE inv["uas"],
           NEW w, w = Accept([d EXCEPT !.state = CONNECTING], inv["uas"].itsx, Description(d))
    PROVE  Agreed("uas", w, net)
<1> DEFINE v == inv["uas"]
           p == inv["uac"]
           i == v.itsx
           r == [d EXCEPT !.state = CONNECTING]
<1>1. /\ v \in Session /\ v.role = "uas" /\ v.out = {} /\ i \in Ids /\ i # 0
      /\ i \notin v.mine /\ v.tsx[i] = "proceeding"
      /\ i \in p.mine /\ p.tsx[i] \in Open /\ Waits(i, p, d) /\ Sane(d.neg) /\ d.ack = v.ack
      /\ d.done \in {v.done, v.done \cup {i}} /\ Description(v) \in {0, Description(d)}
      /\ d \in Session /\ Negotiates(v, d) /\ Description(d) \in Nat
      /\ d # v => d.neg.st \in {"LOCAL_OFFER", "DONE"}
      /\ \A w1, s : Goes(v, w1, i, s, i) /\ w1.neg = d.neg => Resolved(w1)
  <2>1. d = inv["uas"] \/ (inv["uas"].neg.st # "DONE" /\ d = Describe(inv["uas"]))
    OBVIOUS
  <2> QED BY <2>1, CalleeLemma
<1>2. Peer("uas") = "uac" /\ d.neg.st \in {"LOCAL_OFFER", "DONE"}
  <2>1. d = v => d.neg.st \in {"LOCAL_OFFER", "DONE"}
    <3>1. CASE v.neg.st = "DONE"
      BY <3>1
    <3>2. CASE v.neg.st # "DONE"
      <4>1. d = Describe(v) /\ v.itsx = i
        BY <3>2
      <4>2. Linked(v, p) /\ Pact(v, p)
        BY PendingLinked DEF Peer
      <4>3. Waits(i, p, v) /\ Sane(v.neg) /\ Sane(p.neg) /\ p \in Session
        BY <1>1, <4>2 DEF Pact, Answers, Serves, Shape, Linked
      <4>5. v.neg.st # "DONE"
        BY <3>2
      <4> HIDE DEF v, p, i
      <4>4. Describe(v).neg.st \in {"LOCAL_OFFER", "DONE"}
        BY <1>1, <4>1, <4>3, <4>5, DescribeWaits
      <4> QED BY <4>1, <4>4
    <3> QED BY <3>1, <3>2
  <2> QED BY <1>1, <2>1 DEF Peer
<1>3. w = Accept(r, i, Description(d))
  OBVIOUS
<1> HIDE DEF v, p
<1>4. Core(d, r) /\ r.state = CONNECTING /\ r.neg = d.neg /\ r.out = d.out /\ r \in Session
  <2>1. CONNECTING \in 0..6
    BY StateOrder
  <2>2. Core(d, r) /\ r.state = CONNECTING /\ r.neg = d.neg /\ r.cause = d.cause /\ r.out = d.out
    BY <1>1, <2>1, StateLemma
  <2>3. r \in Session
    BY <2>2 DEF Core
  <2> QED BY <2>2, <2>3
<1>5. r.done = d.done /\ r.ack = d.ack
  BY <1>1 DEF Session
<1> HIDE DEF r
<1>6. PICK z \in Nat : z = Description(d)
  BY <1>1
<1>7. LET x == Accept(r, i, z)
      IN  /\ Goes(r, x, i, "accepted", r.itsx)
          /\ x.state = r.state /\ x.neg = r.neg /\ x.cause = r.cause
          /\ x.lapsed = r.lapsed
          /\ x.out = r.out \cup {[to |-> Peer(r.role), t |-> "200", i |-> i, sdp |-> z]}
          /\ Says(r, x, {"200"})
  BY <1>1, <1>4, AcceptLemma
<1>8. Aside(r, w)
  BY <1>1, <1>3, <1>4, MoveAside
<1>9. /\ Goes(v, w, i, "accepted", i) /\ w.neg = d.neg /\ w.done = d.done /\ w.ack = v.ack
      /\ w.state = CONNECTING /\ w.role = "uas"
      /\ w.out = {[to |-> "uac", t |-> "200", i |-> i, sdp |-> z]}
  <2>1. r.tsx = v.tsx /\ r.mine = v.mine /\ r.itsx = i /\ r.role = v.role /\ r.out = {}
    BY <1>1, <1>4 DEF Core, Negotiates, i
  <2>2. Goes(v, w, i, "accepted", i)
    BY <1>3, <1>6, <1>7, <2>1 DEF Goes
  <2>3. w.neg = d.neg /\ w.done = d.done /\ w.ack = v.ack
    BY <1>1, <1>4, <1>5, <1>8 DEF Aside
  <2>4. w.state = CONNECTING /\ w.out = {[to |-> "uac", t |-> "200", i |-> i, sdp |-> z]}
    <3>1. w = Accept(r, i, z)
      BY <1>3, <1>6
    <3>2. Peer(r.role) = "uac"
      BY <1>1, <1>2, <2>1
    <3>3. w.state = r.state /\ w.out = r.out \cup {[to |-> Peer(r.role), t |-> "200", i |-> i, sdp |-> z]}
      BY <1>7, <3>1
    <3> QED BY <1>4, <2>1, <3>2, <3>3
  <2>5. w.role = "uas"
    BY <1>1, <2>2 DEF Goes
  <2> QED BY <2>2, <2>3, <2>4, <2>5
<1>10. Server(v, w, i, "accepted")
  <2>1. v.itsx = i
    BY DEF i
  <2> HIDE DEF i
  <2>2. w.state # NULL /\ ~(w.role = "uac" /\ w.state = CONNECTING)
    BY <1>9, StateOrder
  <2>3. /\ Goes(v, w, i, "accepted", i) /\ w.ack = v.ack /\ Sane(w.neg)
        /\ w.done \in {v.done, v.done \cup {i}}
    BY <1>1, <1>9
  <2>4. i \in Ids /\ i \notin v.mine /\ v.tsx[i] = "proceeding"
    BY <1>1
  <2>5. Resolved(w)
    BY <1>1, <1>9
  <2> QED BY <2>1, <2>2, <2>3, <2>4, <2>5 DEF Server
<1>11. Description(w) = Description(d)
  BY <1>9 DEF Description
<1>12. Waits(i, p, w)
  BY <1>1, <1>2, <1>9 DEF Waits
<1>13. \A n \in w.out : /\ n.to = Peer("uas") /\ n.i = i
                        /\ \/ n.t \in Provisionals /\ n.sdp \in {0, Description(w)}
                           \/ n.t = "200" /\ "accepted" = "accepted" /\ n.sdp = Description(w)
  BY <1>2, <1>6, <1>9, <1>11
<1>14. Description(v) \in {0, Description(w)}
  BY <1>1, <1>11
<1> HIDE DEF i
<1>15. /\ Server(inv["uas"], w, i, "accepted") /\ Waits(i, inv[Peer("uas")], w)
      /\ inv[Peer("uas")].tsx[i] \in Open /\ i \in inv[Peer("uas")].mine
  BY <1>1, <1>2, <1>10, <1>12 DEF v, p
<1>16. Description(inv["uas"]) \in {0, Description(w)}
  BY <1>14 DEF v
<1> QED BY <1>13, <1>15, <1>16, ServerAgreed

-----------------------------------------------------------------------------
(* What is past: a session that has lapsed, or is over, stays so.          *)

Fields == {"lapsed", "state"}

Lasts(v, w) == /\ Fields \subseteq DOMAIN w
               /\ v.lapsed => w.lapsed
               /\ v.state = DISCONNECTED => w.state = DISCONNECTED

(* One step after the other.                                               *)
LEMMA LastsTrans ==
    ASSUME NEW u, NEW v, NEW w, Lasts(u, v), Lasts(v, w)
    PROVE  Lasts(u, w)
BY DEF Lasts

(* No helper forgets it.                                                   *)
LEMMA SendLasts ==
    ASSUME NEW v, Fields \subseteq DOMAIN v
    PROVE  /\ Lasts(v, v) /\ \A t, i, sdp : Lasts(v, Send(v, t, i, sdp))
           /\ \A i, t : Lasts(v, Reject(v, i, t))
           /\ \A i, sdp : Lasts(v, Accept(v, i, sdp))
           /\ Lasts(v, Disconnect(v)) /\ \A i : Lasts(v, Over(v, i))
           /\ Lasts(v, Cancel(v)) /\ \A c : Lasts(v, SetCause(v, c))
           /\ Lasts(v, SendBye(v)) /\ \A n : Lasts(v, [v EXCEPT !.neg = n])
           /\ \A n, d : Lasts(v, [v EXCEPT !.neg = n, !.done = d])
<1>1. Lasts(v, v)
  BY DEF Lasts
<1>2. \A t, i, sdp : Lasts(v, Send(v, t, i, sdp))
  BY DEF Lasts, Send, Fields
<1>3. \A i, t : Lasts(v, Reject(v, i, t))
  BY DEF Lasts, Send, Reject, Fields
<1>4. \A i, sdp : Lasts(v, Accept(v, i, sdp))
  BY DEF Lasts, Send, Accept, Fields
<1>5. \A i : Lasts(v, Over(v, i))
  BY DEF Lasts, Over, Fields
<1>6. Lasts(v, Disconnect(v))
  BY DEF Lasts, Disconnect, Fields
<1>7. Lasts(v, Cancel(v))
  BY DEF Lasts, Cancel, Send, Fields
<1>8. \A c : Lasts(v, SetCause(v, c))
  BY DEF Lasts, SetCause, Fields
<1>9. Lasts(v, SendBye(v))
  BY DEF Lasts, SendBye, Send, Fields
<1>10. \A n : Lasts(v, [v EXCEPT !.neg = n])
  BY DEF Lasts, Fields
<1>11. \A n, d : Lasts(v, [v EXCEPT !.neg = n, !.done = d])
  BY DEF Lasts, Fields
<1> QED BY <1>1, <1>2, <1>3, <1>4, <1>5, <1>6, <1>7, <1>8, <1>9, <1>10, <1>11

(* Nor do the operations that several of them make up.                     *)
LEMMA ConfirmLasts ==
    ASSUME NEW v, Fields \subseteq DOMAIN v
    PROVE  /\ \A c : Lasts(v, EndSession(v, c))
           /\ v.state # DISCONNECTED => Lasts(v, Confirm(v))
           /\ \A m : \A w \in CheckSdp(v, m) : Lasts(v, w)
           /\ \A i : Lasts(v, SendAck(v, i))
<1>1. ASSUME NEW u, Fields \subseteq DOMAIN u, NEW c
      PROVE  Lasts(u, EndSession(u, c))
  <2> DEFINE x == SetCause(u, c)
             y == [x EXCEPT !.cancelling = TRUE]
  <2>1. Lasts(u, x) /\ Fields \subseteq DOMAIN x
    BY <1>1, SendLasts DEF Lasts
  <2> HIDE DEF x
  <2>2. Lasts(x, y) /\ Fields \subseteq DOMAIN y
    BY <2>1 DEF Lasts, Fields
  <2> HIDE DEF y
  <2>3. Lasts(y, SendBye(y))
    BY <2>2, SendLasts
  <2>4. EndSession(u, c) = SendBye(y)
    BY DEF EndSession, x, y
  <2> QED BY <2>1, <2>2, <2>3, <2>4, LastsTrans
<1>2. ASSUME NEW u, Fields \subseteq DOMAIN u, u.state # DISCONNECTED
      PROVE  Lasts(u, Confirm(u))
  <2>1. Lasts(u, EndSession(u, 406))
    BY <1>1, <1>2
  <2>2. Lasts(u, [u EXCEPT !.state = CONFIRMED])
    BY <1>2 DEF Lasts, Fields
  <2> QED BY <2>1, <2>2 DEF Confirm
<1>3. ASSUME NEW m, NEW w \in CheckSdp(v, m)
      PROVE  Lasts(v, w)
  <2>1. \/ w = v
        \/ \E n : w = [v EXCEPT !.neg = n]
        \/ \E n, d : w = [v EXCEPT !.neg = n, !.done = d]
    BY <1>3 DEF CheckSdp
  <2>2. /\ Lasts(v, v) /\ \A n : Lasts(v, [v EXCEPT !.neg = n])
        /\ \A n, d : Lasts(v, [v EXCEPT !.neg = n, !.done = d])
    BY SendLasts
  <2>3. ASSUME NEW n, w = [v EXCEPT !.neg = n]
        PROVE  Lasts(v, w)
    BY <2>2, <2>3
  <2>4. ASSUME NEW n, NEW d, w = [v EXCEPT !.neg = n, !.done = d]
        PROVE  Lasts(v, w)
    BY <2>2, <2>4
  <2> QED BY <2>1, <2>2, <2>3, <2>4
<1>4. ASSUME NEW i
      PROVE  Lasts(v, SendAck(v, i))
  <2> DEFINE a == CreateAck(v, i)
             s == Send(a, "ACK", i, a.ack.sdp)
  <2>1. Lasts(v, a) /\ Fields \subseteq DOMAIN a
    BY DEF Lasts, Fields, CreateAck
  <2> HIDE DEF a
  <2>2. Lasts(a, s) /\ Fields \subseteq DOMAIN s
    BY <2>1, SendLasts DEF Lasts
  <2> HIDE DEF s
  <2>3. SendAck(v, i) = IF s.state < CONFIRMED THEN Confirm(s) ELSE s
    BY DEF SendAck, s, a
  <2>4. s.state < CONFIRMED => s.state # DISCONNECTED
    BY StateOrder
  <2>5. Lasts(s, SendAck(v, i))
    <3>1. Lasts(s, s)
      BY <2>2, SendLasts
    <3>2. CASE s.state < CONFIRMED
      BY <2>2, <2>3, <2>4, <3>2, <1>2
    <3> QED BY <2>3, <3>1, <3>2
  <2> QED BY <2>1, <2>2, <2>5, LastsTrans
<1> QED BY <1>1, <1>2, <1>3, <1>4

(* Nor do the client's handlers.                                           *)
LEMMA ClientLasts ==
    ASSUME NEW v, Fields \subseteq DOMAIN v, NEW m
    PROVE  /\ \A w \in OnProvisional(v, m) : Lasts(v, w)
           /\ \A w \in OnAccepted(v, m) : Lasts(v, w)
           /\ \A w \in OnRejected(v, m) : Lasts(v, w)
<1>a. NULL # DISCONNECTED /\ CALLING # DISCONNECTED /\ EARLY # DISCONNECTED
      /\ CONFIRMED # DISCONNECTED /\ CONNECTING # DISCONNECTED
      /\ ~(DISCONNECTED < CONFIRMED)
  BY StateOrder
<1>1. ASSUME NEW w \in OnProvisional(v, m)
      PROVE  Lasts(v, w)
  <2> DEFINE p == [v EXCEPT !.tsx[m.i] = "proceeding"]
             q == [p EXCEPT !.pending_cancel = FALSE]
             c == IF v.state = CALLING /\ v.pending_cancel THEN Cancel(q) ELSE p
             d == [c EXCEPT !.state = EARLY]
  <2>1. w = c \/ (v.state \in {CALLING, EARLY} /\ w \in CheckSdp(d, m))
    BY <1>1 DEF OnProvisional
  <2>2. Lasts(v, p) /\ Fields \subseteq DOMAIN p
    BY DEF Lasts, Fields
  <2>3. Lasts(v, q) /\ Fields \subseteq DOMAIN q
    BY DEF Lasts, Fields
  <2> HIDE DEF p, q
  <2>4. Lasts(q, Cancel(q))
    BY <2>3, SendLasts
  <2>5. Lasts(v, c) /\ Fields \subseteq DOMAIN c
    <3>1. Lasts(v, Cancel(q))
      BY <2>3, <2>4, LastsTrans
    <3> QED BY <2>2, <3>1 DEF Lasts
  <2> HIDE DEF c
  <2>6. v.state \in {CALLING, EARLY} => Lasts(v, d) /\ Fields \subseteq DOMAIN d
    BY <1>a, <2>5 DEF Lasts, Fields
  <2> HIDE DEF d
  <2>7. CASE v.state \in {CALLING, EARLY} /\ w \in CheckSdp(d, m)
    <3>1. Lasts(d, w)
      BY <2>6, <2>7, ConfirmLasts
    <3> QED BY <2>6, <2>7, <3>1, LastsTrans
  <2> QED BY <2>1, <2>5, <2>7
<1>2. ASSUME NEW w \in OnAccepted(v, m)
      PROVE  Lasts(v, w)
  <2> DEFINE i == m.i
             d == [v EXCEPT !.state = CONNECTING]
             K(u) == IF u.neg.st = "LOCAL_OFFER"
                     THEN [u EXCEPT !.neg = CancelOffer(u.neg)] ELSE u
  <2>1. \/ w = v \/ w = SendAck(v, i) \/ w = Over(v, i)
        \/ v.state \in {CALLING, EARLY} /\ \E u \in CheckSdp(d, m) : w = Over(SendAck(u, i), i)
        \/ v.state = CONFIRMED /\ \E u \in CheckSdp(v, m) : w = Over(SendAck(K(u), i), i)
    BY <1>2 DEF OnAccepted
  <2>2. ASSUME NEW u, Fields \subseteq DOMAIN u
        PROVE  Lasts(u, Over(SendAck(u, i), i))
    <3>1. Lasts(u, SendAck(u, i))
      BY <2>2, ConfirmLasts
    <3>2. Fields \subseteq DOMAIN SendAck(u, i)
      BY <3>1 DEF Lasts
    <3>3. Lasts(SendAck(u, i), Over(SendAck(u, i), i))
      BY <3>2, SendLasts
    <3> QED BY <3>1, <3>3, LastsTrans
  <2>3. Lasts(v, v) /\ Lasts(v, SendAck(v, i)) /\ Lasts(v, Over(v, i))
    BY SendLasts, ConfirmLasts
  <2>4. ASSUME v.state \in {CALLING, EARLY}, NEW u \in CheckSdp(d, m), w = Over(SendAck(u, i), i)
        PROVE  Lasts(v, w)
    <3>1. Lasts(v, d) /\ Fields \subseteq DOMAIN d
      BY <1>a, <2>4 DEF Lasts, Fields
    <3> HIDE DEF d
    <3>2. Lasts(d, u) /\ Fields \subseteq DOMAIN u
      BY <3>1, <2>4, ConfirmLasts DEF Lasts
    <3> HIDE DEF i
    <3>3. Lasts(u, w)
      BY <2>2, <2>4, <3>2
    <3> QED BY <3>1, <3>2, <3>3, LastsTrans
  <2>5. ASSUME NEW u \in CheckSdp(v, m), w = Over(SendAck(K(u), i), i)
        PROVE  Lasts(v, w)
    <3>1. Lasts(v, u) /\ Fields \subseteq DOMAIN u
      BY <2>5, ConfirmLasts DEF Lasts
    <3>2. Lasts(u, K(u)) /\ Fields \subseteq DOMAIN K(u)
      <4>1. Lasts(u, u) /\ Lasts(u, [u EXCEPT !.neg = CancelOffer(u.neg)])
        BY <3>1, SendLasts
      <4> QED BY <4>1 DEF Lasts
    <3> HIDE DEF K, i
    <3>3. Lasts(K(u), w)
      BY <2>2, <2>5, <3>2
    <3> QED BY <3>1, <3>2, <3>3, LastsTrans
  <2> HIDE DEF d, K
  <2> QED BY <2>1, <2>3, <2>4, <2>5
<1>3. ASSUME NEW w \in OnRejected(v, m)
      PROVE  Lasts(v, w)
  <2> DEFINE x == Over(v, m.i)
             o == Send(x, "NACK", m.i, 0)
  <2>1. \/ w = o \/ w = Disconnect(o) \/ w = SendBye(Disconnect(o))
        \/ w = [o EXCEPT !.neg = CancelOffer(o.neg)]
    BY <1>3 DEF OnRejected
  <2>2. Lasts(v, x) /\ Fields \subseteq DOMAIN x
    BY SendLasts DEF Lasts
  <2> HIDE DEF x
  <2>3. Lasts(x, o) /\ Fields \subseteq DOMAIN o
    BY <2>2, SendLasts DEF Lasts
  <2> HIDE DEF o
  <2>4. Lasts(v, o)
    BY <2>2, <2>3, LastsTrans
  <2>5. Lasts(o, Disconnect(o)) /\ Lasts(o, [o EXCEPT !.neg = CancelOffer(o.neg)])
    BY <2>3, SendLasts
  <2>6. Lasts(Disconnect(o), SendBye(Disconnect(o)))
    <3>1. Fields \subseteq DOMAIN Disconnect(o)
      BY <2>5 DEF Lasts
    <3> QED BY <3>1, SendLasts
  <2> QED BY <2>1, <2>4, <2>5, <2>6, LastsTrans
<1> QED BY <1>1, <1>2, <1>3

(* Nor those of the server, and those of either end.                       *)
LEMMA ServerLasts ==
    ASSUME NEW v, Fields \subseteq DOMAIN v, NEW m
    PROVE  /\ v.state = NULL => \A w \in OnInvite(v, m) : Lasts(v, w)
           /\ \A w \in OnReinvite(v, m) : Lasts(v, w)
           /\ \A w \in OnAck(v, m) : Lasts(v, w)
           /\ \A w \in OnNack(v, m) : Lasts(v, w)
           /\ \A w \in OnCancel(v, m) : Lasts(v, w)
           /\ \A w \in OnBye(v, m) : Lasts(v, w)
           /\ \A w \in OnByeResponse(v, m) : Lasts(v, w)
<1>a. NULL # DISCONNECTED /\ CONNECTING # DISCONNECTED
  BY StateOrder
<1>1. ASSUME v.state = NULL, NEW w \in OnInvite(v, m)
      PROVE  Lasts(v, w)
  <2> DEFINE d == [v EXCEPT !.state = INCOMING, !.itsx = m.i, !.tsx[m.i] = "proceeding",
                            !.neg = IF m.sdp = 0 THEN @ ELSE RemoteOffer(@, m.sdp)]
  <2>1. w = Send(d, "100", m.i, 0)
    BY <1>1 DEF OnInvite
  <2>2. Lasts(v, d) /\ Fields \subseteq DOMAIN d
    BY <1>a, <1>1 DEF Lasts, Fields
  <2> HIDE DEF d
  <2>3. Lasts(d, w)
    BY <2>1, <2>2, SendLasts
  <2> QED BY <2>2, <2>3, LastsTrans
<1>2. ASSUME NEW w \in OnReinvite(v, m)
      PROVE  Lasts(v, w)
  <2> DEFINE x == [v EXCEPT !.itsx = m.i]
  <2>1. Lasts(v, x) /\ Fields \subseteq DOMAIN x /\ Lasts(v, v)
    BY SendLasts DEF Lasts, Fields
  <2>2. \/ w = Reject(v, m.i, "491") \/ w = Reject(x, m.i, "491")
        \/ \E n, s : w = Accept([x EXCEPT !.neg = n], m.i, s)
        \/ \E n : w = Reject([x EXCEPT !.neg = n], m.i, "488")
        \/ \E n, d, s : w = Accept([x EXCEPT !.neg = n, !.done = d], m.i, s)
    BY DEF OnReinvite
  <2> HIDE DEF x
  <2>3. /\ \A n : Lasts(x, [x EXCEPT !.neg = n])
        /\ \A n, d : Lasts(x, [x EXCEPT !.neg = n, !.done = d])
    BY <2>1, SendLasts
  <2>4. ASSUME NEW y, Lasts(x, y)
        PROVE  \A i, s : Lasts(v, Accept(y, i, s)) /\ Lasts(v, Reject(y, i, s))
    <3>1. Fields \subseteq DOMAIN y
      BY <2>4 DEF Lasts
    <3>2. \A i, s : Lasts(y, Accept(y, i, s)) /\ Lasts(y, Reject(y, i, s))
      BY <3>1, SendLasts
    <3> QED BY <2>1, <2>4, <3>2, LastsTrans
  <2>5. Lasts(v, Reject(v, m.i, "491")) /\ Lasts(v, Reject(x, m.i, "491"))
    <3>1. Lasts(x, Reject(x, m.i, "491")) /\ Lasts(v, Reject(v, m.i, "491"))
      BY <2>1, SendLasts
    <3> QED BY <2>1, <3>1, LastsTrans
  <2>6. ASSUME NEW n, NEW s, w = Accept([x EXCEPT !.neg = n], m.i, s)
        PROVE  Lasts(v, w)
    BY <2>3, <2>4, <2>6
  <2>7. ASSUME NEW n, w = Reject([x EXCEPT !.neg = n], m.i, "488")
        PROVE  Lasts(v, w)
    BY <2>3, <2>4, <2>7
  <2>8. ASSUME NEW n, NEW d, NEW s, w = Accept([x EXCEPT !.neg = n, !.done = d], m.i, s)
        PROVE  Lasts(v, w)
    BY <2>3, <2>4, <2>8
  <2> QED BY <2>2, <2>5, <2>6, <2>7, <2>8
<1>3. ASSUME NEW w \in OnAck(v, m)
      PROVE  Lasts(v, w)
  <2> DEFINE i == m.i
             K(u) == IF u.neg.st = "LOCAL_OFFER" /\ u.state = CONFIRMED
                     THEN [u EXCEPT !.neg = CancelOffer(u.neg)] ELSE u
             F(x) == IF x.state # CONNECTING THEN x
                     ELSE LET c == Confirm(x)
                          IN  IF c.pending_bye THEN SendBye([c EXCEPT !.pending_bye = FALSE])
                              ELSE c
  <2>1. w = v \/ \E u \in (IF v.state < DISCONNECTED THEN CheckSdp(v, m) ELSE {v}) :
                    w = F(Over(K(u), i))
    BY <1>3 DEF OnAck
  <2>2. Lasts(v, v) /\ \A u \in CheckSdp(v, m) : Lasts(v, u)
    BY SendLasts, ConfirmLasts
  <2>3. ASSUME NEW u, Lasts(v, u), w = F(Over(K(u), i))
        PROVE  Lasts(v, w)
    <3>1. Fields \subseteq DOMAIN u
      BY <2>3 DEF Lasts
    <3>2. Lasts(u, K(u)) /\ Fields \subseteq DOMAIN K(u)
      <4>1. Lasts(u, u) /\ Lasts(u, [u EXCEPT !.neg = CancelOffer(u.neg)])
        BY <3>1, SendLasts
      <4> QED BY <4>1 DEF Lasts
    <3> HIDE DEF K
    <3> DEFINE k == K(u)
               x == Over(k, i)
    <3>3. Lasts(k, x) /\ Fields \subseteq DOMAIN x
      BY <3>2, SendLasts DEF Lasts
    <3>4. w = F(x)
      BY <2>3
    <3> HIDE DEF x
    <3>5. Lasts(x, w)
      <4>1. CASE x.state # CONNECTING
        <5>1. w = x
          BY <3>4, <4>1
        <5> QED BY <3>3, <5>1, SendLasts
      <4>2. CASE x.state = CONNECTING
        <5> DEFINE c == Confirm(x)
                   d == [c EXCEPT !.pending_bye = FALSE]
        <5>1. Lasts(x, c) /\ Fields \subseteq DOMAIN c
          BY <1>a, <3>3, <4>2, ConfirmLasts DEF Lasts
        <5>2. w = c \/ w = SendBye(d)
          BY <3>4, <4>2
        <5> HIDE DEF c
        <5>3. Lasts(c, d) /\ Fields \subseteq DOMAIN d
          BY <5>1 DEF Lasts, Fields
        <5> HIDE DEF d
        <5>4. Lasts(d, SendBye(d))
          BY <5>3, SendLasts
        <5> QED BY <5>1, <5>2, <5>3, <5>4, LastsTrans
      <4> QED BY <4>1, <4>2
    <3> HIDE DEF k
    <3>6. Lasts(u, k)
      BY <3>2 DEF k
    <3> QED BY <2>3, <3>3, <3>5, <3>6, LastsTrans
  <2> HIDE DEF F, K
  <2> QED BY <2>1, <2>2, <2>3
<1>4. \A w \in OnNack(v, m) : Lasts(v, w)
  BY SendLasts DEF OnNack
<1>5. \A w \in OnCancel(v, m) : Lasts(v, w)
  <2>1. Lasts(v, v) /\ Lasts(v, Reject(v, m.i, "487"))
    BY SendLasts
  <2>2. Fields \subseteq DOMAIN Reject(v, m.i, "487")
    BY <2>1 DEF Lasts
  <2>3. Lasts(Reject(v, m.i, "487"), Disconnect(Reject(v, m.i, "487")))
    BY <2>2, SendLasts
  <2> QED BY <2>1, <2>3, LastsTrans DEF OnCancel
<1>6. \A w \in OnBye(v, m) : Lasts(v, w)
  <2>1. Lasts(v, v) /\ Lasts(v, Send(v, "OK", 0, 0))
    BY SendLasts
  <2>2. Fields \subseteq DOMAIN Send(v, "OK", 0, 0)
    BY <2>1 DEF Lasts
  <2>3. Lasts(Send(v, "OK", 0, 0), Disconnect(Send(v, "OK", 0, 0)))
    BY <2>2, SendLasts
  <2> QED BY <2>1, <2>3, LastsTrans DEF OnBye
<1>7. \A w \in OnByeResponse(v, m) : Lasts(v, w)
  <2> DEFINE x == [v EXCEPT !.bye = FALSE]
  <2>1. Lasts(v, x) /\ Fields \subseteq DOMAIN x
    BY DEF Lasts, Fields
  <2>2. \A w \in OnByeResponse(v, m) : w = x \/ w = Disconnect(x)
    BY DEF OnByeResponse
  <2> HIDE DEF x
  <2>3. Lasts(x, Disconnect(x))
    BY <2>1, SendLasts
  <2> QED BY <2>1, <2>2, <2>3, LastsTrans
<1> QED BY <1>1, <1>2, <1>3, <1>4, <1>5, <1>6, <1>7

-----------------------------------------------------------------------------
(* Every action keeps the accord.                                          *)

(* A session takes a step: if the two do not agree already, they need not. *)
LEMMA StepAccord ==
    ASSUME IInv, Accord, NEW e \in Ends, NEW w \in Session, w.role = e, NEW rest \in SUBSET net,
           Becomes(e, w, rest), Lasts(inv[e], w),
           Pending(e) /\ w.state # DISCONNECTED => Agreed(e, w, rest)
    PROVE  Accord'
<1>1. TypeOK /\ Ends = {e, Peer(e)}
  BY Peers DEF IInv, Ends, Peer
<1>2. ASSUME ~w.lapsed, w.state # DISCONNECTED,
             ~inv[Peer(e)].lapsed, inv[Peer(e)].state # DISCONNECTED
      PROVE  Agreed(e, w, rest)
  <2>1. ~inv[e].lapsed /\ inv[e].state # DISCONNECTED
    BY <1>2 DEF Lasts
  <2>2. Pending(e)
    BY <1>1, <1>2, <2>1 DEF Pending, Alive
  <2> QED BY <1>2, <2>2
<1> QED BY <1>1, <1>2, AccordKept

(* A session as a record.                                                  *)
LEMMA SessionFields ==
    ASSUME NEW v \in Session
    PROVE  Fields \subseteq DOMAIN v
BY DEF Session, Fields

(* A message.                                                              *)
LEMMA ReceiveAccord ==
    ASSUME IInv, Accord, NEW e \in Ends, NEW m \in net, Receive(e, m)
    PROVE  Accord'
<1>1. Got(e, m)
  BY DEF Receive, Got
<1>2. PICK w \in Handle(inv[e], m) : Becomes(e, w, Rest(e, m))
  BY DEF Receive
<1> DEFINE v == inv[e]
           R == Rest(e, m)
           G == Pending(e) /\ w.state # DISCONNECTED => Agreed(e, w, R)
<1>3. /\ v \in Session /\ R \in SUBSET net /\ m \in Message
      /\ "491" \in Rejections /\ "481" \in Rejections
  BY <1>1, GotLemma DEF Rejections
<1>4. Fields \subseteq DOMAIN v
  BY <1>3, SessionFields
<1>5. Keeps(e, w, R) /\ Lasts(v, w) /\ G
  <2>2. CASE m.t = "INVITE"
    <3>1. CONFIRMED # CONNECTING /\ NULL # CONNECTING /\ NULL # CONFIRMED
      BY StateOrder
    <3>2. w \in CASE v.state = NULL -> OnInvite(v, m)
                  [] v.state = CONFIRMED -> OnReinvite(v, m)
                  [] v.state = CONNECTING -> {Reject(v, m.i, "491")}
                  [] OTHER -> {Reject(v, m.i, "481")}
      BY <1>2, <2>2 DEF Handle, Rejections
    <3> HIDE DEF v, R, G
    <3>3. CASE v.state = NULL
      <4>1. w \in OnInvite(v, m)
        BY <3>1, <3>2, <3>3
      <4>2. Keeps(e, w, R)
        BY <1>1, <2>2, <3>3, <4>1, OnInviteKeeps DEF v, R
      <4>3. Lasts(v, w)
        BY <1>4, <3>3, <4>1, ServerLasts
      <4>4. G
        BY <1>1, <2>2, <3>3, <4>1, OnInviteAgrees DEF v, R, G
      <4> QED BY <4>2, <4>3, <4>4
    <3>4. CASE v.state = CONFIRMED
      <4>1. w \in OnReinvite(v, m)
        BY <3>1, <3>2, <3>4
      <4>2. Keeps(e, w, R)
        BY <1>1, <2>2, <3>4, <4>1, OnReinviteKeeps DEF v, R
      <4>3. Lasts(v, w)
        BY <1>4, <4>1, ServerLasts
      <4>4. G
        BY <1>1, <2>2, <3>4, <4>1, OnReinviteAgrees DEF v, R, G
      <4> QED BY <4>2, <4>3, <4>4
    <3>5. CASE v.state \notin {NULL, CONFIRMED}
      <4>1. PICK t \in Rejections : w = Reject(v, m.i, t) /\ t \in {"491", "481"}
        BY <1>3, <3>1, <3>2, <3>5
      <4>2. Keeps(e, w, R)
        BY <1>1, <1>3, <2>2, <3>5, <4>1, RejectKeeps DEF v, R
      <4>3. Lasts(v, w)
        BY <1>4, <4>1, SendLasts
      <4>4. G
        BY <1>1, <2>2, <3>5, <4>1, RejectAgrees DEF v, R, G
      <4> QED BY <4>2, <4>3, <4>4
    <3> QED BY <3>3, <3>4, <3>5
  <2>3. CASE m.t \in Provisionals
    <3>1. w \in OnProvisional(v, m)
      BY <1>2, <2>3 DEF Handle, Provisionals, Rejections
    <3>2. Keeps(e, w, R)
      BY <1>1, <2>3, <3>1, OnProvisionalKeeps
    <3>3. Lasts(v, w)
      BY <1>4, <3>1, ClientLasts
    <3>4. G
      BY <1>1, <2>3, <3>1, OnProvisionalAgrees
    <3> QED BY <3>2, <3>3, <3>4
  <2>4. CASE m.t = "200"
    <3>1. w \in OnAccepted(v, m)
      BY <1>2, <2>4 DEF Handle, Rejections
    <3>2. Keeps(e, w, R)
      BY <1>1, <2>4, <3>1, OnAcceptedKeeps
    <3>3. Lasts(v, w)
      BY <1>4, <3>1, ClientLasts
    <3>4. G
      BY <1>1, <2>4, <3>1, OnAcceptedAgrees
    <3> QED BY <3>2, <3>3, <3>4
  <2>5. CASE m.t \in Rejections
    <3>1. w \in OnRejected(v, m)
      BY <1>2, <2>5 DEF Handle, Rejections
    <3>2. Keeps(e, w, R)
      BY <1>1, <2>5, <3>1, OnRejectedKeeps
    <3>3. Lasts(v, w)
      BY <1>4, <3>1, ClientLasts
    <3>4. G
      BY <1>1, <2>5, <3>1, OnRejectedAgrees
    <3> QED BY <3>2, <3>3, <3>4
  <2>6. CASE m.t = "ACK"
    <3>1. w \in OnAck(v, m)
      BY <1>2, <2>6 DEF Handle, Rejections
    <3>2. Keeps(e, w, R)
      BY <1>1, <2>6, <3>1, OnAckKeeps
    <3>3. Lasts(v, w)
      BY <1>4, <3>1, ServerLasts
    <3>4. G
      BY <1>1, <2>6, <3>1, OnAckAgrees
    <3> QED BY <3>2, <3>3, <3>4
  <2>7. CASE m.t = "NACK"
    <3>1. w \in OnNack(v, m)
      BY <1>2, <2>7 DEF Handle, Rejections
    <3>2. Keeps(e, w, R)
      BY <1>1, <2>7, <3>1, OnNackKeeps
    <3>3. Lasts(v, w)
      BY <1>4, <3>1, ServerLasts
    <3>4. G
      BY <1>1, <2>7, <3>1, OnNackAgrees
    <3> QED BY <3>2, <3>3, <3>4
  <2>8. CASE m.t = "CANCEL"
    <3>1. w \in OnCancel(v, m)
      BY <1>2, <2>8 DEF Handle, Rejections
    <3>2. Keeps(e, w, R)
      BY <1>1, <2>8, <3>1, OnCancelKeeps
    <3>3. Lasts(v, w)
      BY <1>4, <3>1, ServerLasts
    <3>4. G
      BY <1>1, <2>8, <3>1, OnCancelAgrees
    <3> QED BY <3>2, <3>3, <3>4
  <2>9. CASE m.t = "BYE"
    <3>1. w \in OnBye(v, m)
      BY <1>2, <2>9 DEF Handle, Rejections
    <3>2. Keeps(e, w, R)
      BY <1>1, <3>1, OnByeKeeps
    <3>3. Lasts(v, w)
      BY <1>4, <3>1, ServerLasts
    <3>4. G
      BY <1>1, <3>1, OnByeAgrees
    <3> QED BY <3>2, <3>3, <3>4
  <2>10. CASE m.t = "OK"
    <3>1. w \in OnByeResponse(v, m)
      BY <1>2, <2>10 DEF Handle, Rejections
    <3>2. Keeps(e, w, R)
      BY <1>3, <3>1, ByeResponseKeeps
    <3>3. Lasts(v, w)
      BY <1>4, <3>1, ServerLasts
    <3>4. G
      BY <1>3, <3>1, ByeResponseAgrees
    <3> QED BY <3>2, <3>3, <3>4
  <2>11. m.t \in Requests \cup Provisionals \cup Finals \cup {"OK"}
    BY <1>3 DEF Message
  <2> QED BY <2>2, <2>3, <2>4, <2>5, <2>6, <2>7, <2>8, <2>9, <2>10, <2>11
          DEF Requests, Finals
<1>6. w \in Session /\ w.role = e
  BY <1>5 DEF Keeps, Moves
<1> QED BY <1>2, <1>3, <1>5, <1>6, StepAccord

(* A BYE without a response.                                               *)
LEMMA ByeTimeoutAccord ==
    ASSUME IInv, Accord, NEW e \in Ends, ByeTimeout(e)
    PROVE  Accord'
<1> DEFINE m == [t |-> "OK"]
<1>1. PICK w \in OnByeResponse(inv[e], m) : Becomes(e, w, net)
  BY DEF ByeTimeout
<1>2. net \in SUBSET net /\ Fields \subseteq DOMAIN inv[e]
  BY SessionFields DEF IInv, TypeOK
<1>3. Keeps(e, w, net)
  BY <1>1, <1>2, ByeResponseKeeps
<1> HIDE DEF m
<1>4. Lasts(inv[e], w)
  BY <1>1, <1>2, ServerLasts
<1>5. Pending(e) /\ w.state # DISCONNECTED => Agreed(e, w, net)
  BY <1>1, <1>2, ByeResponseAgrees
<1>6. w \in Session /\ w.role = e
  BY <1>3 DEF Keeps, Moves
<1> QED BY <1>1, <1>2, <1>4, <1>5, <1>6, StepAccord

(* A 200 without an ACK: the session lapses, and the accord with it.       *)
LEMMA AckTimeoutAccord ==
    ASSUME IInv, Accord, NEW e \in Ends, AckTimeout(e)
    PROVE  Accord'
<1> DEFINE v == inv[e]
           l == [v EXCEPT !.lapsed = TRUE]
<1>0. PICK s \in Passing : \E i \in Ids :
         Becomes(e, Over(IF l.state = CONNECTING /\ l.itsx = i
                         THEN SendBye(SetCause(l, s)) ELSE l, i), net)
  BY DEF AckTimeout
<1> DEFINE c == SetCause(l, s)
<1>1. PICK i \in Ids :
         Becomes(e, Over(IF l.state = CONNECTING /\ l.itsx = i THEN SendBye(c) ELSE l, i), net)
  BY <1>0
<1>2. v \in Session /\ v.role = e /\ TypeOK /\ net \in SUBSET net
  BY DEF IInv, TypeOK
<1>3. PICK b \in BOOLEAN : b = TRUE
  OBVIOUS
<1>4. l = [v EXCEPT !.lapsed = b]
  BY <1>3
<1> HIDE DEF l, v
<1>5. l \in Session /\ l.role = e /\ l.lapsed = TRUE
  BY <1>2, <1>3, <1>4 DEF Session
<1>6. /\ Core(l, c) /\ c.state = l.state /\ c.neg = l.neg /\ c.out = l.out
      /\ c.cause \in {l.cause, s}
  <2>1. s \in Nat
    BY DEF Passing
  <2> QED BY <2>1, <1>5, SetCauseLemma
<1> HIDE DEF c
<1>7. c \in Session
  BY <1>6 DEF Core
<1>8. /\ Core(c, SendBye(c)) /\ SendBye(c).state = c.state /\ SendBye(c).neg = c.neg
      /\ SendBye(c).cause = c.cause /\ Says(c, SendBye(c), {"BYE"})
      /\ c.role = "uas" /\ c.state = CONNECTING /\ c.cause \notin Passing => SendBye(c).out = c.out
  BY <1>7, SendByeLemma
<1>9. PICK t \in Session : /\ t = IF l.state = CONNECTING /\ l.itsx = i THEN SendBye(c) ELSE l
                           /\ t.role = e /\ t.lapsed = TRUE
  BY <1>5, <1>6, <1>8 DEF Core
<1> DEFINE w == Over(t, i)
<1>10. /\ Goes(t, w, i, "over", IF t.itsx = i THEN 0 ELSE t.itsx)
       /\ w.state = t.state /\ w.neg = t.neg /\ w.cause = t.cause /\ w.lapsed = t.lapsed
       /\ w.out = t.out
  BY OverLemma
<1>11. Becomes(e, w, net)
  BY <1>1, <1>9
<1> HIDE DEF w
<1>12. w \in Session /\ w.role = e /\ w.lapsed = TRUE
  BY <1>9, <1>10 DEF Goes
<1> QED BY <1>2, <1>11, <1>12, AccordKept

(* A provisional answer.                                                   *)
LEMMA RingAccord ==
    ASSUME IInv, Accord, NEW media \in BOOLEAN, Ring(media)
    PROVE  Accord'
<1> DEFINE v == inv["uas"]
           i == v.itsx
<1>1. PICK d, w : /\ v.state \in {INCOMING, EARLY} /\ i # 0
                  /\ d = IF media /\ v.neg.st # "DONE" THEN Describe(v) ELSE v
                  /\ w = Send([d EXCEPT !.state = EARLY], "18x", i,
                              IF media THEN Description(d) ELSE 0)
                  /\ Becomes("uas", w, net)
  BY DEF Ring, Incoming
<1>2. /\ v \in Session /\ v.role = "uas" /\ Closable(v) /\ "uas" \in Ends
  BY DEF IInv, TypeOK, Offers, Ends
<1>3. i \in Ids /\ v.state < CONFIRMED /\ v.state # DISCONNECTED
  BY <1>1, PendingLemma, StateOrder
<1>4. Pending("uas") => Agreed("uas", w, net)
  BY <1>1, RingAgrees
<1> HIDE DEF v, i
<1>5. Negotiates(v, d) /\ Description(d) \in Nat
  <2>1. d = v \/ (v.neg.st # "DONE" /\ d = Describe(v))
    BY <1>1
  <2> QED BY <1>2, <1>3, <2>1, DescribeLemma
<1> DEFINE r == [d EXCEPT !.state = EARLY]
           z == IF media THEN Description(d) ELSE 0
<1>6. d \in Session /\ d.role = "uas" /\ d.lapsed = v.lapsed /\ EARLY \in 0..6 /\ z \in Nat
  BY <1>2, <1>5, StateOrder DEF Negotiates, Core
<1> HIDE DEF z
<1>7. Core(d, r) /\ r.state = EARLY /\ r.neg = d.neg /\ r.cause = d.cause /\ r.out = d.out
  BY <1>6, StateLemma
<1>8. w = Send(r, "18x", i, z)
  BY <1>1 DEF z
<1> HIDE DEF r
<1>9. /\ "18x" \in MessageTypes /\ "18x" \notin {"BYE", "OK"} /\ i \in 0..MaxInvites
      /\ i \in Ids /\ z \in Nat /\ r \in Session
  BY <1>3, <1>6, <1>7, InviteAssumption DEF MessageTypes, Provisionals, Ids, Core
<1>10. LET x == Send(r, "18x", i, z)
       IN  /\ Core(r, x) /\ x.state = r.state /\ x.neg = r.neg /\ x.cause = r.cause
           /\ x.out = r.out \cup {[to |-> Peer(r.role), t |-> "18x", i |-> i, sdp |-> z]}
           /\ Says(r, x, {"18x"})
  BY <1>9, SendLemma
<1>11. w \in Session /\ w.role = "uas" /\ w.lapsed = v.lapsed
  BY <1>6, <1>7, <1>8, <1>10 DEF Core
<1>12. Lasts(v, w)
  BY <1>3, <1>11, SessionFields DEF Lasts
<1> QED BY <1>1, <1>2, <1>4, <1>11, <1>12, StepAccord DEF v

(* The callee's 200.                                                       *)
LEMMA AnswerAccord ==
    ASSUME IInv, Accord, Answer
    PROVE  Accord'
<1> DEFINE v == inv["uas"]
           i == v.itsx
<1>1. PICK d, w : /\ v.state \in {INCOMING, EARLY} /\ i # 0
                  /\ d = IF v.neg.st # "DONE" THEN Describe(v) ELSE v
                  /\ w = Accept([d EXCEPT !.state = CONNECTING], i, Description(d))
                  /\ Becomes("uas", w, net)
  BY DEF Answer, Incoming
<1>2. /\ v \in Session /\ v.role = "uas" /\ Closable(v) /\ "uas" \in Ends
  BY DEF IInv, TypeOK, Offers, Ends
<1>3. i \in Ids /\ v.state < CONFIRMED /\ v.state # DISCONNECTED
  BY <1>1, PendingLemma, StateOrder
<1>4. Pending("uas") => Agreed("uas", w, net)
  BY <1>1, AnswerAgrees
<1> HIDE DEF v, i
<1>5. Negotiates(v, d) /\ Description(d) \in Nat
  <2>1. d = v \/ (v.neg.st # "DONE" /\ d = Describe(v))
    BY <1>1
  <2> QED BY <1>2, <1>3, <2>1, DescribeLemma
<1> DEFINE r == [d EXCEPT !.state = CONNECTING]
<1>6. d \in Session /\ d.role = "uas" /\ d.lapsed = v.lapsed /\ CONNECTING \in 0..6
  BY <1>2, <1>5, StateOrder DEF Negotiates, Core
<1>7. Core(d, r) /\ r.state = CONNECTING /\ r.neg = d.neg /\ r.cause = d.cause /\ r.out = d.out
  BY <1>6, StateLemma
<1>8. PICK z \in Nat : z = Description(d)
  BY <1>5
<1>9. w = Accept(r, i, z)
  BY <1>1, <1>8
<1> HIDE DEF r
<1>10. r \in Session
  BY <1>7 DEF Core
<1>11. LET x == Accept(r, i, z)
       IN  /\ Goes(r, x, i, "accepted", r.itsx)
           /\ x.state = r.state /\ x.neg = r.neg /\ x.cause = r.cause
           /\ x.lapsed = r.lapsed
           /\ x.out = r.out \cup {[to |-> Peer(r.role), t |-> "200", i |-> i, sdp |-> z]}
           /\ Says(r, x, {"200"})
  BY <1>3, <1>10, AcceptLemma
<1>12. w \in Session /\ w.role = "uas" /\ w.lapsed = v.lapsed
  BY <1>6, <1>7, <1>9, <1>11 DEF Core, Goes
<1>13. Lasts(v, w)
  BY <1>3, <1>12, SessionFields DEF Lasts
<1> QED BY <1>1, <1>2, <1>4, <1>12, <1>13, StepAccord DEF v

(* Either user ends the call.                                              *)
LEMMA EndAccord ==
    ASSUME IInv, Accord, NEW e \in Ends, NEW c \in Codes, End(e, c)
    PROVE  Accord'
<1> DEFINE v == inv[e]
           u == SetCause(v, c)
           s == [u EXCEPT !.cancelling = TRUE]
<1>1. /\ v \in Session /\ v.role = e /\ c \in Nat /\ v.state \in 0..6
      /\ Callee(inv["uas"]) /\ net \in SUBSET net
  BY InviteAssumption, StateOrder DEF IInv, TypeOK, Session, Calls
<1>2. v.state \notin {NULL, DISCONNECTED} /\ (v.itsx = 0 => v.state \in {CONNECTING, CONFIRMED})
  BY DEF End
<1>3. Fields \subseteq DOMAIN v
  BY <1>1, SessionFields
<1>4. CASE v.state \in {CONNECTING, CONFIRMED}
  <2> DEFINE w == EndSession(v, c)
  <2>1. Becomes(e, w, net)
    BY <1>4, StateOrder DEF End
  <2>2. Pending(e) => Agreed(e, w, net)
    BY EndAnsweredAgrees
  <2>3. Lasts(v, w)
    BY <1>3, ConfirmLasts
  <2> HIDE DEF v
  <2>4. /\ Core(v, w) /\ w.state = v.state /\ w.neg = v.neg
        /\ w.cause \in {v.cause, c} /\ Says(v, w, {"BYE"})
        /\ v.role = "uas" /\ v.state = CONNECTING /\ {v.cause, c} \cap Passing = {} => w.out = v.out
    BY <1>1, EndSessionLemma
  <2>5. w \in Session /\ w.role = e
    BY <1>1, <2>4 DEF Core
  <2> HIDE DEF w
  <2> QED BY <1>1, <2>1, <2>2, <2>3, <2>5, StepAccord DEF v
<1>5. CASE v.state \notin {CONNECTING, CONFIRMED}
  <2>1. v.state < CONNECTING /\ v.itsx # 0
    BY <1>1, <1>2, <1>5, StateOrder
  <2>2. /\ e = "uas" => Becomes(e, Disconnect(Reject(s, v.itsx, "487")), net)
        /\ e # "uas" => \E w : /\ w = [s EXCEPT !.pending_cancel = TRUE] \/ w = Cancel(s)
                               /\ Becomes(e, w, net)
    <3>1. CASE e = "uas"
      BY <3>1, <2>1, <1>5 DEF End
    <3>2. CASE e # "uas"
      <4>1. Becomes(e, IF v.tsx[v.itsx] = "calling"
                       THEN [s EXCEPT !.pending_cancel = TRUE] ELSE Cancel(s), net)
        BY <3>2, <1>5 DEF End
      <4> HIDE DEF s
      <4> QED BY <3>2, <4>1
    <3> QED BY <3>1, <3>2
  <2>3. /\ Core(v, u) /\ u.state = v.state /\ u.neg = v.neg /\ u.out = v.out
        /\ u.cause \in {v.cause, c}
    BY <1>1, SetCauseLemma
  <2>4. s = [SetCause(inv[e], c) EXCEPT !.cancelling = TRUE]
    OBVIOUS
  <2> HIDE DEF u
  <2>5. Core(u, s) /\ s.state = u.state
    <3>1. PICK b \in BOOLEAN : b = TRUE
      OBVIOUS
    <3>2. s = [u EXCEPT !.cancelling = b] /\ u \in Session
      BY <3>1, <2>3 DEF Core
    <3> HIDE DEF s
    <3> QED BY <3>2 DEF Core, Session
  <2> HIDE DEF s
  <2>6. /\ s \in Session /\ s.role = e /\ s.lapsed = v.lapsed /\ s.itsx = v.itsx
        /\ s.state = v.state
    BY <1>1, <2>3, <2>5 DEF Core
  <2>7. CASE e = "uas"
    <3> DEFINE i == v.itsx
               r == Reject(s, i, "487")
               w == Disconnect(r)
    <3>1. i \in Ids /\ "487" \in Rejections
      <4>1. v.state # CALLING
        BY <1>1, <2>7 DEF Callee
      <4>2. v.state \in {INCOMING, EARLY}
        BY <1>1, <1>2, <2>1, <4>1, StateOrder
      <4> QED BY <2>1, <2>7, <4>2, PendingLemma DEF Rejections
    <3>2. Becomes(e, w, net)
      BY <2>2, <2>7
    <3> HIDE DEF i
    <3>3. /\ Goes(s, r, i, "rejected", s.itsx)
          /\ r.state = s.state /\ r.neg = s.neg /\ r.cause = s.cause /\ r.lapsed = s.lapsed
          /\ r.out = s.out \cup {[to |-> Peer(s.role), t |-> "487", i |-> i, sdp |-> 0]}
          /\ Says(s, r, {"487"})
      BY <2>6, <3>1, RejectLemma
    <3>4. r \in Session /\ r.role = e
      BY <2>6, <3>3 DEF Goes
    <3> HIDE DEF r
    <3>5. /\ Core(r, w) /\ w.state = DISCONNECTED /\ w.neg = r.neg /\ w.cause = 0
          /\ w.out = r.out
      BY <3>4, DisconnectLemma
    <3> HIDE DEF w
    <3>6. w \in Session /\ w.role = e /\ w.lapsed = v.lapsed
      BY <2>6, <3>3, <3>4, <3>5 DEF Core
    <3>7. Lasts(v, w)
      BY <3>5, <3>6, SessionFields DEF Lasts
    <3> QED BY <1>1, <3>2, <3>5, <3>6, <3>7, StepAccord DEF v
  <2>8. CASE e # "uas"
    <3>1. PICK w : /\ w = [s EXCEPT !.pending_cancel = TRUE] \/ w = Cancel(s)
                   /\ Becomes(e, w, net)
      BY <2>2, <2>8
    <3>2. Pending(e) => Agreed(e, w, net)
      BY <1>1, <2>1, <2>4, <3>1, EndCallingAgrees DEF v
    <3>3. w \in Session /\ w.role = e /\ w.lapsed = v.lapsed
      <4>1. CASE w = [s EXCEPT !.pending_cancel = TRUE]
        <5>1. PICK b \in BOOLEAN : b = TRUE
          OBVIOUS
        <5>2. w = [s EXCEPT !.pending_cancel = b]
          BY <4>1, <5>1
        <5> QED BY <2>6, <5>2 DEF Session
      <4>2. CASE w = Cancel(s)
        <5>1. s.itsx # 0
          BY <2>1, <2>6
        <5>2. /\ Core(s, w) /\ w.state = s.state /\ w.neg = s.neg /\ w.cause = s.cause
              /\ Says(s, w, {"CANCEL"})
          BY <2>6, <4>2, <5>1, CancelLemma
        <5> QED BY <2>6, <5>2 DEF Core
      <4> QED BY <3>1, <4>1, <4>2
    <3>4. Lasts(v, w)
      BY <1>2, <3>3, SessionFields DEF Lasts
    <3> QED BY <1>1, <3>1, <3>2, <3>3, <3>4, StepAccord DEF v
  <2> QED BY <2>7, <2>8
<1> QED BY <1>4, <1>5

(* A session with a new INVITE: i is new, and n is the negotiator with an  *)
(* offer of its own, or as it was.                                         *)
Begins(v, w, i) ==
    /\ w \in Session /\ w.role = v.role /\ w.itsx = i /\ w.mine = v.mine \cup {i}
    /\ w.tsx = [v.tsx EXCEPT ![i] = "calling"] /\ w.done = v.done /\ w.ack = v.ack
    /\ w.lapsed = v.lapsed /\ w.state \in {CALLING, CONFIRMED}
    /\ w.neg.act = v.neg.act /\ (Sane(v.neg) => Sane(w.neg)) /\ (Resolved(v) => Resolved(w))
    /\ w.out = {[to |-> Peer(w.role), t |-> "INVITE", i |-> i, sdp |-> Offered(w.neg)]}

(* That is what a user who calls does.                                     *)
LEMMA InviteBegins ==
    ASSUME IInv, NEW e \in Ends, NEW offer \in BOOLEAN, Invite(e, offer)
    PROVE  LET v == inv[e]
               i == Cardinality(Used) + 1
           IN  /\ i \in Ids /\ v.itsx = 0 /\ v.state \in {NULL, CONFIRMED} /\ i \notin Used
               /\ \E w : Begins(v, w, i) /\ w.role = e /\ Becomes(e, w, net)
<1> DEFINE v == inv[e]
           i == Cardinality(Used) + 1
           n == IF ~offer THEN v.neg
                ELSE IF v.neg.st = "REMOTE_OFFER" THEN LocalAnswer(v.neg)
                ELSE LocalOffer(v.neg, i)
           z == IF v.state = NULL THEN CALLING ELSE v.state
           d == IF n.st \in {"LOCAL_OFFER", "WAIT_NEGO"} THEN n.loc ELSE 0
           x == Call(v, i, n, z)
           w == Send(x, "INVITE", i, d)
<1>1. /\ i \in Ids
      /\ (v.state = NULL /\ e = "uac") \/ (v.state = CONFIRMED /\ v.itsx = 0)
      /\ Becomes(e, w, net)
  BY DEF Invite, Call
<1>2. v \in Session /\ v.role = e /\ v.out = {} /\ Fresh(v)
  BY DEF IInv, TypeOK, Calls
<1>3. i \notin Used
  BY NumberLemma DEF IInv, Calls
<1>4. v.itsx = 0 /\ v.state \in {NULL, CONFIRMED}
  BY <1>1, <1>2 DEF Fresh
<1>5. z \in NULL..DISCONNECTED /\ z \in {CALLING, CONFIRMED}
  BY <1>4, StateOrder
<1> HIDE DEF i, v, z
<1>6. i \in Nat /\ i # 0 /\ 0 \in Nat /\ i \in 0..MaxInvites
  BY <1>1, InviteAssumption DEF Ids
<1>7. v.neg \in Neg
  BY <1>2 DEF Session
<1>8. /\ n \in Neg /\ n.act = v.neg.act /\ (Sane(v.neg) => Sane(n))
      /\ \/ n.st = "LOCAL_OFFER" \/ n = v.neg
         \/ v.neg.st = "REMOTE_OFFER" /\ n.st = "WAIT_NEGO" /\ n.rem = v.neg.rem
  <2>1. CASE ~offer
    BY <2>1, <1>7
  <2>2. CASE offer /\ v.neg.st = "REMOTE_OFFER"
    <3>1. LocalAnswer(v.neg) \in Neg /\ LocalAnswer(v.neg).st = "WAIT_NEGO"
      BY <1>6, <1>7, NegLemma
    <3>2. /\ LocalAnswer(v.neg).loc = v.neg.rem /\ LocalAnswer(v.neg).rem = v.neg.rem
          /\ LocalAnswer(v.neg).act = v.neg.act
      BY <1>6, <1>7, NegExact
    <3> QED BY <2>2, <3>1, <3>2 DEF Sane, Offering
  <2>3. CASE offer /\ v.neg.st # "REMOTE_OFFER"
    <3>1. /\ LocalOffer(v.neg, i) \in Neg /\ LocalOffer(v.neg, i).act = v.neg.act
          /\ v.neg.st \in {"NULL", "DONE"} => LocalOffer(v.neg, i).st = "LOCAL_OFFER"
          /\ v.neg.st \notin {"NULL", "DONE"} => LocalOffer(v.neg, i) = v.neg
      BY <1>6, <1>7, NegLemma
    <3>2. v.neg.st \in {"NULL", "DONE"} => LocalOffer(v.neg, i).loc = i
      BY <1>6, <1>7, NegExact
    <3>3. Sane(v.neg) => Sane(LocalOffer(v.neg, i))
      <4>1. CASE v.neg.st \in {"NULL", "DONE"}
        BY <1>6, <3>1, <3>2, <4>1 DEF Sane
      <4>2. CASE v.neg.st \notin {"NULL", "DONE"}
        BY <3>1, <4>2
      <4> QED BY <4>1, <4>2
    <3> QED BY <2>3, <3>1, <3>3
  <2> QED BY <2>1, <2>2, <2>3
<1>9. d \in Nat /\ d = Offered(n)
  BY <1>6, <1>8 DEF Neg, Offered, Offering
<1> HIDE DEF n, d
<1>10. /\ x \in Session /\ x.role = v.role /\ x.state = z /\ x.neg = n /\ x.itsx = i
       /\ x.tsx = [v.tsx EXCEPT ![i] = "calling"] /\ x.mine = v.mine \cup {i}
       /\ x.cause = v.cause /\ x.lapsed = v.lapsed /\ x.out = v.out
  <2>1. v \in Session /\ i \in Ids /\ n \in Neg /\ z \in NULL..DISCONNECTED
    BY <1>1, <1>2, <1>5, <1>8
  <2> QED BY <2>1, CallLemma
<1>11. x.done = v.done /\ x.ack = v.ack
  BY <1>2 DEF Call, Session
<1> HIDE DEF x
<1>12. /\ "INVITE" \in MessageTypes /\ "INVITE" \notin {"BYE", "OK"} /\ i \in 0..MaxInvites
       /\ i \in Ids /\ d \in Nat /\ x \in Session
  <2>1. "INVITE" \in MessageTypes /\ "INVITE" \notin {"BYE", "OK"}
    BY DEF MessageTypes, Requests
  <2> QED BY <2>1, <1>1, <1>6, <1>9, <1>10
<1>13. /\ Core(x, w) /\ w.state = x.state /\ w.neg = x.neg /\ w.cause = x.cause
       /\ w.out = x.out \cup {[to |-> Peer(x.role), t |-> "INVITE", i |-> i, sdp |-> d]}
       /\ Says(x, w, {"INVITE"})
  BY <1>12, SendLemma
<1>14. /\ Same(x, w) /\ w.state = x.state /\ w.lapsed = x.lapsed
       /\ w.out = x.out \cup {[to |-> Peer(x.role), t |-> "INVITE", i |-> i, sdp |-> d]}
  BY <1>12, SendSame
<1> HIDE DEF w
<1>15. Begins(v, w, i) /\ w.role = e
  <2>1. w \in Session /\ w.role = v.role
    BY <1>10, <1>13 DEF Core
  <2>2. /\ w.itsx = i /\ w.mine = v.mine \cup {i} /\ w.tsx = [v.tsx EXCEPT ![i] = "calling"]
        /\ w.done = v.done /\ w.ack = v.ack /\ w.neg = n
    BY <1>10, <1>11, <1>14 DEF Same
  <2>3. w.out = {[to |-> Peer(w.role), t |-> "INVITE", i |-> i, sdp |-> Offered(w.neg)]}
    BY <1>2, <1>9, <1>10, <1>14, <2>1, <2>2
  <2>4. w.state \in {CALLING, CONFIRMED} /\ w.lapsed = v.lapsed
    BY <1>5, <1>10, <1>14
  <2>5. ASSUME Resolved(v) PROVE Resolved(w)
    <3>1. \A j \in Ids : ~Serves(w, j)
      <4> SUFFICES ASSUME NEW j \in Ids, Serves(w, j) PROVE FALSE
        OBVIOUS
      <4>1. v.tsx \in [Ids -> TsxStates]
        BY <1>2 DEF Session
      <4>2. j # i /\ Serves(v, j)
        BY <4>1, <2>2, <1>1 DEF Serves
      <4>3. Owns(v)
        BY DEF IInv, Calls, v
      <4> QED BY <4>2, <4>3, <1>4 DEF Owns, Serves, Open, Ids
    <3>2. CASE v.state = NULL
      <4>1. Closable(v)
        BY DEF IInv, Offers, v
      <4> QED BY <3>1, <3>2, <4>1, <1>8, <2>2 DEF Closable, Resolved
    <3>3. CASE v.state = CONFIRMED
      <4>1. w.state = CONFIRMED
        BY <3>3, <1>10, <1>14, StateOrder DEF z
      <4> QED BY <3>1, <3>3, <4>1, <1>8, <2>2, <2>5, StateOrder DEF Resolved, LeftOpen
    <3> QED BY <3>2, <3>3, <1>4
  <2> QED BY <1>2, <1>8, <2>1, <2>2, <2>3, <2>4, <2>5 DEF Begins
<1> QED BY <1>1, <1>3, <1>4, <1>15 DEF v, i

(* Nothing is served by an end that calls; what it acknowledged last, it   *)
(* has acknowledged still.                                                 *)
LEMMA BeginsAgrees ==
    ASSUME NEW e, Pending(e), NEW i \in Ids, i \notin Used, inv[e].itsx = 0,
           NEW w, Begins(inv[e], w, i)
    PROVE  Agreed(e, w, net)
<1> DEFINE v == inv[e]
           p == inv[Peer(e)]
<1>1. /\ Linked(v, p) /\ Pact(v, p) /\ v.role = e
      /\ Peer(e) \in Ends /\ Peer(e) # e /\ Peer(Peer(e)) = e
      /\ \A n \in net : /\ n \in Message
                        /\ n.to = e => Carried(n, v, p) /\ Bears(n, v, p)
                        /\ n.to # e => Carried(n, p, v) /\ Bears(n, p, v)
      /\ \A m, n \in net : m.t \in Rejections /\ n.t \in Rejections /\ m.i = n.i => m = n
  BY PendingLinked
<1>2. i \notin v.mine /\ i \notin p.mine
  BY <1>1 DEF Used, Pending, Ends
<1>3. v.itsx = 0 /\ Begins(v, w, i)
  OBVIOUS
<1> HIDE DEF v, p
<1>4. v.tsx[i] = "none" /\ p.tsx[i] = "none" /\ i # 0
  BY <1>1, <1>2 DEF Linked, Ids
<1>5. \A j \in Ids : v.tsx[j] \notin Open \cup {"accepted"}
  BY <1>1, <1>3 DEF Linked, Owns, Ids
<1>6. w.tsx[i] = "calling" /\ \A j \in Ids \ {i} : w.tsx[j] = v.tsx[j]
  <2>1. v.tsx \in [Ids -> TsxStates] /\ w.tsx = [v.tsx EXCEPT ![i] = "calling"]
    BY <1>1, <1>3 DEF Linked, Session, Begins
  <2> QED BY <2>1
<1>7. /\ w.done = v.done /\ w.ack = v.ack /\ w.neg.act = v.neg.act /\ w.mine = v.mine \cup {i}
      /\ w.role = e /\ (Sane(v.neg) => Sane(w.neg)) /\ w.state \in {CALLING, CONFIRMED}
      /\ Resolved(v) => Resolved(w)
  BY <1>1, <1>3 DEF Begins
<1>8. ~Serving(v) /\ ~Serving(w)
  <2>1. ~Serving(v)
    BY <1>5 DEF Serving, Serves, Open
  <2>2. \A j \in Ids : Serves(w, j) => Serves(v, j)
    BY <1>6, <1>7 DEF Serves
  <2> QED BY <2>1, <2>2 DEF Serving
<1>9. Shape(w)
  <2>1. Shape(v)
    BY <1>1 DEF Pact
  <2>2. Sane(w.neg) /\ Resolved(w)
    BY <2>1, <1>7 DEF Shape
  <2>3. w.ack.i # 0 => w.ack.i \in Ids /\ w.tsx[w.ack.i] = "over"
    BY <2>1, <1>4, <1>6, <1>7 DEF Shape
  <2>4. \A j \in w.done : j \in Ids /\ w.tsx[j] # "none"
    BY <2>1, <1>4, <1>6, <1>7 DEF Shape
  <2>5. w.state # NULL /\ w.state # CONNECTING
    BY <1>7, StateOrder
  <2> QED BY <2>2, <2>3, <2>4, <2>5 DEF Shape
<1>10. Answers(w, p)
  <2> SUFFICES ASSUME NEW j \in Ids, Serves(p, j)
               PROVE  IF w.tsx[j] \in Open THEN Waits(j, w, p) ELSE Acked(j, w, p)
    BY DEF Answers
  <2>1. j # i
    BY <1>4 DEF Serves
  <2>2. Acked(j, v, p)
    BY <1>1, <1>5 DEF Pact, Answers
  <2>3. w.tsx[j] \notin Open
    BY <2>1, <1>5, <1>6
  <2>4. Acked(j, w, p)
    BY <2>2, <1>7 DEF Acked
  <2> QED BY <2>3, <2>4
<1>11. Answers(p, w)
  BY <1>8 DEF Answers, Serving
<1>12. Pact(w, p)
  <2>1. Shape(p) /\ (Serving(v) \/ Serving(p) \/ v.neg.act = p.neg.act)
    BY <1>1 DEF Pact
  <2> QED BY <2>1, <1>7, <1>8, <1>9, <1>10, <1>11 DEF Pact
<1>13. ASSUME NEW n \in net
       PROVE  /\ n.to = e => Bears(n, w, p)
              /\ n.to # e => Bears(n, p, w)
  <2>1. CASE n.to = e
    <3>1. Bears(n, v, p)
      BY <1>1, <2>1
    <3>2. Carried(n, v, p)
      BY <1>1, <2>1
    <3>3. n.t \in Rejections => w.tsx[n.i] \in Open
      <4>1. ASSUME n.t \in Rejections PROVE FALSE
        <5>1. n.i \in Ids /\ v.tsx[n.i] \in Open
          BY <3>1, <3>2, <4>1 DEF Bears, Carried, Rejections
        <5> QED BY <5>1, <1>5
      <4> QED BY <4>1
    <3> QED BY <2>1, <3>1, <3>3 DEF Bears
  <2>2. CASE n.to # e
    <3>1. Carried(n, p, v) /\ Bears(n, p, v)
      BY <1>1, <2>2
    <3>2. n.t # "INVITE" /\ n.t \notin Provisionals /\ n.t # "200"
      <4>1. n.t = "INVITE" => n.i \in Ids /\ v.tsx[n.i] \in Open
        BY <3>1 DEF Carried
      <4>2. n.t \in Provisionals => n.i \in Ids /\ v.tsx[n.i] \in {"proceeding", "accepted"}
        BY <3>1 DEF Carried, Bears, Provisionals
      <4>3. n.t = "200" => n.i \in Ids /\ v.tsx[n.i] = "accepted"
        BY <3>1 DEF Carried, Bears
      <4> QED BY <4>1, <4>2, <4>3, <1>5 DEF Open
    <3>3. n.t \in Rejections => n.i \in Ids /\ v.tsx[n.i] \in {"rejected", "over"} /\ p.tsx[n.i] \in Open
      BY <3>1 DEF Carried, Bears, Rejections
    <3>4. n.t = "ACK" => /\ n.i \in Ids /\ v.tsx[n.i] = "over"
                         /\ (v.ack.i = n.i => n.sdp = v.ack.sdp)
      BY <3>1 DEF Carried, Bears
    <3>5. n.t \in Rejections => w.tsx[n.i] \in {"rejected", "over"} /\ p.tsx[n.i] \in Open
      BY <3>3, <1>4, <1>6
    <3>6. n.t = "ACK" => w.tsx[n.i] = "over" /\ (w.ack.i = n.i => n.sdp = w.ack.sdp)
      BY <3>4, <1>4, <1>6, <1>7
    <3> QED BY <2>2, <3>2, <3>5, <3>6 DEF Bears
  <2> QED BY <2>1, <2>2
<1>14. ASSUME NEW n \in w.out
       PROVE  n.to = Peer(e) /\ Bears(n, p, w) /\ n.t \notin Rejections
  <2>1. n.to = Peer(e) /\ n.t = "INVITE" /\ n.i = i /\ n.sdp = Offered(w.neg)
    BY <1>3, <1>7 DEF Begins
  <2>2. i \notin w.done
    BY <1>1, <1>4, <1>7 DEF Pact, Shape
  <2> QED BY <2>1, <2>2 DEF Bears, Provisionals, Rejections
<1>15. \A m, n \in net \cup w.out : m.t \in Rejections /\ n.t \in Rejections /\ m.i = n.i => m = n
  BY <1>1, <1>14
<1> QED BY <1>12, <1>13, <1>14, <1>15 DEF Agreed, v, p

(* A new INVITE.                                                           *)
LEMMA InviteAccord ==
    ASSUME IInv, Accord, NEW e \in Ends, NEW offer \in BOOLEAN, Invite(e, offer)
    PROVE  Accord'
<1> DEFINE v == inv[e]
           i == Cardinality(Used) + 1
<1>1. i \in Ids /\ v.itsx = 0 /\ v.state \in {NULL, CONFIRMED} /\ i \notin Used
  BY InviteBegins
<1>2. PICK w : Begins(v, w, i) /\ w.role = e /\ Becomes(e, w, net)
  BY InviteBegins
<1> HIDE DEF i
<1>3. Pending(e) => Agreed(e, w, net)
  BY <1>1, <1>2, BeginsAgrees
<1>4. w \in Session /\ w.lapsed = v.lapsed /\ v.state # DISCONNECTED
  BY <1>1, <1>2, StateOrder DEF Begins
<1>5. Lasts(v, w)
  BY <1>4, SessionFields DEF Lasts
<1>6. net \in SUBSET net
  OBVIOUS
<1> QED BY <1>2, <1>3, <1>4, <1>5, <1>6, StepAccord

-----------------------------------------------------------------------------
(* The accord, from the beginning.                                         *)

(* The sessions agree before they begin.                                   *)
LEMMA InitialAccord == Init => Accord
<1> SUFFICES ASSUME Init PROVE Accord
  OBVIOUS
<1>1. net = {} /\ \A e \in Ends : inv[e] = New(e)
  BY DEF Init
<1>2. ASSUME NEW e \in Ends
      PROVE  /\ New(e).role = e /\ New(e).state = NULL /\ New(e).itsx = 0 /\ New(e).neg = NewNeg
             /\ New(e).done = {} /\ New(e).ack.i = 0
             /\ \A i \in Ids : New(e).tsx[i] = "none"
  BY DEF New
<1>3. /\ NewNeg.st = "NULL" /\ NewNeg.act = <<0, 0>> /\ Sane(NewNeg)
  BY DEF NewNeg, Sane, Offering
<1>4. ASSUME NEW e \in Ends
      PROVE  Shape(New(e)) /\ ~Serving(New(e)) /\ \A i \in Ids : ~Serves(New(e), i)
  BY <1>2, <1>3, StateOrder DEF Shape, Resolved, Serving, Serves
<1>5. Pact(New("uac"), New("uas"))
  BY <1>2, <1>4 DEF Pact, Answers, Ends
<1> QED BY <1>1, <1>5 DEF Accord, Ends

(* Every step keeps the accord.                                            *)
LEMMA Accordant == IInv /\ Accord /\ [Next]_vars => Accord'
<1> SUFFICES ASSUME IInv, Accord, [Next]_vars PROVE Accord'
  OBVIOUS
<1>1. ASSUME NEW e \in Ends, NEW offer \in BOOLEAN, Invite(e, offer) PROVE Accord'
  BY <1>1, InviteAccord
<1>2. ASSUME NEW media \in BOOLEAN, Ring(media) PROVE Accord'
  BY <1>2, RingAccord
<1>3. CASE Answer
  BY <1>3, AnswerAccord
<1>4. ASSUME NEW e \in Ends, NEW c \in Codes, End(e, c) PROVE Accord'
  BY <1>4, EndAccord
<1>5. ASSUME NEW e \in Ends, NEW m \in net, Receive(e, m) PROVE Accord'
  BY <1>5, ReceiveAccord
<1>6. ASSUME NEW e \in Ends, AckTimeout(e) PROVE Accord'
  BY <1>6, AckTimeoutAccord
<1>7. ASSUME NEW e \in Ends, ByeTimeout(e) PROVE Accord'
  BY <1>7, ByeTimeoutAccord
<1>8. CASE UNCHANGED vars
  BY <1>8 DEF vars, Accord, Alive
<1> QED BY <1>1, <1>2, <1>3, <1>4, <1>5, <1>6, <1>7, <1>8 DEF Next, User

-----------------------------------------------------------------------------
(* Results.                                                                *)

(* Two INVITEs that cross are not both accepted, however many INVITEs the  *)
(* two ends send and however their messages overtake each other: an end    *)
(* whose own INVITE is pending rejects the other's (inv_on_state_confirmed *)
(* looks at invite_tsx), and an end that waits for an ACK sends none.      *)
THEOREM GlareResolved == Spec => []NoGlare
<1>1. IInv => NoGlare
  BY DEF IInv, Calls, Glareless, NoGlare
<1> QED BY <1>1, Invariant, PTL

(* The accord, in every reachable state.                                   *)
LEMMA Concord == Spec => []Accord
<1>1. Init => IInv /\ Accord
  BY Initial, InitialAccord
<1>2. IInv /\ Accord /\ [Next]_vars => (IInv /\ Accord)'
  BY Inductive, Accordant
<1> QED BY <1>1, <1>2, PTL DEF Spec

(* An offer of an end to change an established session is the business of  *)
(* an INVITE that is still pending, unless an ACK did not come in time.    *)
OwnOffers == \A e \in Ends :
    /\ inv[e].state = CONFIRMED /\ ~inv[e].lapsed
    /\ inv[e].neg.act # <<0, 0>> /\ inv[e].neg.st = "LOCAL_OFFER"
    => inv[e].itsx # 0

(* That is always so, whatever has become of the other session: each way   *)
(* an INVITE of either end can end takes the offer with it.                *)
THEOREM OwnOffersClosed == Spec => []OwnOffers
<1>1. IInv => OwnOffers
  BY DEF IInv, Offers, Closable, OwnOffers
<1> QED BY <1>1, Invariant, PTL

(* While neither session is over and no ACK has failed to come, no change  *)
(* of the session is left half negotiated without a pending INVITE by any  *)
(* handler, whoever has offered: neither an offer of this end, nor one of  *)
(* the other's that waits for an answer, nor an answer that waits for its  *)
(* message.  What LeftOpen names is exempt, with the fault that lets a     *)
(* user leave an offer unanswered; without that fault nothing is.          *)
THEOREM OffersClosed == Spec => [](Alive => NoStuckOffer)
<1>1. IInv /\ Accord => (Alive => NoStuckOffer)
  <2> SUFFICES ASSUME IInv, Accord, Alive, NEW e \in Ends,
                      inv[e].state = CONFIRMED, inv[e].neg.act # <<0, 0>>,
                      inv[e].neg.st # "DONE", ~LeftOpen(inv[e])
               PROVE  inv[e].itsx # 0
    BY DEF NoStuckOffer
  <2>1. Shape(inv[e]) /\ ~inv[e].lapsed
    BY DEF Accord, Pact, Alive, Ends
  <2>2. inv[e].neg.st = "LOCAL_OFFER"
    BY <2>1 DEF Shape, Resolved
  <2>3. Closable(inv[e])
    BY DEF IInv, Offers
  <2> QED BY <2>1, <2>2, <2>3 DEF Closable
<1> QED BY <1>1, Invariant, Concord, PTL

(* The callee's BYE waits until the caller has seen the answer, unless its *)
(* ACK did not come in time or the codes that users may end a call with    *)
(* hold 408 or 503, with which the code lets a BYE pass (sip_inv.c:2960).  *)
THEOREM CallerSeesAnswer == Spec => []CallerKnows
<1>1. IInv => CallerKnows
  BY DEF IInv
<1> QED BY <1>1, Invariant, PTL

(* When both ends have negotiated and neither has an INVITE pending, both  *)
(* use the same two descriptions, each what the other takes it to be,      *)
(* unless an ACK did not come in time: whatever INVITEs cross, are         *)
(* rejected, cancelled or acknowledged with an answer, and however late    *)
(* their messages come.                                                    *)
THEOREM AgreementReached == Spec => []Agreement
<1>1. IInv /\ Accord => Agreement
  <2> SUFFICES ASSUME IInv, Accord, \A e \in Ends : Quiet(e) /\ ~inv[e].lapsed
               PROVE  /\ inv["uac"].neg.act = inv["uas"].neg.act
                      /\ inv["uac"].neg.act[1] = inv["uac"].neg.act[2]
    BY DEF Agreement
  <2>1. Alive
    BY StateOrder DEF Alive, Quiet
  <2>2. Pact(inv["uac"], inv["uas"])
    BY <2>1 DEF Accord
  <2>3. ASSUME NEW e \in Ends
        PROVE  ~Serving(inv[e])
    BY DEF IInv, Calls, Owns, Quiet, Serving, Serves, Open, Ids
  <2>4. "uac" \in Ends /\ "uas" \in Ends
    BY DEF Ends
  <2> QED BY <2>2, <2>3, <2>4 DEF Pact, Shape, Sane
<1> QED BY <1>1, Concord, Invariant, PTL

=============================================================================
