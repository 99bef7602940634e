--------------------------- MODULE TsxThreadsProofs ---------------------------
(***************************************************************************)
(* The reference counter of the group lock is never wrong, whatever the    *)
(* number of threads and whatever the transport does: proved from an       *)
(* inductive invariant that adds to the accounting what each thread has in *)
(* hand.  On top of it: a transaction that has ended has a final status.   *)
(*                                                                         *)
(* A second invariant, TInv, says what holds of the transaction between    *)
(* the steps of the threads.  From it, each under the faults it holds for: *)
(* the timer of a state is armed, an unanswered message is repeated, the   *)
(* ACK is given, the user is told, and no state comes back.                *)
(***************************************************************************)
EXTENDS TsxThreads, SipTransactionProofs, FiniteSetTheorems

(* A thread's local data fit the place where it is.                        *)
InHand == /\ \A a \in Apps : pc[a] = "terminate" => held
          /\ \A w \in Workers : pc[w] \in {"popped", "dispatch"} => ent[w] \in Entries
          /\ \A r \in Readers : pc[r] = "found" =>
                msg[r] \in IF tsx.role = "UAC" THEN Responses ELSE {REQ, ACK}

(* The strengthening: the transaction is well formed, so that a handler    *)
(* may run; and memory is given back only at a counter of zero, where      *)
(* RefsAccounted says that nobody is left to take a step.                  *)
IInv == /\ TypeOK
        /\ Good(tsx)
        /\ RefsAccounted
        /\ freed => tsx.refs = 0
        /\ InHand

-----------------------------------------------------------------------------
(* There are finitely many threads, so the holders can be counted.         *)
LEMMA FiniteThreads ==
  /\ IsFiniteSet(Threads)
  /\ IsFiniteSet(Holders) /\ IsFiniteSet(Holders')
  /\ Cardinality(Holders) \in Nat /\ Cardinality(Holders') \in Nat
<1>1. IsFiniteSet(Threads)
  BY ThreadsAssumption, FS_Union DEF Threads
<1>2. Holders \subseteq Threads /\ Holders' \subseteq Threads
  BY DEF Holders
<1>3. IsFiniteSet(Holders) /\ IsFiniteSet(Holders')
  BY <1>1, <1>2, FS_Subset
<1> QED BY <1>1, <1>3, FS_CardinalityType

(* How a thread that goes somewhere changes the number of holders.         *)
LEMMA HoldersChange ==
  ASSUME NEW th \in Threads, NEW l, DOMAIN pc = Threads, Goto(th, l)
  PROVE  /\ pc[th] \notin Holding /\ l \in Holding
              => Cardinality(Holders') = Cardinality(Holders) + 1
         /\ pc[th] \in Holding /\ l \notin Holding
              => Cardinality(Holders') = Cardinality(Holders) - 1
         /\ (pc[th] \in Holding <=> l \in Holding)
              => Cardinality(Holders') = Cardinality(Holders)
<1>1. \A x \in Threads : pc'[x] = IF x = th THEN l ELSE pc[x]
  BY DEF Goto
<1>2. ASSUME pc[th] \notin Holding, l \in Holding
      PROVE  Cardinality(Holders') = Cardinality(Holders) + 1
  <2>1. Holders' = Holders \cup {th} /\ th \notin Holders
    BY <1>1, <1>2 DEF Holders
  <2> QED BY <2>1, FiniteThreads, FS_AddElement
<1>3. ASSUME pc[th] \in Holding, l \notin Holding
      PROVE  Cardinality(Holders') = Cardinality(Holders) - 1
  <2>1. Holders' = Holders \ {th} /\ th \in Holders
    BY <1>1, <1>3 DEF Holders
  <2> QED BY <2>1, FiniteThreads, FS_RemoveElement
<1>4. ASSUME pc[th] \in Holding <=> l \in Holding
      PROVE  Cardinality(Holders') = Cardinality(Holders)
  <2>1. Holders' = Holders
    BY <1>1, <1>4 DEF Holders
  <2> QED BY <2>1
<1> QED BY <1>2, <1>3, <1>4

(* A thread that holds a reference is counted.                             *)
LEMMA HolderCounted ==
  ASSUME NEW th \in Threads, pc[th] \in Holding
  PROVE  Cardinality(Holders) >= 1
<1>1. th \in Holders
  BY DEF Holders
<1>2. Cardinality(Holders) # 0
  BY <1>1, FiniteThreads, FS_EmptySet
<1> QED BY <1>2, FiniteThreads

(* Once the memory was given back, nothing is left that could be used:     *)
(* the counter is zero, and it is the sum of everything that refers to it. *)
LEMMA FreedAlone ==
  ASSUME IInv, freed
  PROVE  /\ ~tsx.live /\ ~tsx.reg /\ ~held
         /\ tsx.heap = {} /\ tsx.out = 0 /\ Holders = {}
<1>1. tsx \in Transactions /\ held \in BOOLEAN
  BY DEF IInv, TypeOK
<1>2. One(tsx.live) \in {0, 1} /\ One("rt" \in tsx.heap) \in {0, 1}
      /\ One("to" \in tsx.heap) \in {0, 1} /\ One(held) \in {0, 1} /\ tsx.out \in Nat
  BY <1>1 DEF Transactions, One
<1>3. /\ One(tsx.live) = 0 /\ One("rt" \in tsx.heap) = 0
      /\ One("to" \in tsx.heap) = 0 /\ One(held) = 0 /\ tsx.out = 0
      /\ Cardinality(Holders) = 0
  BY <1>2, FiniteThreads DEF IInv, RefsAccounted, Own
<1>4. ~tsx.live /\ ~held /\ "rt" \notin tsx.heap /\ "to" \notin tsx.heap
  BY <1>3 DEF One
<1>5. tsx.heap = {}
  BY <1>1, <1>4 DEF Transactions, Entries
<1>6. Holders = {}
  BY <1>3, FiniteThreads, FS_EmptySet
<1>7. ~tsx.reg
  BY <1>4 DEF IInv, Good
<1> QED BY <1>3, <1>4, <1>5, <1>6, <1>7

-----------------------------------------------------------------------------
(* References somebody else holds: what is left of the counter once the    *)
(* transaction's own are taken away.                                       *)
Owed(t, n) == Good(t) /\ t.refs - Own(t) = n

(* What the invariant says before a step.                                  *)
LEMMA Before ==
  ASSUME IInv
  PROVE  /\ Owed(Now, One(held) + Cardinality(Holders)) /\ Now.role = tsx.role
         /\ Now.state = tsx.state /\ Now.heap = tsx.heap /\ Now.out = tsx.out
         /\ One(held) \in {0, 1} /\ Cardinality(Holders) \in Nat
<1>1. tsx \in Transactions /\ Good(tsx)
  BY DEF IInv, TypeOK
<1>2. Now \in Transactions
  BY <1>1 DEF Transactions, Now
<1>3. /\ Now.refs = tsx.refs /\ Now.heap = tsx.heap /\ Now.out = tsx.out
      /\ Now.live = tsx.live /\ Now.reg = tsx.reg /\ Now.role = tsx.role
      /\ Now.state = tsx.state
  BY <1>1 DEF Transactions, Now
<1>4. Kept(tsx, Now)
  BY <1>1, <1>2, <1>3, SameRefs DEF Good
<1>5. tsx.refs - Own(tsx) = One(held) + Cardinality(Holders)
  <2>1. Own(tsx) \in Nat /\ tsx.refs = Own(tsx) + One(held) + Cardinality(Holders)
    BY <1>1, OwnType DEF IInv, RefsAccounted
  <2> QED BY <2>1, FiniteThreads DEF One
<1> QED BY <1>3, <1>4, <1>5, FiniteThreads DEF Owed, Kept, One

(* An operation of the transaction owes what it owed.                      *)
LEMMA KeptOwed ==
  ASSUME NEW t, NEW n, Owed(t, n), NEW u, Kept(t, u)
  PROVE  Owed(u, n)
  BY DEF Owed, Kept

(* A reference given back was owed, and one taken is owed from now on.     *)
LEMMA GivenBack ==
  ASSUME NEW t, NEW n \in Nat \ {0}, Owed(t, n)
  PROVE  Owed(DecRef(t), n - 1) /\ DecRef(t).role = t.role
<1> DEFINE u == DecRef(t)
<1>1. t \in Transactions /\ t.refs - Own(t) = n
  BY DEF Owed, Good
<1>2. Own(t) \in Nat /\ t.refs \in Nat /\ t.refs >= 1
  BY <1>1, OwnType DEF Transactions
<1>3. /\ u.refs = t.refs - 1 /\ u.heap = t.heap /\ u.out = t.out
      /\ u.live = t.live /\ u.reg = t.reg /\ u.role = t.role /\ u.state = t.state
  BY <1>1 DEF Transactions, DecRef
<1>4. u \in Transactions
  BY <1>1, <1>2 DEF Transactions, DecRef
<1>5. Own(u) = Own(t)
  BY <1>3 DEF Own
<1> QED BY <1>1, <1>2, <1>3, <1>4, <1>5 DEF Owed, Good

(* A reference taken under the lock is one more that is owed.              *)
LEMMA Taken ==
  ASSUME NEW t, NEW n \in Nat, Owed(t, n)
  PROVE  Owed(AddRef(t), n + 1) /\ AddRef(t).role = t.role
<1> DEFINE u == AddRef(t)
<1>1. t \in Transactions /\ t.refs - Own(t) = n
  BY DEF Owed, Good
<1>2. Own(t) \in Nat /\ t.refs \in Nat
  BY <1>1, OwnType DEF Transactions
<1>3. /\ u.refs = t.refs + 1 /\ u.heap = t.heap /\ u.out = t.out
      /\ u.live = t.live /\ u.reg = t.reg /\ u.role = t.role /\ u.state = t.state
  BY <1>1 DEF Transactions, AddRef
<1>4. u \in Transactions
  BY <1>1, <1>2 DEF Transactions, AddRef
<1>5. Own(u) = Own(t)
  BY <1>3 DEF Own
<1> QED BY <1>1, <1>2, <1>3, <1>4, <1>5 DEF Owed, Good

(* A popped entry's reference, and that of an answered send, pass from the *)
(* transaction to the thread.                                              *)
LEMMA HandedOver ==
  ASSUME NEW t, NEW n \in Nat, Owed(t, n)
  PROVE  /\ \A e \in t.heap : Owed([t EXCEPT !.heap = @ \ {e}], n + 1)
         /\ t.out > 0 => Owed([t EXCEPT !.out = @ - 1], n + 1)
<1>1. t \in Transactions /\ t.refs - Own(t) = n
  BY DEF Owed, Good
<1>2. Own(t) \in Nat /\ t.refs \in Nat /\ t.heap \subseteq Entries /\ t.out \in Nat
  BY <1>1, OwnType DEF Transactions
<1>3. ASSUME NEW e \in t.heap
      PROVE  Owed([t EXCEPT !.heap = @ \ {e}], n + 1)
  <2> DEFINE u == [t EXCEPT !.heap = @ \ {e}]
  <2>1. u \in Transactions
    BY <1>1, <1>2 DEF Transactions
  <2>2. /\ u.refs = t.refs /\ u.heap = t.heap \ {e} /\ u.out = t.out
        /\ u.live = t.live /\ u.reg = t.reg /\ u.role = t.role /\ u.state = t.state
    BY <1>1 DEF Transactions
  <2>3. Own(u) = Own(t) - 1
    BY <1>1, <1>2, <2>2 DEF Own, One, Entries, Transactions
  <2> QED BY <1>1, <1>2, <2>1, <2>2, <2>3 DEF Owed, Good
<1>4. ASSUME t.out > 0
      PROVE  Owed([t EXCEPT !.out = @ - 1], n + 1)
  <2> DEFINE u == [t EXCEPT !.out = @ - 1]
  <2>1. u \in Transactions
    BY <1>1, <1>2, <1>4 DEF Transactions
  <2>2. /\ u.refs = t.refs /\ u.heap = t.heap /\ u.out = t.out - 1
        /\ u.live = t.live /\ u.reg = t.reg /\ u.role = t.role /\ u.state = t.state
    BY <1>1 DEF Transactions
  <2>3. Own(u) = Own(t) - 1
    BY <1>1, <1>2, <2>2 DEF Own, One, Transactions
  <2> QED BY <1>1, <1>2, <2>1, <2>2, <2>3 DEF Owed, Good
<1> QED BY <1>3, <1>4

(* What a step has to show: the transaction it leaves owes exactly the     *)
(* user's reference and those of the threads, and hands stay in order.     *)
LEMMA After ==
  ASSUME NEW u, Put(u), u.role = tsx.role, ~freed,
         Owed(u, One(held') + Cardinality(Holders')),
         pc' \in [Threads -> {"idle", "terminate"} \cup Calling \cup Holding],
         ent' \in [Workers -> Entries \cup {"none"}],
         msg' \in [Readers -> Msgs \cup {NoMsg}],
         held' \in BOOLEAN, down' \in BOOLEAN, InHand'
  PROVE  IInv'
<1>1. u \in Transactions /\ Good(u) /\ tsx' = u
  BY DEF Owed, Good, Put
<1>2. freed' \in BOOLEAN /\ (freed' => u.refs = 0)
  BY DEF Put
<1>3. u.refs = Own(u) + One(held') + Cardinality(Holders')
  <2>1. Own(u) \in Nat /\ u.refs \in Nat
    BY <1>1, OwnType DEF Transactions
  <2>2. One(held') \in Nat
    BY DEF One
  <2> QED BY <2>1, <2>2, FiniteThreads DEF Owed
<1>4. RefsAccounted'
  BY <1>1, <1>3 DEF RefsAccounted
<1>5. TypeOK'
  BY <1>1, <1>2 DEF TypeOK
<1>6. Good(tsx)' /\ (freed' => tsx'.refs = 0)
  BY <1>1, <1>2
<1> QED BY <1>4, <1>5, <1>6 DEF IInv

(* Initially the layer and the user hold one reference each.               *)
LEMMA Initially == Init => IInv
<1> SUFFICES ASSUME Init PROVE IInv
  OBVIOUS
<1>1. PICK r \in Roles, i \in Invites, rel \in BOOLEAN, h \in H200s, tp \in BOOLEAN :
         tsx = [NewTsx(r, i, rel, h, tp) EXCEPT !.refs = 2]
  BY DEF Init, NewTsxs
<1>2. r \in {"UAC", "UAS"} /\ i \in BOOLEAN /\ h \in BOOLEAN
  BY ThreadsAssumption
<1>3. tsx \in Transactions
  <2>1. /\ NULL \in NULL .. DESTROYED /\ 0 \in Codes /\ "none" \in Waits
        /\ NoMsg \in Msgs \cup {NoMsg} /\ REQ \in Msgs /\ {} \in SUBSET Flags
        /\ {} \in SUBSET Entries /\ 2 \in Nat /\ 0 \in Nat /\ 0 \in 0 .. 2
        /\ [e \in Entries |-> TIMER_INACTIVE] \in [Entries -> 0 .. 3]
        /\ {} \in SUBSET Msgs
    BY DEF NULL, DESTROYED, Codes, Waits, Msgs, TIMER_INACTIVE
  <2>2. NewTsx(r, i, rel, h, tp) \in Transactions
    BY <1>2, <2>1 DEF NewTsx, Transactions
  <2> QED BY <1>1, <2>1, <2>2 DEF Transactions
<1>4. /\ tsx.heap = {} /\ tsx.out = 0 /\ tsx.live = TRUE /\ tsx.refs = 2
      /\ tsx.state = NULL /\ tsx.role \in {"UAC", "UAS"} /\ held = TRUE
  BY <1>1, <1>2 DEF NewTsx, Init
<1>5. Own(tsx) = 1
  BY <1>4 DEF Own, One
<1>6. Good(tsx)
  BY <1>3, <1>4, <1>5, AllowedStates DEF Good
<1>7. Holders = {}
  BY DEF Init, Holders, Holding
<1>8. RefsAccounted
  BY <1>4, <1>5, <1>7, FS_EmptySet DEF RefsAccounted, One
<1>9. TypeOK
  BY <1>3 DEF Init, TypeOK
<1>10. InHand
  BY DEF Init, InHand, Threads
<1> QED BY <1>6, <1>8, <1>9, <1>10 DEF IInv, Init

-----------------------------------------------------------------------------
(* A thread that goes to a place where it carries nothing keeps the hands  *)
(* of all in order.                                                        *)
LEMMA EmptyHanded ==
  ASSUME IInv, NEW th \in Threads, NEW l, l \notin {"terminate", "found", "popped", "dispatch"},
         Goto(th, l), tsx'.role = tsx.role, UNCHANGED held,
         \A w \in Workers : w # th => ent'[w] = ent[w],
         \A r \in Readers : r # th => msg'[r] = msg[r]
  PROVE  InHand'
<1>1. \A x \in Threads : pc'[x] = IF x = th THEN l ELSE pc[x]
  BY DEF Goto, IInv, TypeOK
<1>2. Workers \subseteq Threads /\ Readers \subseteq Threads /\ Apps \subseteq Threads
  BY DEF Threads
<1>3. InHand
  BY DEF IInv
<1> QED BY <1>1, <1>2, <1>3 DEF InHand

(* Taking an entry off the heap: its reference moves to the worker.        *)
LEMMA PopStep ==
  ASSUME IInv, ~freed, NEW w \in Workers, NEW e \in Entries, Pop(w, e)
  PROVE  IInv'
<1> DEFINE u == [Now EXCEPT !.heap = @ \ {e}]
           n == One(held) + Cardinality(Holders)
<1>1. Put(u) /\ Goto(w, "popped") /\ pc[w] = "idle" /\ e \in Now.heap
      /\ ent' = [ent EXCEPT ![w] = e] /\ UNCHANGED <<msg, held, down>>
  BY Before DEF Pop
<1>2. w \in Threads /\ TypeOK
  BY DEF Threads, IInv
<1>3. n \in Nat /\ Owed(Now, n) /\ Now.role = tsx.role
  BY Before
<1>4. Owed(u, n + 1) /\ u.role = tsx.role
  <2>1. Owed(u, n + 1)
    BY <1>1, <1>3, HandedOver
  <2>2. u.role = Now.role
    BY <1>3 DEF Owed, Good, Transactions
  <2> QED BY <1>3, <2>1, <2>2
<1>5. Cardinality(Holders') = Cardinality(Holders) + 1
  BY <1>1, <1>2, HoldersChange DEF TypeOK, Holding
<1>6. Owed(u, One(held') + Cardinality(Holders'))
  BY <1>1, <1>4, <1>5, Before
<1>7. InHand'
  <2>1. \A x \in Threads : pc'[x] = IF x = w THEN "popped" ELSE pc[x]
    BY <1>1, <1>2 DEF Goto, TypeOK
  <2>2. \A x \in Workers : ent'[x] = IF x = w THEN e ELSE ent[x]
    BY <1>1, <1>2 DEF TypeOK
  <2>3. tsx'.role = tsx.role
    BY <1>1, <1>4 DEF Put
  <2>4. Workers \subseteq Threads /\ Readers \subseteq Threads /\ Apps \subseteq Threads
    BY DEF Threads
  <2> QED BY <1>1, <2>1, <2>2, <2>3, <2>4 DEF InHand, IInv
<1>8. pc' \in [Threads -> {"idle", "terminate"} \cup Calling \cup Holding]
      /\ ent' \in [Workers -> Entries \cup {"none"}]
  BY <1>1, <1>2 DEF TypeOK, Goto, Holding
<1> QED BY <1>1, <1>2, <1>4, <1>6, <1>7, <1>8, After DEF TypeOK

(* A thread that finishes gives its reference back after what it did.      *)
LEMMA ThreadEnds ==
  ASSUME IInv, ~freed, NEW th \in Threads, pc[th] \in Holding, Goto(th, "idle"),
         NEW t, Kept(Now, t), Put(DecRef(t)), UNCHANGED <<held, down>>,
         \A w \in Workers : w # th => ent'[w] = ent[w],
         \A r \in Readers : r # th => msg'[r] = msg[r],
         ent' \in [Workers -> Entries \cup {"none"}],
         msg' \in [Readers -> Msgs \cup {NoMsg}]
  PROVE  IInv'
<1> DEFINE n == One(held) + Cardinality(Holders)
<1>1. TypeOK
  BY DEF IInv
<1>2. n \in Nat /\ Owed(t, n) /\ t.role = tsx.role
  BY Before, KeptOwed DEF Kept
<1>3. Cardinality(Holders') = Cardinality(Holders) - 1 /\ Cardinality(Holders) >= 1
  BY <1>1, HoldersChange, HolderCounted DEF TypeOK, Holding
<1>4. Owed(DecRef(t), n - 1) /\ DecRef(t).role = tsx.role
  BY <1>2, <1>3, GivenBack, Before
<1>5. Owed(DecRef(t), One(held') + Cardinality(Holders'))
  BY <1>3, <1>4, Before
<1>6. InHand'
  BY <1>4, EmptyHanded DEF Put
<1>7. pc' \in [Threads -> {"idle", "terminate"} \cup Calling \cup Holding]
  BY <1>1 DEF TypeOK, Goto
<1> QED BY <1>1, <1>4, <1>5, <1>6, <1>7, After DEF TypeOK

(* A worker that is done holds nothing any more.                           *)
LEMMA WorkerEnds ==
  ASSUME IInv, ~freed, NEW w \in Workers, pc[w] \in Holding, WorkerDone(w),
         NEW t, Kept(Now, t), Put(DecRef(t)), UNCHANGED <<msg, held, down>>
  PROVE  IInv'
<1>1. w \in Threads /\ TypeOK /\ Goto(w, "idle") /\ ent' = [ent EXCEPT ![w] = "none"]
  BY DEF Threads, IInv, WorkerDone
<1>2. /\ \A x \in Workers : x # w => ent'[x] = ent[x]
      /\ ent' \in [Workers -> Entries \cup {"none"}]
  BY <1>1 DEF TypeOK
<1> QED BY <1>1, <1>2, ThreadEnds DEF TypeOK

(* Reading the id keeps the reference, or gives it back.                   *)
LEMMA TimerCallbackStep ==
  ASSUME IInv, ~freed, NEW w \in Workers, TimerCallback(w)
  PROVE  IInv'
<1> DEFINE t == [Now EXCEPT !.id[ent[w]] = TIMER_INACTIVE]
           n == One(held) + Cardinality(Holders)
<1>1. w \in Threads /\ TypeOK /\ pc[w] = "popped" /\ ent[w] \in Entries
      /\ UNCHANGED <<msg, held, down>>
  BY DEF Threads, IInv, InHand, TimerCallback
<1>2. n \in Nat /\ Owed(Now, n) /\ Now.role = tsx.role
  BY Before
<1>3. Kept(Now, t)
  <2>1. Now \in Transactions
    BY <1>2 DEF Owed, Good
  <2>2. t \in Transactions
    BY <1>1, <2>1 DEF Transactions, TIMER_INACTIVE
  <2>3. /\ t.refs = Now.refs /\ t.heap = Now.heap /\ t.out = Now.out
        /\ t.live = Now.live /\ t.reg = Now.reg /\ t.role = Now.role
        /\ t.state = Now.state
    BY <2>1 DEF Transactions
  <2> QED BY <1>2, <2>2, <2>3, SameRefs DEF Owed, Good
<1>4. Owed(t, n) /\ t.role = tsx.role
  BY <1>2, <1>3, KeptOwed DEF Kept
<1>5. CASE Put(t) /\ UNCHANGED ent /\ (Goto(w, "dispatch") \/ Goto(w, "error"))
  <2>1. PICK l \in {"dispatch", "error"} : Goto(w, l)
    BY <1>5
  <2>2. Cardinality(Holders') = Cardinality(Holders)
    BY <1>1, <2>1, HoldersChange DEF TypeOK, Holding
  <2>3. Owed(t, One(held') + Cardinality(Holders'))
    BY <1>1, <1>4, <2>2
  <2>4. InHand'
    <3>1. \A x \in Threads : pc'[x] = IF x = w THEN l ELSE pc[x]
      BY <1>1, <2>1 DEF Goto, TypeOK
    <3>2. tsx'.role = tsx.role /\ ent' = ent /\ msg' = msg /\ held' = held
      BY <1>1, <1>4, <1>5 DEF Put
    <3>3. Workers \subseteq Threads /\ Readers \subseteq Threads /\ Apps \subseteq Threads
      BY DEF Threads
    <3> QED BY <1>1, <3>1, <3>2, <3>3 DEF InHand, IInv
  <2>5. pc' \in [Threads -> {"idle", "terminate"} \cup Calling \cup Holding]
    BY <1>1, <2>1 DEF TypeOK, Goto, Holding
  <2> QED BY <1>1, <1>4, <1>5, <2>3, <2>4, <2>5, After DEF TypeOK
<1>6. CASE Put(DecRef(t)) /\ WorkerDone(w)
  BY <1>1, <1>3, <1>6, WorkerEnds DEF Holding
<1> QED BY <1>5, <1>6 DEF TimerCallback

(* A reader that is done holds nothing any more.                           *)
LEMMA ReaderEnds ==
  ASSUME IInv, ~freed, NEW r \in Readers, pc[r] \in Holding, ReaderDone(r),
         NEW t, Kept(Now, t), Put(DecRef(t)), UNCHANGED <<ent, held, down>>
  PROVE  IInv'
<1>1. r \in Threads /\ TypeOK /\ Goto(r, "idle") /\ msg' = [msg EXCEPT ![r] = NoMsg]
  BY DEF Threads, IInv, ReaderDone
<1>2. /\ \A x \in Readers : x # r => msg'[x] = msg[x]
      /\ msg' \in [Readers -> Msgs \cup {NoMsg}]
  BY <1>1 DEF TypeOK
<1> QED BY <1>1, <1>2, ThreadEnds DEF TypeOK

(* A step that takes and gives back nothing, of a thread that goes from    *)
(* one place to another with the same claim on the counter.                *)
LEMMA PlainStep ==
  ASSUME IInv, ~freed, NEW th \in Threads, NEW l, Goto(th, l),
         l \in {"idle", "notify"} \cup Calling,
         pc[th] \in Holding <=> l \in Holding,
         NEW t, Kept(Now, t), Put(t), UNCHANGED <<ent, msg, held, down>>
  PROVE  IInv'
<1> DEFINE n == One(held) + Cardinality(Holders)
<1>1. TypeOK
  BY DEF IInv
<1>2. n \in Nat /\ Owed(t, n) /\ t.role = tsx.role
  BY Before, KeptOwed DEF Kept
<1>3. Cardinality(Holders') = Cardinality(Holders)
  BY <1>1, HoldersChange DEF TypeOK
<1>4. Owed(t, One(held') + Cardinality(Holders'))
  BY <1>2, <1>3
<1>5. InHand'
  BY <1>2, EmptyHanded DEF Put, Calling
<1>6. pc' \in [Threads -> {"idle", "terminate"} \cup Calling \cup Holding]
  BY <1>1 DEF TypeOK, Goto, Holding
<1> QED BY <1>1, <1>2, <1>4, <1>5, <1>6, After DEF TypeOK

(* A step that leaves every thread where it is.                            *)
LEMMA QuietStep ==
  ASSUME IInv, ~freed, NEW t, Kept(Now, t), Put(t), UNCHANGED <<pc, ent, msg, held>>,
         down' \in BOOLEAN
  PROVE  IInv'
<1>1. TypeOK
  BY DEF IInv
<1>2. Owed(t, One(held) + Cardinality(Holders)) /\ t.role = tsx.role
  BY Before, KeptOwed DEF Kept
<1>3. Holders' = Holders
  BY DEF Holders
<1>4. Owed(t, One(held') + Cardinality(Holders'))
  BY <1>2, <1>3
<1>5. InHand'
  BY <1>2 DEF InHand, IInv, Put
<1> QED BY <1>1, <1>2, <1>4, <1>5, After DEF TypeOK

(* A step that leaves the transaction alone: a thread is about to call.    *)
LEMMA AboutToCall ==
  ASSUME IInv, ~freed, NEW th \in Threads, NEW l \in Calling \cup {"terminate"},
         Goto(th, l), pc[th] = "idle", l = "terminate" => held,
         UNCHANGED <<tsx, ent, msg, held, down, freed>>
  PROVE  IInv'
<1>1. TypeOK /\ InHand
  BY DEF IInv
<1>2. Cardinality(Holders') = Cardinality(Holders)
  BY <1>1, HoldersChange DEF TypeOK, Holding, Calling
<1>3. RefsAccounted'
  BY <1>2 DEF IInv, RefsAccounted
<1>4. pc' \in [Threads -> {"idle", "terminate"} \cup Calling \cup Holding]
  BY <1>1 DEF TypeOK, Goto
<1>5. TypeOK'
  BY <1>1, <1>4 DEF TypeOK
<1>6. InHand'
  <2>1. \A x \in Threads : pc'[x] = IF x = th THEN l ELSE pc[x]
    BY <1>1 DEF Goto, TypeOK
  <2>2. Workers \subseteq Threads /\ Readers \subseteq Threads /\ Apps \subseteq Threads
    BY DEF Threads
  <2>3. l \notin {"popped", "dispatch", "found"}
    BY DEF Calling
  <2> QED BY <1>1, <2>1, <2>2, <2>3 DEF InHand
<1> QED BY <1>3, <1>5, <1>6 DEF IInv

(* A handler may run on the transaction, whatever the step before it did.  *)
LEMMA HandlerKept ==
  ASSUME IInv, NEW ev, ValidEvent(tsx.role, ev), NEW t \in StateHandler(Now, ev)
  PROVE  Kept(Now, t)
<1>1. Good(Now) /\ Now.role = tsx.role
  BY Before DEF Owed
<1> QED BY <1>1, StateHandlerKept

-----------------------------------------------------------------------------
(* The steps of a worker.                                                  *)
LEMMA DispatchTimerStep ==
  ASSUME IInv, ~freed, NEW w \in Workers, DispatchTimer(w)
  PROVE  IInv'
<1>1. PICK t \in StateHandler(Now, Timer(ent[w])) : Put(DecRef(t))
  BY DEF DispatchTimer
<1>2. pc[w] = "dispatch" /\ ent[w] \in Entries
  BY DEF DispatchTimer, IInv, InHand
<1>3. ValidEvent(tsx.role, Timer(ent[w]))
  BY <1>2 DEF ValidEvent, Timer
<1>4. Kept(Now, t)
  BY <1>1, <1>3, HandlerKept
<1> QED BY <1>1, <1>2, <1>4, WorkerEnds DEF DispatchTimer, Holding

(* The locked part of a transport error.                                   *)
LEMMA TransportErrorStep ==
  ASSUME IInv, ~freed, NEW w \in Workers, TransportError(w)
  PROVE  IInv'
<1> DEFINE p == [Now EXCEPT !.tp = FALSE]
           c == IF Now.code < 200 THEN UNAVAILABLE ELSE Now.code
           t == [Now EXCEPT !.tp = FALSE, !.code = IF @ < 200 THEN UNAVAILABLE ELSE @]
<1>1. Good(Now) /\ Now \in Transactions
  BY Before DEF Owed, Good
<1>2. Kept(Now, p) /\ Good(p)
  BY <1>1, TpKept DEF Kept
<1>3. c \in Codes
  <2>1. UNAVAILABLE \in Codes
    BY DEF Codes
  <2> QED BY <1>1, <2>1 DEF Transactions
<1>4. Kept(p, [p EXCEPT !.code = c])
  BY <1>2, <1>3, CodeKept
<1>5. [p EXCEPT !.code = c] = t
  BY <1>1 DEF Transactions
<1>6. Kept(Now, t) /\ Good(t)
  BY <1>2, <1>4, <1>5, KeptTrans DEF Kept
<1>7. Kept(t, SetStateNoNotify(t, TERMINATED))
  BY <1>6, AllowedStates, SetStateNoNotifyKept
<1>8. Kept(Now, SetStateNoNotify(t, TERMINATED))
  BY <1>6, <1>7, KeptTrans
<1>9. w \in Threads /\ pc[w] = "error" /\ Goto(w, "notify")
      /\ Put(SetStateNoNotify(t, TERMINATED)) /\ UNCHANGED <<ent, msg, held, down>>
  BY DEF Threads, TransportError
<1> QED BY <1>8, <1>9, PlainStep DEF Holding

(* The notification without the lock gives the reference back.             *)
LEMMA NotifyUserStep ==
  ASSUME IInv, ~freed, NEW w \in Workers, NotifyUser(w)
  PROVE  IInv'
<1>1. Kept(Now, Notify(Now))
  BY Before, NotifyKept DEF Owed
<1> QED BY <1>1, WorkerEnds DEF NotifyUser, Holding

(* The steps of a reader.                                                  *)
LEMMA FindStep ==
  ASSUME IInv, ~freed, NEW r \in Readers, NEW m \in Msgs, Find(r, m)
  PROVE  IInv'
<1> DEFINE u == AddRef(Now)
           n == One(held) + Cardinality(Holders)
<1>1. Put(u) /\ Goto(r, "found") /\ pc[r] = "idle" /\ m \in Incoming
      /\ msg' = [msg EXCEPT ![r] = m] /\ UNCHANGED <<ent, held, down>>
  BY DEF Find
<1>2. r \in Threads /\ TypeOK
  BY DEF Threads, IInv
<1>3. n \in Nat /\ Owed(Now, n) /\ Now.role = tsx.role
  BY Before
<1>4. Owed(u, n + 1) /\ u.role = tsx.role
  BY <1>3, Taken
<1>5. Cardinality(Holders') = Cardinality(Holders) + 1
  BY <1>1, <1>2, HoldersChange DEF TypeOK, Holding
<1>6. Owed(u, One(held') + Cardinality(Holders'))
  BY <1>1, <1>4, <1>5, Before
<1>7. m \in IF tsx.role = "UAC" THEN Responses ELSE {REQ, ACK}
  BY <1>1 DEF Incoming, Responses
<1>8. InHand'
  <2>1. \A x \in Threads : pc'[x] = IF x = r THEN "found" ELSE pc[x]
    BY <1>1, <1>2 DEF Goto, TypeOK
  <2>2. \A x \in Readers : msg'[x] = IF x = r THEN m ELSE msg[x]
    BY <1>1, <1>2 DEF TypeOK
  <2>3. tsx'.role = tsx.role
    BY <1>1, <1>4 DEF Put
  <2>4. Workers \subseteq Threads /\ Readers \subseteq Threads /\ Apps \subseteq Threads
    BY DEF Threads
  <2> QED BY <1>1, <1>7, <2>1, <2>2, <2>3, <2>4 DEF InHand, IInv
<1>9. pc' \in [Threads -> {"idle", "terminate"} \cup Calling \cup Holding]
      /\ msg' \in [Readers -> Msgs \cup {NoMsg}]
  BY <1>1, <1>2 DEF TypeOK, Goto, Holding
<1> QED BY <1>1, <1>2, <1>4, <1>6, <1>8, <1>9, After DEF TypeOK

(* pjsip_tsx_recv_msg() gives back what the lookup took.                   *)
LEMMA ReceiveStep ==
  ASSUME IInv, ~freed, NEW r \in Readers, Receive(r)
  PROVE  IInv'
<1>1. PICK t \in StateHandler(Now, Rx(msg[r])) : Put(DecRef(t))
  BY DEF Receive
<1>2. pc[r] = "found"
  BY DEF Receive
<1>3. ValidEvent(tsx.role, Rx(msg[r]))
  BY <1>2 DEF ValidEvent, Rx, IInv, InHand
<1>4. Kept(Now, t)
  BY <1>1, <1>3, HandlerKept
<1> QED BY <1>1, <1>2, <1>4, ReaderEnds DEF Receive, Holding

(* The user's calls.                                                       *)
LEMMA UserStepKept ==
  ASSUME IInv, ~freed, NEW t, Kept(Now, t), UserStep(t)
  PROVE  IInv'
<1>1. down' \in BOOLEAN
  BY DEF UserStep, IInv, TypeOK
<1> QED BY <1>1, QuietStep DEF UserStep

(* The calls of the user.                                                  *)
LEMMA UserCallStep ==
  ASSUME IInv, ~freed,
         FirstRequest \/ (\E m \in Msgs : SendCall(m)) \/ RetransmitCall
         \/ StopRetransmitCall \/ SetTimeoutCall
  PROVE  IInv'
<1>1. Good(Now)
  BY Before DEF Owed
<1>2. CASE FirstRequest
  <2>1. PICK t \in StateHandler(Now, Rx(REQ)) : UserStep(t)
    BY <1>2 DEF FirstRequest
  <2>2. ValidEvent(tsx.role, Rx(REQ))
    BY <1>2 DEF FirstRequest, ValidEvent, Rx
  <2> QED BY <2>1, <2>2, HandlerKept, UserStepKept
<1>3. ASSUME NEW m \in Msgs, SendCall(m)
      PROVE  IInv'
  <2>1. PICK t \in StateHandler(Now, Tx(m)) : UserStep(t)
    BY <1>3 DEF SendCall
  <2>2. ValidEvent(tsx.role, Tx(m))
    BY <1>3 DEF SendCall, ValidEvent, Tx
  <2> QED BY <2>1, <2>2, HandlerKept, UserStepKept
<1>4. CASE RetransmitCall
  <2>1. PICK o \in SendMsg(Now, 180) : UserStep(o.t)
    BY <1>4 DEF RetransmitCall
  <2>2. 180 \in Msgs
    BY DEF Msgs, Responses
  <2> QED BY <1>1, <2>1, <2>2, SendMsgKept, UserStepKept
<1>5. CASE StopRetransmitCall
  BY <1>1, <1>5, CancelKept, UserStepKept DEF StopRetransmitCall, Entries
<1>6. CASE SetTimeoutCall
  <2>1. Kept(Now, ResetTimeout(Now, TIMEOUT_TIMER, "user"))
    BY <1>1, ResetKept DEF TIMEOUT_TIMER, Waits
  <2> QED BY <1>6, <2>1, UserStepKept DEF SetTimeoutCall
<1> QED BY <1>2, <1>3, <1>4, <1>5, <1>6

(* The user lets its reference go.                                         *)
LEMMA ReleaseHoldStep ==
  ASSUME IInv, ~freed, ReleaseHold
  PROVE  IInv'
<1> DEFINE n == One(held) + Cardinality(Holders)
<1>1. TypeOK /\ held /\ held' = FALSE /\ Put(DecRef(Now)) /\ UNCHANGED <<pc, ent, msg, down>>
  BY DEF IInv, ReleaseHold
<1>2. One(held) = 1 /\ One(held') = 0 /\ Holders' = Holders
  BY <1>1 DEF One, Holders
<1>3. Owed(DecRef(Now), n - 1) /\ DecRef(Now).role = tsx.role
  BY <1>2, Before, GivenBack
<1>4. Owed(DecRef(Now), One(held') + Cardinality(Holders'))
  BY <1>2, <1>3, Before
<1>5. InHand'
  <2>1. \A a \in Apps : pc'[a] # "terminate"
    BY <1>1 DEF ReleaseHold
  <2> QED BY <1>1, <1>3, <2>1 DEF InHand, IInv, Put
<1> QED BY <1>1, <1>3, <1>4, <1>5, After DEF TypeOK

(* The two halves of pjsip_tsx_terminate().                                *)
LEMMA AppStep ==
  ASSUME IInv, ~freed, NEW a \in Apps, App(a)
  PROVE  IInv'
<1>1. a \in Threads
  BY DEF Threads
<1>2. CASE TerminateCall(a)
  BY <1>1, <1>2, AboutToCall DEF TerminateCall
<1>3. CASE TerminateLocked(a)
  <2>1. UNAVAILABLE \in Codes
    BY DEF Codes
  <2>2. Kept(Now, Terminate(Now, UNAVAILABLE))
    BY <2>1, Before, TerminateKept DEF Owed
  <2> QED BY <1>1, <1>3, <2>2, PlainStep DEF TerminateLocked, Holding
<1> QED BY <1>2, <1>3 DEF App

(* The completions of sends.                                               *)
LEMMA TransportCallbackStep ==
  ASSUME IInv, ~freed, NEW s \in Senders, TransportCallback(s)
  PROVE  IInv'
<1> DEFINE d == Drop(Now, {"transport"})
           t == [d EXCEPT !.out = @ - 1]
           n == One(held) + Cardinality(Holders)
<1>1. s \in Threads /\ TypeOK /\ pc[s] = "idle" /\ UNCHANGED <<ent, msg, held, down>>
  BY DEF Threads, IInv, TransportCallback
<1>2. n \in Nat /\ Owed(Now, n) /\ Now.role = tsx.role
  BY Before
<1>3. Owed(d, n) /\ d.role = tsx.role
  BY <1>2, DropKept, KeptOwed DEF Owed, Kept
<1>4. d.out > 0
  BY <1>2, Before DEF Drop, Owed, Good, Transactions, TransportCallback
<1>5. Owed(t, n + 1) /\ t.role = tsx.role
  <2>1. Owed(t, n + 1)
    BY <1>2, <1>3, <1>4, HandedOver
  <2>2. t.role = d.role
    BY <1>3 DEF Owed, Good, Transactions
  <2> QED BY <1>3, <2>1, <2>2
<1>6. CASE Put(DecRef(t)) /\ Goto(s, "idle")
  <2>1. n + 1 \in Nat \ {0} /\ (n + 1) - 1 = n
    BY <1>2
  <2>2. Owed(DecRef(t), n) /\ DecRef(t).role = tsx.role
    <3>1. Owed(DecRef(t), (n + 1) - 1) /\ DecRef(t).role = t.role
      BY <1>5, <2>1, GivenBack
    <3> QED BY <1>5, <2>1, <3>1
  <2>3. Kept(Now, DecRef(t))
    BY <1>2, <2>2 DEF Kept, Owed
  <2> QED BY <1>1, <1>6, <2>3, PlainStep DEF Holding
<1>7. CASE Put(t) /\ Goto(s, "failed")
  <2>1. Cardinality(Holders') = Cardinality(Holders) + 1
    BY <1>1, <1>7, HoldersChange DEF TypeOK, Holding
  <2>2. Owed(t, One(held') + Cardinality(Holders'))
    BY <1>1, <1>5, <2>1, Before
  <2>3. InHand'
    BY <1>1, <1>5, <1>7, EmptyHanded DEF Put
  <2>4. pc' \in [Threads -> {"idle", "terminate"} \cup Calling \cup Holding]
    BY <1>1, <1>7 DEF TypeOK, Goto, Holding
  <2> QED BY <1>1, <1>5, <1>7, <2>2, <2>3, <2>4, After DEF TypeOK
<1> QED BY <1>6, <1>7 DEF TransportCallback

(* Posting the error of a send gives the send's reference back.            *)
LEMMA PostFailureStep ==
  ASSUME IInv, ~freed, NEW s \in Senders, PostFailure(s)
  PROVE  IInv'
<1>1. Kept(Now, PostTransportError(Now))
  BY Before, PostKept DEF Owed
<1>2. s \in Threads /\ TypeOK
  BY DEF Threads, IInv
<1> QED BY <1>1, <1>2, ThreadEnds DEF PostFailure, Holding, TypeOK

(* The unlocked test of send_msg_callback() changes nothing.               *)
LEMMA SendCallbackStep ==
  ASSUME IInv, ~freed, NEW s \in Senders, SendCallback(s)
  PROVE  IInv'
<1>1. PICK l \in Calling : Goto(s, l)
  BY DEF SendCallback, Calling
<1>2. s \in Threads
  BY DEF Threads
<1>3. l # "terminate"
  BY DEF Calling
<1> QED BY <1>1, <1>2, <1>3, AboutToCall DEF SendCallback

(* Its locked part keeps the references.                                   *)
LEMMA SendCallbackLockedStep ==
  ASSUME IInv, ~freed, NEW s \in Senders, SendCallbackLocked(s)
  PROVE  IInv'
<1>1. Good(Now) /\ s \in Threads
  BY Before DEF Owed, Threads
<1>2. PICK t : t \in SentOk(Now) \cup {SentError(Now), SentNext(Now)} /\ Put(t)
  BY DEF SendCallbackLocked
<1>3. Kept(Now, t)
  BY <1>1, <1>2, SentOkKept, SentErrorKept, SentNextKept
<1>4. pc[s] \notin Holding
  BY DEF SendCallbackLocked, Holding
<1> QED BY <1>1, <1>2, <1>3, <1>4, PlainStep DEF SendCallbackLocked, Holding

(* A disconnected transport posts its error.                               *)
LEMMA DisconnectStep ==
  ASSUME IInv, ~freed, Disconnect
  PROVE  IInv'
<1>1. Kept(Now, PostTransportError(Now))
  BY Before, PostKept DEF Owed
<1> QED BY <1>1, QuietStep DEF Disconnect

-----------------------------------------------------------------------------
(* Once the memory was given back, no step is left: every action needs     *)
(* something that FreedAlone excludes.                                     *)
LEMMA FreedStops == IInv /\ freed => ~Next
<1> SUFFICES ASSUME IInv, freed, Next PROVE FALSE
  OBVIOUS
<1>1. ~tsx.reg /\ ~held /\ tsx.heap = {} /\ tsx.out = 0 /\ Holders = {}
  BY FreedAlone
<1>2. \A th \in Threads : pc[th] \notin Holding
  BY <1>1 DEF Holders
<1>3. \A a \in Apps : pc[a] # "terminate"
  BY <1>1 DEF IInv, InHand
<1>4. ASSUME NEW w \in Workers PROVE ~Worker(w)
  BY <1>1, <1>2 DEF Worker, Pop, TimerCallback, DispatchTimer, TransportError,
     NotifyUser, Threads, Holding
<1>5. ASSUME NEW r \in Readers PROVE ~Reader(r)
  BY <1>1, <1>2 DEF Reader, Find, Receive, Threads, Holding
<1>6. ASSUME NEW a \in Apps PROVE ~App(a)
  BY <1>1, <1>3 DEF App, TerminateCall, TerminateLocked
<1>7. ~User
  BY <1>1 DEF User, FirstRequest, SendCall, RetransmitCall, StopRetransmitCall,
     SetTimeoutCall, ReleaseHold, UserStep
<1>8. ASSUME NEW s \in Senders PROVE ~Sender(s)
  BY <1>1, <1>2 DEF Sender, TransportCallback, PostFailure, SendCallback,
     SendCallbackLocked, Threads, Holding
<1>9. ~Disconnect
  BY DEF Disconnect
<1> QED BY <1>4, <1>5, <1>6, <1>7, <1>8, <1>9 DEF Next

(* The invariant is inductive.                                             *)
LEMMA Inductive == IInv /\ [Next]_vars => IInv'
<1> SUFFICES ASSUME IInv, [Next]_vars PROVE IInv'
  OBVIOUS
<1>1. CASE UNCHANGED vars
  <2>1. Holders' = Holders
    BY <1>1 DEF vars, Holders
  <2> QED BY <1>1, <2>1 DEF vars, IInv, TypeOK, Good, RefsAccounted, InHand, Own
<1>2. CASE Next
  <2>1. ~freed
    BY <1>2, FreedStops
  <2>2. ASSUME NEW w \in Workers, Worker(w) PROVE IInv'
    BY <2>1, <2>2, PopStep, TimerCallbackStep, DispatchTimerStep,
       TransportErrorStep, NotifyUserStep DEF Worker
  <2>3. ASSUME NEW r \in Readers, Reader(r) PROVE IInv'
    BY <2>1, <2>3, FindStep, ReceiveStep DEF Reader
  <2>4. CASE User
    BY <2>1, <2>4, UserCallStep, ReleaseHoldStep DEF User
  <2>5. ASSUME NEW s \in Senders, Sender(s) PROVE IInv'
    BY <2>1, <2>5, TransportCallbackStep, PostFailureStep, SendCallbackStep,
       SendCallbackLockedStep DEF Sender
  <2> QED BY <1>2, <2>1, <2>2, <2>3, <2>4, <2>5, AppStep, DisconnectStep DEF Next
<1> QED BY <1>1, <1>2

(* The invariant holds in every reachable state.                           *)
THEOREM Invariance == Spec => []IInv
  BY Initially, Inductive, PTL DEF Spec

(* Types, whatever the threads and the transport do: in particular the     *)
(* reference counter never goes below zero.                                *)
THEOREM TypeCorrect == Spec => []TypeOK
<1>1. IInv => TypeOK
  BY DEF IInv
<1> QED BY <1>1, Invariance, PTL

(* The group lock's counter is the sum of what refers to the transaction.  *)
THEOREM RefsCorrect == Spec => []RefsAccounted
<1>1. IInv => RefsAccounted
  BY DEF IInv
<1> QED BY <1>1, Invariance, PTL

(* tsx_on_destroy() runs only when no counted reference can still reach    *)
(* the transaction.                                                        *)
THEOREM FreedCorrect == Spec => []FreedUnreferenced
<1>1. IInv => FreedUnreferenced
  BY FreedAlone DEF FreedUnreferenced
<1> QED BY <1>1, Invariance, PTL

(* And afterwards no thread that goes by the counter touches it: each of   *)
(* its steps needs a reference, the heap or the hash table.  (Only         *)
(* send_msg_callback() goes by the transmit data instead; its guard says   *)
(* that the model leaves out what it does to a freed transaction.)         *)
THEOREM FreedForGood == Spec => [][~freed]_vars
<1>1. IInv /\ [Next]_vars => [~freed]_vars
  BY FreedStops
<1> QED BY <1>1, Invariance, PTL DEF Spec

-----------------------------------------------------------------------------
(* The status code: Ended, of SipTransactionProofs, is kept by every step. *)

(* The counters, the heap and the ids of the entries are not part of it.   *)
LEMMA CountersSteady ==
  ASSUME NEW t \in Transactions, NEW e
  PROVE  /\ Steady(t, AddRef(t)) /\ Steady(t, DecRef(t))
         /\ Steady(t, [t EXCEPT !.heap = @ \ {e}])
         /\ Steady(t, [t EXCEPT !.out = @ - 1])
         /\ Steady(t, [t EXCEPT !.id[e] = TIMER_INACTIVE])
  BY DEF Steady, Transactions, AddRef, DecRef

(* The transaction a step starts from.                                     *)
LEMMA EndedBefore ==
  ASSUME IInv, Ended(tsx)
  PROVE  Ended(Now) /\ Good(Now) /\ Now \in Transactions /\ Now.role = tsx.role
<1>1. Good(Now) /\ Now.role = tsx.role
  BY Before DEF Owed
<1>2. tsx \in Transactions
  BY DEF IInv, TypeOK
<1>3. Steady(tsx, Now)
  BY <1>2 DEF Steady, Now, Transactions
<1> QED BY <1>1, <1>3, SteadySafe DEF Safe, Good

(* And the one it leaves, with or without a reference given back.          *)
LEMMA EndedAfter ==
  ASSUME NEW t \in Transactions, Ended(t), Put(t) \/ Put(DecRef(t)) \/ Put(AddRef(t))
  PROVE  Ended(tsx')
<1>1. Steady(t, AddRef(t)) /\ Steady(t, DecRef(t))
  BY CountersSteady
<1>2. Ended(AddRef(t)) /\ Ended(DecRef(t))
  BY <1>1, SteadySafe DEF Safe
<1> QED BY <1>2 DEF Put

(* A handler ends nothing without a status, whichever event it is given.   *)
LEMMA HandlerEnded ==
  ASSUME IInv, Ended(tsx), NEW ev, ValidEvent(tsx.role, ev),
         NEW t \in StateHandler(Now, ev), Put(t) \/ Put(DecRef(t))
  PROVE  Ended(tsx')
<1>1. Ended(t)
  BY EndedBefore, StateHandlerEnded
<1>2. t \in Transactions
  BY HandlerKept DEF Kept, Good
<1> QED BY <1>1, <1>2, EndedAfter

(* Nor does an operation that is safe for it.                              *)
LEMMA SafeEnded ==
  ASSUME IInv, Ended(tsx), NEW t, Good(t), Safe(Now, t), Put(t) \/ Put(DecRef(t))
  PROVE  Ended(tsx')
<1>1. Ended(t) /\ t \in Transactions
  BY EndedBefore DEF Safe, Good
<1> QED BY <1>1, EndedAfter

(* The steps of a worker.                                                  *)
LEMMA WorkerEnded ==
  ASSUME IInv, Ended(tsx), NEW w \in Workers, Worker(w)
  PROVE  Ended(tsx')
<1>1. Ended(Now) /\ Good(Now) /\ Now \in Transactions /\ Now.role = tsx.role
  BY EndedBefore
<1>2. ASSUME NEW e \in Entries, Pop(w, e)
      PROVE  Ended(tsx')
  <2> DEFINE u == [Now EXCEPT !.heap = @ \ {e}]
  <2>1. u \in Transactions
    BY <1>1 DEF Transactions
  <2>2. Steady(Now, u) /\ Put(u)
    BY <1>1, <1>2, CountersSteady DEF Pop
  <2> QED BY <1>1, <2>1, <2>2, SteadySafe, EndedAfter DEF Safe
<1>3. CASE TimerCallback(w)
  <2> DEFINE u == [Now EXCEPT !.id[ent[w]] = TIMER_INACTIVE]
  <2>1. u \in Transactions
    <3>1. ent[w] \in Entries
      BY <1>3 DEF TimerCallback, IInv, InHand
    <3> QED BY <1>1, <3>1 DEF Transactions, TIMER_INACTIVE
  <2>2. Steady(Now, u)
    BY <1>1, CountersSteady
  <2>3. Put(u) \/ Put(DecRef(u))
    BY <1>3 DEF TimerCallback
  <2> QED BY <1>1, <2>1, <2>2, <2>3, SteadySafe, EndedAfter DEF Safe
<1>4. CASE DispatchTimer(w)
  <2>1. PICK t \in StateHandler(Now, Timer(ent[w])) : Put(DecRef(t))
    BY <1>4 DEF DispatchTimer
  <2>2. ent[w] \in Entries
    BY <1>4 DEF DispatchTimer, IInv, InHand
  <2>3. ValidEvent(tsx.role, Timer(ent[w]))
    BY <2>2 DEF ValidEvent, Timer
  <2> QED BY <2>1, <2>3, HandlerEnded
<1>5. CASE TransportError(w)
  <2> DEFINE p == [Now EXCEPT !.tp = FALSE]
             c == IF Now.code < 200 THEN UNAVAILABLE ELSE Now.code
             t == [Now EXCEPT !.tp = FALSE, !.code = IF @ < 200 THEN UNAVAILABLE ELSE @]
  <2>1. c \in Codes /\ c >= 200
    <3>1. UNAVAILABLE \in Codes /\ UNAVAILABLE >= 200
      BY DEF Codes, UNAVAILABLE
    <3>2. Now.code \in Codes
      BY <1>1 DEF Transactions
    <3>3. \A x \in Codes : x \in Nat
      BY DEF Codes, TIMEOUT, UNAVAILABLE, Responses
    <3>4. CASE Now.code < 200
      BY <3>1, <3>4
    <3>5. CASE ~(Now.code < 200)
      <4>1. Now.code \in Nat
        BY <3>2, <3>3
      <4>2. Now.code >= 200
        BY <3>5, <4>1
      <4> QED BY <3>2, <3>5, <4>2
    <3> QED BY <3>4, <3>5
  <2>2. Good(p)
    BY <1>1, TpKept DEF Kept
  <2>3. Kept(p, [p EXCEPT !.code = c])
    BY <2>1, <2>2, CodeKept
  <2>4. [p EXCEPT !.code = c] = t /\ t.code = c
    BY <1>1 DEF Transactions
  <2>5. Good(t) /\ t.code >= 200
    BY <2>1, <2>3, <2>4 DEF Kept
  <2>6. Put(SetStateNoNotify(t, TERMINATED))
    BY <1>5 DEF TransportError
  <2> HIDE DEF t
  <2>7. Ended(SetStateNoNotify(t, TERMINATED))
    BY <2>5, ErrorEnded
  <2> QED BY <2>6, <2>7 DEF Put
<1>6. CASE NotifyUser(w)
  <2>1. Good(Notify(Now)) /\ Safe(Now, Notify(Now))
    BY <1>1, NotifyKept, TimersSteady, SteadySafe DEF Kept
  <2> QED BY <1>6, <2>1, SafeEnded DEF NotifyUser
<1> QED BY <1>2, <1>3, <1>4, <1>5, <1>6 DEF Worker

(* The steps of a reader.                                                  *)
LEMMA ReaderEnded ==
  ASSUME IInv, Ended(tsx), NEW r \in Readers, Reader(r)
  PROVE  Ended(tsx')
<1>1. ASSUME NEW m \in Msgs, Find(r, m)
      PROVE  Ended(tsx')
  BY <1>1, EndedBefore, EndedAfter DEF Find
<1>2. CASE Receive(r)
  <2>1. PICK t \in StateHandler(Now, Rx(msg[r])) : Put(DecRef(t))
    BY <1>2 DEF Receive
  <2>2. ValidEvent(tsx.role, Rx(msg[r]))
    BY <1>2 DEF Receive, ValidEvent, Rx, IInv, InHand
  <2> QED BY <2>1, <2>2, HandlerEnded
<1> QED BY <1>1, <1>2 DEF Reader

(* The calls of the user; pjsip_tsx_terminate() brings its status along.   *)
LEMMA CallsEnded ==
  ASSUME IInv, Ended(tsx), User \/ \E a \in Apps : App(a)
  PROVE  Ended(tsx')
<1>1. Ended(Now) /\ Good(Now) /\ Now \in Transactions /\ Now.role = tsx.role
  BY EndedBefore
<1>2. CASE FirstRequest
  <2>1. PICK t \in StateHandler(Now, Rx(REQ)) : Put(t)
    BY <1>2 DEF FirstRequest, UserStep
  <2>2. ValidEvent(tsx.role, Rx(REQ))
    BY <1>2 DEF FirstRequest, ValidEvent, Rx
  <2> QED BY <2>1, <2>2, HandlerEnded
<1>3. ASSUME NEW m \in Msgs, SendCall(m)
      PROVE  Ended(tsx')
  <2>1. PICK t \in StateHandler(Now, Tx(m)) : Put(t)
    BY <1>3 DEF SendCall, UserStep
  <2>2. ValidEvent(tsx.role, Tx(m))
    BY <1>3 DEF SendCall, ValidEvent, Tx
  <2> QED BY <2>1, <2>2, HandlerEnded
<1>4. CASE RetransmitCall
  <2>1. PICK o \in SendMsg(Now, 180) : Put(o.t)
    BY <1>4 DEF RetransmitCall, UserStep
  <2>2. 180 \in Msgs
    BY DEF Msgs, Responses
  <2>3. Good(o.t) /\ Safe(Now, o.t)
    BY <1>1, <2>1, <2>2, SendMsgKept, SendMsgSafe DEF Kept
  <2> QED BY <2>1, <2>3, SafeEnded
<1>5. CASE StopRetransmitCall
  <2> DEFINE u == CancelTimer(Now, "rt")
  <2>1. Good(u) /\ Safe(Now, u)
    BY <1>1, CancelKept, TimersSteady, SteadySafe DEF Kept, Entries
  <2>2. Put(u)
    BY <1>5 DEF StopRetransmitCall, UserStep
  <2> QED BY <2>1, <2>2, SafeEnded
<1>6. CASE SetTimeoutCall
  <2> DEFINE u == ResetTimeout(Now, TIMEOUT_TIMER, "user")
  <2>1. Good(u)
    BY <1>1, ResetKept DEF Kept, TIMEOUT_TIMER, Waits
  <2>2. Safe(Now, u) /\ Put(u)
    BY <1>1, <1>6, TimersSteady, SteadySafe DEF SetTimeoutCall, UserStep
  <2> QED BY <2>1, <2>2, SafeEnded
<1>7. CASE ReleaseHold
  BY <1>1, <1>7, EndedAfter DEF ReleaseHold
<1>8. ASSUME NEW a \in Apps, App(a)
      PROVE  Ended(tsx')
  <2>1. CASE TerminateCall(a)
    BY <2>1 DEF TerminateCall
  <2>2. CASE TerminateLocked(a)
    BY <1>1, <2>2, TerminateSafe DEF TerminateLocked, Put
  <2> QED BY <1>8, <2>1, <2>2 DEF App
<1> QED BY <1>2, <1>3, <1>4, <1>5, <1>6, <1>7, <1>8 DEF User

(* The completions of sends, and the transport's end.                      *)
LEMMA SenderEnded ==
  ASSUME IInv, Ended(tsx), Disconnect \/ \E s \in Senders : Sender(s)
  PROVE  Ended(tsx')
<1>1. Ended(Now) /\ Good(Now) /\ Now \in Transactions
  BY EndedBefore
<1>2. Good(PostTransportError(Now)) /\ Safe(Now, PostTransportError(Now))
  BY <1>1, PostKept, TimersSteady, SteadySafe DEF Kept
<1>3. ASSUME NEW s \in Senders, TransportCallback(s)
      PROVE  Ended(tsx')
  <2> DEFINE d == Drop(Now, {"transport"})
             u == [d EXCEPT !.out = @ - 1]
  <2>1. d \in Transactions /\ Steady(Now, d)
    BY <1>1, DropKept, TimersSteady DEF Kept, Good
  <2>2. Steady(d, u)
    BY <2>1, CountersSteady
  <2>3. u \in Transactions
    <3>1. d.out = tsx.out /\ tsx.out > 0
      BY <1>1, <1>3, Before DEF Drop, Transactions, TransportCallback
    <3>2. d.out - 1 \in Nat
      BY <2>1, <3>1 DEF Transactions
    <3> QED BY <2>1, <3>2 DEF Transactions
  <2>4. Put(u) \/ Put(DecRef(u))
    BY <1>3 DEF TransportCallback
  <2>5. Ended(u)
    BY <1>1, <2>1, <2>2, SteadySafe DEF Safe
  <2> QED BY <2>3, <2>4, <2>5, EndedAfter
<1>4. ASSUME NEW s \in Senders, PostFailure(s)
      PROVE  Ended(tsx')
  BY <1>2, <1>4, SafeEnded DEF PostFailure
<1>5. ASSUME NEW s \in Senders, SendCallback(s)
      PROVE  Ended(tsx')
  BY <1>5 DEF SendCallback
<1>6. ASSUME NEW s \in Senders, SendCallbackLocked(s)
      PROVE  Ended(tsx')
  <2>1. PICK t : t \in SentOk(Now) \cup {SentError(Now), SentNext(Now)} /\ Put(t)
    BY <1>6 DEF SendCallbackLocked
  <2>2. Good(t) /\ Safe(Now, t)
    BY <1>1, <2>1, SentOkKept, SentErrorKept, SentNextKept,
       SentOkSafe, SentErrorSafe, SentNextSafe DEF Kept
  <2> QED BY <2>1, <2>2, SafeEnded
<1>7. CASE Disconnect
  BY <1>2, <1>7, SafeEnded DEF Disconnect
<1> QED BY <1>3, <1>4, <1>5, <1>6, <1>7 DEF Sender

(* Whatever ended the transaction, on whichever thread, a user that reads  *)
(* status_code from COMPLETED on finds a final one.                        *)
THEOREM StatusFinal == Spec => []FinalStatus
<1>1. Init => Ended(tsx)
  BY DEF Init, NewTsxs, NewTsx, Ended, NULL, COMPLETED
<1>2. IInv /\ Ended(tsx) /\ [Next]_vars => Ended(tsx)'
  <2> SUFFICES ASSUME IInv, Ended(tsx), [Next]_vars PROVE Ended(tsx')
    OBVIOUS
  <2>1. CASE UNCHANGED vars
    BY <2>1 DEF vars
  <2>2. CASE Next
    BY <2>2, WorkerEnded, ReaderEnded, CallsEnded, SenderEnded DEF Next
  <2> QED BY <2>1, <2>2
<1>3. Ended(tsx) => FinalStatus
  BY DEF Ended, FinalStatus
<1> QED BY <1>1, <1>2, <1>3, Invariance, PTL DEF Spec

-----------------------------------------------------------------------------
(* What holds between the steps of the threads, whatever the transport and *)
(* the user do: the transaction is sound and saved what it repeats, a      *)
(* stateless send is answered by one thread at a time and stays pending    *)
(* until then, and a thread is only at a place the environment led it to.  *)

(* At most one completion of a stateless send is under way, and a live     *)
(* transaction waits for it.                                               *)
OneCall == /\ \A s, x \in Senders : pc[s] \in Calling /\ pc[x] \in Calling => s = x
           /\ \A s \in Senders : pc[s] \in Calling /\ Live(tsx) => tsx.tx

(* Transport errors, failed sends and calls to terminate.                  *)
Places == \A th \in Threads :
    /\ pc[th] \in {"error", "notify", "failed"} => LateErrors
    /\ pc[th] = "sent_error" => "fail" \in Faults
    /\ pc[th] = "terminate" => "terminate" \in AppOps

TInv == Sound(tsx) /\ Saved(tsx) /\ Tame(tsx) /\ OneCall /\ Places

(* Nothing sets the state but the handlers: no error is posted late, and   *)
(* the user does not end the transaction itself.                           *)
Undisturbed == ~LateErrors /\ "terminate" \notin AppOps

(* A transaction that ends a second time: a thread that tested the state   *)
(* before another one destroyed it.  Nothing finds it any more.            *)
Revived(t, u) == t.state = DESTROYED /\ u.state = TERMINATED /\ ~t.reg /\ ~u.reg

(* What every step leaves.                                                 *)
Keeps(t, u) ==
    /\ u.role = t.role /\ u.invite = t.invite
    /\ Sound(u) /\ Saved(u) /\ (Tame(t) => Tame(u))
    /\ Acked(t, u)
    /\ Edge(t, u) \/ (~Undisturbed /\ Revived(t, u))

(* What every step leaves unless the user may not yet have heard of an end *)
(* that a thread brought about, or hear of it twice.                       *)
Tidy(t, u) ==
    "fail" \notin Faults /\ Undisturbed /\ Briefed(t) => Briefed(u)

(* The timer that ends a state, but for a late transport error that has    *)
(* taken its place and is dropped without destroying the transaction.      *)
ArmedOrLate == Armed \/ (LateErrors /\ tsx.state = TERMINATED)

(* The workers that have another entry than e in hand keep it.             *)
Unhanded(e) == \A w \in Workers :
    ent[w] # e /\ pc[w] \in {"popped", "dispatch", "error"} =>
        ent'[w] = ent[w] /\ pc'[w] \in {"popped", "dispatch", "error"}

(* What a step shows of the timers.                                        *)
Waited == /\ ArmedOrLate => ArmedOrLate'
          /\ "async" \notin Faults /\ "stop" \notin AppOps /\ Resent => Resent'

(* All a step shows.                                                       *)
Stepped == /\ Keeps(tsx, tsx') /\ Tidy(tsx, tsx') /\ Waited
           /\ OneCall' /\ Places'

(* Landing is keeping, and is tidy.                                        *)
LEMMA LandsKeeps ==
  ASSUME NEW t, NEW e, NEW u, Lands(t, e, u)
  PROVE  Keeps(t, u) /\ Tidy(t, u)
  BY DEF Lands, Keeps, Tidy

(* A transaction does not come back to life.                               *)
LEMMA NoReturn ==
  ASSUME NEW t, Good(t), NEW u, Edge(t, u) \/ Revived(t, u), Live(u)
  PROVE  Live(t)
  BY DEF Edge, Revived, Live, Good, Transactions, TERMINATED, DESTROYED, NULL

(* The references and what went over the wire before do not matter.        *)
LEMMA LandsBetween ==
  ASSUME IInv, NEW e, NEW t \in Transactions, Lands(Now, e, t),
         tsx' = t \/ tsx' = DecRef(t) \/ tsx' = AddRef(t)
  PROVE  Lands(tsx, e, tsx') /\ (Pends(Now, t) => Pends(tsx, tsx'))
<1> DEFINE u == tsx'
<1>1. tsx \in Transactions
  BY DEF IInv, TypeOK
<1>2. /\ Now.role = tsx.role /\ Now.invite = tsx.invite /\ Now.reliable = tsx.reliable
      /\ Now.state = tsx.state /\ Now.flags = tsx.flags /\ Now.tp = tsx.tp
      /\ Now.out = tsx.out /\ Now.reg = tsx.reg /\ Now.user = tsx.user
      /\ Now.told = tsx.told /\ Now.terms = tsx.terms /\ Now.heap = tsx.heap
      /\ Now.id = tsx.id /\ Now.tx = tsx.tx
  BY <1>1 DEF Now, Transactions
<1>3. /\ u.role = t.role /\ u.invite = t.invite /\ u.reliable = t.reliable
      /\ u.state = t.state /\ u.flags = t.flags /\ u.tp = t.tp /\ u.last = t.last
      /\ u.out = t.out /\ u.reg = t.reg /\ u.user = t.user
      /\ u.told = t.told /\ u.terms = t.terms /\ u.heap = t.heap
      /\ u.id = t.id /\ u.tx = t.tx /\ u.wire = t.wire
  BY DEF DecRef, AddRef, Transactions
<1> HIDE DEF u
<1>4. /\ Tame(tsx) <=> Tame(Now)
      /\ Briefed(tsx) <=> Briefed(Now)
      /\ NeedsTimer(tsx) <=> NeedsTimer(Now)
      /\ Repeats(tsx) <=> Repeats(Now)
      /\ Running(tsx) <=> Running(Now)
      /\ Live(tsx) <=> Live(Now)
  BY <1>2 DEF Tame, Briefed, Steadfast, Counted, NeedsTimer, Repeats, Running, Live
<1>5. /\ Tame(t) <=> Tame(u)
      /\ Briefed(t) <=> Briefed(u)
      /\ NeedsTimer(t) <=> NeedsTimer(u)
      /\ Repeats(t) <=> Repeats(u)
      /\ Running(t) <=> Running(u)
      /\ Live(t) <=> Live(u)
      /\ Saved(t) <=> Saved(u)
  BY <1>3 DEF Tame, Briefed, Steadfast, Counted, NeedsTimer, Repeats, Running, Live, Saved
<1>6. Sound(t) => Sound(u)
  BY <1>3 DEF Sound, Fit, Clean, Rooted, Marked, Live
<1>7. Edge(Now, t) => Edge(tsx, u)
  BY <1>2, <1>3, <1>4 DEF Edge
<1>8. Acked(Now, t) => Acked(tsx, u)
  BY <1>2, <1>3 DEF Acked
<1>9. Timers(Now, e, t) => Timers(tsx, e, u)
  BY <1>2, <1>3, <1>4, <1>5 DEF Timers
<1>10. Lands(tsx, e, u)
  BY <1>2, <1>3, <1>4, <1>5, <1>6, <1>7, <1>8, <1>9 DEF Lands
<1>11. Pends(Now, t) => Pends(tsx, u)
  BY <1>2, <1>3, <1>5 DEF Pends
<1> QED BY <1>10, <1>11 DEF u

(* The transaction a step starts from.                                     *)
LEMMA NowSound ==
  ASSUME IInv, Sound(tsx), Saved(tsx)
  PROVE  Good(Now) /\ Sound(Now) /\ Saved(Now) /\ Now.role = tsx.role
<1>1. tsx \in Transactions /\ Good(Now)
  BY Before DEF IInv, TypeOK, Owed
<1>2. /\ Now.role = tsx.role /\ Now.state = tsx.state /\ Now.flags = tsx.flags
      /\ Now.tp = tsx.tp /\ Now.out = tsx.out /\ Now.reg = tsx.reg /\ Now.user = tsx.user
      /\ Now.told = tsx.told /\ Now.tx = tsx.tx /\ Now.last = tsx.last
  BY <1>1 DEF Now, Transactions
<1>3. Sound(Now) /\ Saved(Now)
  BY <1>2 DEF Sound, Fit, Clean, Rooted, Marked, Live, Saved
<1> QED BY <1>1, <1>2, <1>3

(* The timers, for a thread that has e in hand or none.                    *)
LEMMA TimersWaited ==
  ASSUME IInv, IInv', NEW e, Edge(tsx, tsx'), Timers(tsx, e, tsx'), Unhanded(e)
  PROVE  Waited
<1>1. tsx.state \in NULL .. DESTROYED
  BY DEF IInv, TypeOK, Transactions
<1>2. ASSUME NEW x \in Entries, x # e, Handled(x), x \in tsx.heap => x \in tsx'.heap
      PROVE  Handled(x)'
  BY <1>2 DEF Handled, Unhanded
<1>3. ASSUME ArmedOrLate PROVE ArmedOrLate'
  <2> SUFFICES ASSUME Timed' PROVE Handled("to")' \/ (LateErrors /\ tsx'.state = TERMINATED)
    BY DEF ArmedOrLate, Armed
  <2>1. NeedsTimer(tsx')
    BY DEF Timed, NeedsTimer
  <2>2. CASE "to" \in tsx'.heap
    BY <2>2 DEF Handled
  <2>3. CASE e # "to" /\ NeedsTimer(tsx) /\ ("to" \in tsx.heap => "to" \in tsx'.heap)
    <3>1. Timed
      BY <2>3 DEF Timed, NeedsTimer
    <3>2. CASE Handled("to")
      BY <1>2, <2>3, <3>2 DEF Entries
    <3>3. CASE LateErrors /\ tsx.state = TERMINATED
      <4>1. tsx'.state # DESTROYED
        BY <2>1 DEF NeedsTimer, CALLING, PROCEEDING, COMPLETED, CONFIRMED, TERMINATED, DESTROYED
      <4>2. tsx'.state = TERMINATED
        BY <3>3, <4>1 DEF Edge, Live, TERMINATED, DESTROYED
      <4> QED BY <3>3, <4>2
    <3> QED BY <1>3, <3>1, <3>2, <3>3 DEF ArmedOrLate, Armed
  <2> QED BY <2>1, <2>2, <2>3 DEF Timers
<1>4. ASSUME Resent PROVE Resent'
  <2> SUFFICES ASSUME Repeats(tsx')
               PROVE  (Handled("rt") \/ {"transport", "resched"} \subseteq tsx.flags)'
    BY DEF Resent, Repeats
  <2>1. ~tsx'.reliable
    BY DEF Repeats
  <2>2. CASE Running(tsx')
    BY <2>1, <2>2 DEF Running, Handled
  <2>3. CASE e # "rt" /\ Repeats(tsx) /\ (Running(tsx) => Running(tsx'))
    <3>1. Handled("rt") \/ {"transport", "resched"} \subseteq tsx.flags
      BY <1>4, <2>3 DEF Resent, Repeats
    <3>2. CASE Running(tsx)
      BY <2>2, <2>3, <3>2
    <3>3. CASE ~Running(tsx)
      <4>1. "rt" \notin tsx.heap /\ Handled("rt")
        BY <3>1, <3>3 DEF Running
      <4> QED BY <1>2, <2>3, <4>1 DEF Entries
    <3> QED BY <3>2, <3>3
  <2> QED BY <2>2, <2>3 DEF Timers
<1> QED BY <1>3, <1>4 DEF Waited

(* Threads that move between their loop and a handler.                     *)
LEMMA PlacesKept ==
  ASSUME IInv, OneCall, Places, Keeps(tsx, tsx'), Pends(tsx, tsx'), NEW th,
         NEW l \in {"idle", "popped", "dispatch", "found", "error", "notify", "failed", "terminate"},
         Goto(th, l) \/ UNCHANGED pc,
         l \in {"error", "notify", "failed"} => LateErrors,
         l = "terminate" => "terminate" \in AppOps
  PROVE  OneCall' /\ Places'
<1>1. \A x \in Threads : pc'[x] = pc[x] \/ (pc'[x] = l)
  BY DEF Goto, IInv, TypeOK
<1>2. Senders \subseteq Threads /\ l \notin Calling /\ l # "sent_error"
  BY DEF Threads, Calling
<1>3. Live(tsx') => Live(tsx)
  BY NoReturn DEF Keeps, IInv
<1>4. \A s \in Senders : pc'[s] \in Calling => pc[s] \in Calling
  BY <1>1, <1>2
<1>5. OneCall'
  BY <1>3, <1>4 DEF OneCall, Pends
<1>6. Places'
  BY <1>1, <1>2 DEF Places
<1> QED BY <1>5, <1>6

(* A step that runs a handler, or anything else that lands.                *)
LEMMA LandedStep ==
  ASSUME IInv, IInv', TInv, NEW e, NEW t \in Transactions, Lands(Now, e, t), Pends(Now, t),
         tsx' = t \/ tsx' = DecRef(t) \/ tsx' = AddRef(t),
         NEW th, NEW l \in {"idle", "found"}, Goto(th, l) \/ UNCHANGED pc, Unhanded(e)
  PROVE  Stepped
<1>1. Lands(tsx, e, tsx') /\ Pends(tsx, tsx')
  BY LandsBetween
<1>2. Keeps(tsx, tsx') /\ Tidy(tsx, tsx')
  BY <1>1, LandsKeeps
<1>3. OneCall' /\ Places'
  BY <1>1, <1>2, PlacesKept DEF TInv
<1>4. Waited
  BY <1>1, TimersWaited DEF Lands
<1> QED BY <1>2, <1>3, <1>4 DEF Stepped

(* Every worker keeps what it has, when a thread that is none moves.       *)
LEMMA OthersUnhanded ==
  ASSUME IInv, NEW th, th \notin Workers, NEW l, Goto(th, l) \/ UNCHANGED pc, UNCHANGED ent
  PROVE  Unhanded("none")
<1>1. \A x \in Threads : x # th => pc'[x] = pc[x]
  BY DEF Goto, IInv, TypeOK
<1>2. \A w \in Workers : w \in Threads /\ w # th
  BY DEF Threads
<1> QED BY <1>1, <1>2 DEF Unhanded

(* A worker that is done has handled its entry.                            *)
LEMMA DoneUnhanded ==
  ASSUME IInv, NEW w \in Workers, WorkerDone(w)
  PROVE  Unhanded(ent[w])
<1>1. \A x \in Threads : x # w => pc'[x] = pc[x]
  BY DEF WorkerDone, Goto, IInv, TypeOK
<1>2. \A x \in Workers : x \in Threads /\ (x # w => ent'[x] = ent[x])
  BY DEF WorkerDone, Threads, IInv, TypeOK
<1> QED BY <1>1, <1>2 DEF Unhanded

-----------------------------------------------------------------------------
(* What each thread leaves.  A worker that takes an entry, whose id the    *)
(* next step reads.                                                        *)
LEMMA PopStepped ==
  ASSUME IInv, IInv', TInv, NEW w \in Workers, NEW e \in Entries, Pop(w, e)
  PROVE  Stepped
<1> DEFINE u == [Now EXCEPT !.heap = @ \ {e}]
<1>1. /\ tsx' = u /\ Goto(w, "popped") /\ pc[w] = "idle" /\ e \in tsx.heap
      /\ ent' = [ent EXCEPT ![w] = e] /\ w \in Threads
  BY DEF Pop, Put, Threads
<1>2. tsx \in Transactions
  BY DEF IInv, TypeOK
<1>3. /\ u.role = tsx.role /\ u.invite = tsx.invite /\ u.reliable = tsx.reliable
      /\ u.state = tsx.state /\ u.flags = tsx.flags /\ u.tp = tsx.tp /\ u.last = tsx.last
      /\ u.out = tsx.out /\ u.reg = tsx.reg /\ u.user = tsx.user
      /\ u.told = tsx.told /\ u.terms = tsx.terms /\ u.heap = tsx.heap \ {e}
      /\ u.id = tsx.id /\ u.tx = tsx.tx
  BY <1>2 DEF Now, Transactions
<1> HIDE DEF u
<1>4. Sound(u) /\ Saved(u) /\ Tame(u)
  BY <1>3 DEF TInv, Sound, Fit, Clean, Rooted, Marked, Live, Saved, Tame
<1>5. Edge(tsx, u) /\ Acked(tsx, u) /\ Pends(tsx, u)
  BY <1>3 DEF Edge, Acked, Pends, Live, COMPLETED
<1>6. Keeps(tsx, tsx')
  BY <1>1, <1>3, <1>4, <1>5 DEF Keeps
<1>7. Tidy(tsx, tsx')
  BY <1>1, <1>3 DEF Tidy, Briefed, Steadfast, Counted, Live
<1>8. OneCall' /\ Places'
  BY <1>1, <1>5, <1>6, PlacesKept DEF TInv
<1>9. \A x \in Entries : Handled(x) => Handled(x)'
  <2> SUFFICES ASSUME NEW x \in Entries, Handled(x) PROVE Handled(x)'
    OBVIOUS
  <2>1. \A v \in Workers : /\ pc'[v] = IF v = w THEN "popped" ELSE pc[v]
                           /\ ent'[v] = IF v = w THEN e ELSE ent[v]
    BY <1>1 DEF Goto, IInv, TypeOK, Threads
  <2>2. CASE x \in tsx.heap
    BY <1>1, <1>3, <2>1, <2>2 DEF Handled
  <2>3. CASE x \notin tsx.heap
    BY <1>1, <1>3, <2>1, <2>3 DEF Handled
  <2> QED BY <2>2, <2>3
<1>10. Waited
  BY <1>1, <1>3, <1>9 DEF Waited, ArmedOrLate, Armed, Timed, Resent, Entries
<1> QED BY <1>6, <1>7, <1>8, <1>10 DEF Stepped

(* A worker that reads the id.  An error that comes after the end takes    *)
(* the place of the timer that would have destroyed the transaction.       *)
LEMMA TimerCallbackStepped ==
  ASSUME IInv, IInv', TInv, NEW w \in Workers, TimerCallback(w)
  PROVE  Stepped
<1> DEFINE u == [Now EXCEPT !.id[ent[w]] = TIMER_INACTIVE]
<1>1. /\ tsx' = u \/ tsx' = DecRef(u)
      /\ ent[w] \in Entries /\ tsx \in Transactions /\ w \in Threads /\ pc[w] = "popped"
  BY DEF TimerCallback, Put, Threads, IInv, TypeOK, InHand
<1>2. /\ u.role = tsx.role /\ u.invite = tsx.invite /\ u.reliable = tsx.reliable
      /\ u.state = tsx.state /\ u.flags = tsx.flags /\ u.tp = tsx.tp /\ u.last = tsx.last
      /\ u.out = tsx.out /\ u.reg = tsx.reg /\ u.user = tsx.user
      /\ u.told = tsx.told /\ u.terms = tsx.terms /\ u.heap = tsx.heap
      /\ u.tx = tsx.tx /\ u.id = [tsx.id EXCEPT ![ent[w]] = TIMER_INACTIVE]
      /\ u \in Transactions
  <2>1. Now \in Transactions
    BY Before DEF Owed, Good
  <2>2. u \in Transactions
    BY <1>1, <2>1 DEF Transactions, TIMER_INACTIVE
  <2> QED BY <1>1, <2>2 DEF Now, Transactions
<1>3. \A x \in Entries : u.id[x] \in {tsx.id[x], TIMER_INACTIVE}
  BY <1>1, <1>2 DEF Transactions
<1> HIDE DEF u
<1>4. /\ tsx'.role = u.role /\ tsx'.invite = u.invite /\ tsx'.reliable = u.reliable
      /\ tsx'.state = u.state /\ tsx'.flags = u.flags /\ tsx'.tp = u.tp /\ tsx'.last = u.last
      /\ tsx'.out = u.out /\ tsx'.reg = u.reg /\ tsx'.user = u.user
      /\ tsx'.told = u.told /\ tsx'.terms = u.terms /\ tsx'.heap = u.heap
      /\ tsx'.tx = u.tx /\ tsx'.id = u.id
  BY <1>1, <1>2 DEF DecRef, Transactions
<1>5. Sound(tsx') /\ Saved(tsx')
  BY <1>2, <1>4 DEF TInv, Sound, Fit, Clean, Rooted, Marked, Live, Saved
<1>6. Tame(tsx')
  BY <1>2, <1>3, <1>4 DEF TInv, Tame, TIMER_INACTIVE, TRANSPORT_ERR_TIMER
<1>7. Edge(tsx, tsx') /\ Acked(tsx, tsx') /\ Pends(tsx, tsx')
  BY <1>2, <1>4 DEF Edge, Acked, Pends, Live, COMPLETED
<1>8. Keeps(tsx, tsx')
  BY <1>2, <1>4, <1>5, <1>6, <1>7 DEF Keeps
<1>9. Tidy(tsx, tsx')
  BY <1>2, <1>4 DEF Tidy, Briefed, Steadfast, Counted, Live
<1>10. tsx.id[ent[w]] = TRANSPORT_ERR_TIMER => LateErrors
  BY <1>1 DEF TInv, Tame
<1>11. CASE UNCHANGED ent /\ (Goto(w, "dispatch") \/ (Goto(w, "error") /\ LateErrors))
  <2>1. OneCall' /\ Places'
    BY <1>1, <1>7, <1>8, <1>11, PlacesKept DEF TInv
  <2>2. \A v \in Workers : /\ pc'[v] = pc[v] \/ (v = w /\ pc'[v] \in {"dispatch", "error"})
                           /\ ent'[v] = ent[v]
    BY <1>1, <1>11 DEF Goto, IInv, TypeOK, Threads
  <2>3. \A x \in Entries : Handled(x) => Handled(x)'
    BY <1>2, <1>4, <2>2 DEF Handled
  <2>4. Waited
    BY <1>2, <1>4, <2>3 DEF Waited, ArmedOrLate, Armed, Timed, Resent, Entries
  <2> QED BY <1>8, <1>9, <2>1, <2>4 DEF Stepped
<1>12. CASE WorkerDone(w) /\ LateErrors /\ tsx.state >= TERMINATED
  <2>1. OneCall' /\ Places'
    BY <1>1, <1>7, <1>8, <1>12, PlacesKept DEF TInv, WorkerDone
  <2>2. tsx'.state \in {TERMINATED, DESTROYED}
    BY <1>1, <1>2, <1>4, <1>12 DEF Transactions, TERMINATED, DESTROYED
  <2>3. Resent'
    BY <2>2 DEF Resent, CALLING, COMPLETED, TERMINATED, DESTROYED
  <2>4. ArmedOrLate'
    BY <1>12, <2>2 DEF ArmedOrLate, Armed, Timed, CALLING, PROCEEDING, COMPLETED, CONFIRMED,
                       TERMINATED, DESTROYED
  <2> QED BY <1>8, <1>9, <2>1, <2>3, <2>4 DEF Stepped, Waited
<1> QED BY <1>10, <1>11, <1>12 DEF TimerCallback

(* A worker, or a reader, that runs a handler.                             *)
LEMMA DispatchTimerStepped ==
  ASSUME IInv, IInv', TInv, NEW w \in Workers, DispatchTimer(w)
  PROVE  Stepped
<1>1. PICK t \in StateHandler(Now, Timer(ent[w])) : tsx' = DecRef(t)
  BY DEF DispatchTimer, Put
<1>2. w \in Threads /\ pc[w] = "dispatch" /\ ent[w] \in Entries /\ WorkerDone(w)
  BY DEF DispatchTimer, IInv, InHand, Threads
<1>3. Good(Now) /\ Sound(Now) /\ Saved(Now) /\ Now.role = tsx.role
  BY NowSound DEF TInv
<1>4. ValidEvent(Now.role, Timer(ent[w])) /\ Fired(Timer(ent[w])) = ent[w]
  BY <1>2 DEF ValidEvent, Timer, Fired
<1>5. Lands(Now, ent[w], t) /\ Pends(Now, t)
  BY <1>1, <1>3, <1>4, StateHandlerLands
<1>6. t \in Transactions
  BY <1>1, <1>3, <1>4, HandlerKept DEF Kept, Good
<1>7. Unhanded(ent[w]) /\ Goto(w, "idle")
  BY <1>2, DoneUnhanded DEF WorkerDone
<1> QED BY <1>1, <1>2, <1>5, <1>6, <1>7, LandedStep

(* A reader or a sender that lands.                                        *)
LEMMA OtherLanded ==
  ASSUME IInv, IInv', TInv, NEW t \in Transactions, Lands(Now, "none", t), Pends(Now, t),
         tsx' = t \/ tsx' = DecRef(t) \/ tsx' = AddRef(t),
         NEW th, th \notin Workers, NEW l \in {"idle", "found"}, Goto(th, l), UNCHANGED ent
  PROVE  Stepped
<1>1. Unhanded("none")
  BY OthersUnhanded
<1> QED BY <1>1, LandedStep

(* The user that lands, or the transport that disconnects.                 *)
LEMMA UserLanded ==
  ASSUME IInv, IInv', TInv, NEW t \in Transactions, Lands(Now, "none", t), Pends(Now, t),
         tsx' = t \/ tsx' = DecRef(t), UNCHANGED <<pc, ent>>
  PROVE  Stepped
<1>1. Unhanded("none")
  BY DEF Unhanded
<1>2. Goto("none", "idle") \/ UNCHANGED pc
  OBVIOUS
<1> QED BY <1>1, <1>2, LandedStep

(* What a handler leaves for an event that no timer brings.                *)
LEMMA HandlerLands ==
  ASSUME IInv, TInv, NEW ev, ValidEvent(tsx.role, ev), ev.type # "TIMER",
         NEW t \in StateHandler(Now, ev)
  PROVE  t \in Transactions /\ Lands(Now, "none", t) /\ Pends(Now, t)
<1>1. Good(Now) /\ Sound(Now) /\ Saved(Now) /\ Now.role = tsx.role
  BY NowSound DEF TInv
<1>2. Fired(ev) = "none"
  BY DEF Fired
<1>3. t \in Transactions
  BY HandlerKept DEF Kept, Good
<1> QED BY <1>1, <1>2, <1>3, StateHandlerLands

(* A reader takes a reference, or runs a handler.                          *)
LEMMA ReaderStepped ==
  ASSUME IInv, IInv', TInv, NEW r \in Readers, Reader(r)
  PROVE  Stepped
<1>1. r \in Threads /\ r \notin Workers
  BY ThreadsAssumption DEF Threads
<1>2. ASSUME NEW m \in Msgs, Find(r, m)
      PROVE  Stepped
  <2>1. Good(Now) /\ Sound(Now) /\ Saved(Now)
    BY NowSound DEF TInv
  <2>2. Lands(Now, "none", Now) /\ Pends(Now, Now) /\ Now \in Transactions
    BY <2>1, StillLands DEF Good
  <2>3. tsx' = AddRef(Now) /\ Goto(r, "found") /\ UNCHANGED ent
    BY <1>2 DEF Find, Put
  <2> QED BY <1>1, <2>2, <2>3, OtherLanded
<1>3. CASE Receive(r)
  <2>1. PICK t \in StateHandler(Now, Rx(msg[r])) : tsx' = DecRef(t)
    BY <1>3 DEF Receive, Put
  <2>2. ValidEvent(tsx.role, Rx(msg[r])) /\ Rx(msg[r]).type # "TIMER"
    BY <1>3 DEF Receive, ValidEvent, Rx, IInv, InHand
  <2>3. t \in Transactions /\ Lands(Now, "none", t) /\ Pends(Now, t)
    BY <2>1, <2>2, HandlerLands
  <2>4. Goto(r, "idle") /\ UNCHANGED ent
    BY <1>3 DEF Receive, ReaderDone
  <2> QED BY <1>1, <2>1, <2>3, <2>4, OtherLanded
<1> QED BY <1>2, <1>3 DEF Reader

(* A quiet step keeps everything but the timers.                           *)
LEMMA QuietKeeps ==
  ASSUME NEW t, Sound(t), Saved(t), NEW u, Quiet(t, u)
  PROVE  Keeps(t, u) /\ Tidy(t, u) /\ Pends(t, u)
<1>1. Sound(u) /\ Saved(u)
  BY DEF Quiet, Sound, Fit, Clean, Rooted, Marked, Live, Saved
<1>2. Edge(t, u) /\ Acked(t, u) /\ Pends(t, u)
  BY DEF Quiet, Edge, Acked, Pends, COMPLETED
<1>3. Tidy(t, u)
  BY DEF Quiet, Tidy, Briefed, Steadfast, Counted, Live
<1> QED BY <1>1, <1>2, <1>3 DEF Keeps, Quiet

(* And lands, when it starts timers and stops none.                        *)
LEMMA QuietLands ==
  ASSUME NEW t, Sound(t), Saved(t), NEW u, Quiet(t, u), t.heap \subseteq u.heap,
         u.flags = t.flags
  PROVE  Lands(t, "none", u) /\ Pends(t, u)
<1>1. Sound(u) /\ Saved(u)
  BY DEF Quiet, Sound, Fit, Clean, Rooted, Marked, Live, Saved
<1>2. Edge(t, u) /\ Acked(t, u) /\ Pends(t, u)
  BY DEF Quiet, Edge, Acked, Pends, COMPLETED
<1>3. Timers(t, "none", u)
  BY DEF Quiet, Timers, NeedsTimer, Repeats, Running
<1>4. Briefed(t) => Briefed(u)
  BY DEF Quiet, Briefed, Steadfast, Counted, Live
<1> QED BY <1>1, <1>2, <1>3, <1>4 DEF Lands, Quiet

(* A dead transport, once the send failed or the transport disconnected.   *)
LEMMA PostLands ==
  ASSUME IInv, TInv, LateErrors
  PROVE  LET u == PostTransportError(Now)
         IN  u \in Transactions /\ Lands(Now, "none", u) /\ Pends(Now, u)
<1> DEFINE u == PostTransportError(Now)
<1>1. Good(Now) /\ Sound(Now) /\ Saved(Now)
  BY NowSound DEF TInv
<1>2. Quiet(Now, u) /\ u.heap = Now.heap \cup {"to"} /\ u.flags = Now.flags
  BY <1>1, ResetQuiet DEF PostTransportError
<1>3. u \in Transactions
  BY <1>1, PostKept DEF Kept, Good
<1> HIDE DEF u
<1>4. Lands(Now, "none", u) /\ Pends(Now, u)
  BY <1>1, <1>2, QuietLands
<1> QED BY <1>3, <1>4 DEF u

LEMMA PostStepped ==
  ASSUME IInv, IInv', TInv, Disconnect \/ \E s \in Senders : PostFailure(s)
  PROVE  Stepped
<1>1. CASE Disconnect
  <2>1. LateErrors /\ tsx' = PostTransportError(Now) /\ UNCHANGED <<pc, ent>>
    BY <1>1 DEF Disconnect, LateErrors, Put
  <2> QED BY <2>1, PostLands, UserLanded
<1>2. ASSUME NEW s \in Senders, PostFailure(s)
      PROVE  Stepped
  <2>1. s \in Threads /\ s \notin Workers
    BY ThreadsAssumption DEF Threads
  <2>2. LateErrors /\ tsx' = DecRef(PostTransportError(Now)) /\ Goto(s, "idle") /\ UNCHANGED ent
    BY <1>2, <2>1 DEF PostFailure, TInv, Places, Put
  <2> QED BY <2>1, <2>2, PostLands, OtherLanded
<1> QED BY <1>1, <1>2

(* The calls of the user that run a handler or send.                       *)
LEMMA SendingStepped ==
  ASSUME IInv, IInv', TInv, FirstRequest \/ (\E m \in Msgs : SendCall(m)) \/ RetransmitCall
  PROVE  Stepped
<1>1. CASE FirstRequest
  <2>1. PICK t \in StateHandler(Now, Rx(REQ)) : tsx' = t /\ UNCHANGED <<pc, ent>>
    BY <1>1 DEF FirstRequest, UserStep, Put
  <2>2. ValidEvent(tsx.role, Rx(REQ)) /\ Rx(REQ).type # "TIMER"
    BY <1>1 DEF FirstRequest, ValidEvent, Rx
  <2> QED BY <2>1, <2>2, HandlerLands, UserLanded
<1>2. ASSUME NEW m \in Msgs, SendCall(m)
      PROVE  Stepped
  <2>1. PICK t \in StateHandler(Now, Tx(m)) : tsx' = t /\ UNCHANGED <<pc, ent>>
    BY <1>2 DEF SendCall, UserStep, Put
  <2>2. ValidEvent(tsx.role, Tx(m)) /\ Tx(m).type # "TIMER"
    BY <1>2 DEF SendCall, ValidEvent, Tx
  <2> QED BY <2>1, <2>2, HandlerLands, UserLanded
<1>3. CASE RetransmitCall
  <2>1. PICK o \in SendMsg(Now, 180) : tsx' = o.t /\ UNCHANGED <<pc, ent>>
    BY <1>3 DEF RetransmitCall, UserStep, Put
  <2>2. 180 \in Msgs
    BY DEF Msgs, Responses
  <2>3. Good(Now) /\ Sound(Now) /\ Saved(Now)
    BY NowSound DEF TInv
  <2>4. Now.told = PROCEEDING
    <3>1. Now.told = tsx.told
      BY DEF Now, IInv, TypeOK, Transactions
    <3> QED BY <1>3, <3>1 DEF RetransmitCall
  <2>5. Now.state # DESTROYED /\ (Briefed(Now) => Live(Now))
    BY <2>3, <2>4 DEF Sound, Briefed, Live, PROCEEDING, TERMINATED
  <2>6. Live(Now) => Fit(Now)
    BY <2>3 DEF Sound
  <2>7. Good(o.t)
    BY <2>1, <2>2, <2>3, SendMsgKept DEF Kept
  <2>8. /\ Moves(Now, o.t) /\ (Fit(Now) => Fit(o.t)) /\ (Fit(Now) /\ Now.tx => o.t.tx)
        /\ "fail" \notin Faults /\ Live(Now) /\ Fit(Now) /\ Steadfast(Now) => Calm(Now, o.t)
    BY <2>1, <2>2, <2>3, <2>5, SendMsgMoves
  <2>9. "fail" \notin Faults /\ Briefed(Now) => Calm(Now, o.t)
    BY <2>5, <2>6, <2>8 DEF Briefed
  <2>10. Lands(Now, "none", o.t)
    BY <2>3, <2>6, <2>7, <2>8, <2>9, MovesLands
  <2>11. Pends(Now, o.t)
    <3>1. Live(o.t) => Live(Now)
      BY <2>3, <2>10, NoReturn DEF Lands
    <3> QED BY <2>6, <2>8, <3>1 DEF Pends
  <2> QED BY <2>1, <2>7, <2>10, <2>11, UserLanded DEF Good
<1> QED BY <1>1, <1>2, <1>3

(* The calls of the user that only concern the timers or the counter.      *)
LEMMA TimerCallsStepped ==
  ASSUME IInv, IInv', TInv, StopRetransmitCall \/ SetTimeoutCall \/ ReleaseHold
  PROVE  Stepped
<1>0. Good(Now) /\ Sound(Now) /\ Saved(Now) /\ Now \in Transactions
  BY NowSound DEF TInv, Good
<1>1. CASE StopRetransmitCall
  <2> DEFINE u == CancelTimer(Now, "rt")
  <2>1. Quiet(Now, u) /\ u.heap = Now.heap \ {"rt"} /\ u.flags = Now.flags
    BY <1>0, CancelQuiet DEF Entries
  <2>2. /\ Now.role = tsx.role /\ Now.invite = tsx.invite /\ Now.reliable = tsx.reliable
        /\ Now.state = tsx.state /\ Now.flags = tsx.flags /\ Now.tp = tsx.tp
        /\ Now.out = tsx.out /\ Now.reg = tsx.reg /\ Now.user = tsx.user
        /\ Now.told = tsx.told /\ Now.terms = tsx.terms /\ Now.heap = tsx.heap
        /\ Now.id = tsx.id /\ Now.tx = tsx.tx /\ Now.last = tsx.last
    BY DEF Now, IInv, TypeOK, Transactions
  <2>3. tsx' = u /\ UNCHANGED <<pc, ent>> /\ "stop" \in AppOps
    BY <1>1 DEF StopRetransmitCall, UserStep, Put
  <2> HIDE DEF u
  <2>4. Keeps(Now, u) /\ Tidy(Now, u) /\ Pends(Now, u)
    BY <1>0, <2>1, QuietKeeps
  <2>5. Keeps(tsx, u) /\ Tidy(tsx, u) /\ Pends(tsx, u)
    BY <2>2, <2>4 DEF Keeps, Tidy, Pends, Tame, Acked, Edge, Revived, Briefed, Steadfast,
                      Counted, Live
  <2>6. OneCall' /\ Places'
    <3>1. Goto("none", "idle") \/ UNCHANGED pc
      BY <2>3
    <3> QED BY <2>3, <2>5, <3>1, PlacesKept DEF TInv
  <2>7. Waited
    <3>1. Handled("to") => Handled("to")'
      BY <2>1, <2>2, <2>3 DEF Handled
    <3>2. tsx'.state = tsx.state /\ tsx'.role = tsx.role /\ tsx'.invite = tsx.invite
      BY <2>1, <2>2, <2>3 DEF Quiet
    <3> QED BY <2>3, <3>1, <3>2 DEF Waited, ArmedOrLate, Armed, Timed
  <2> QED BY <2>3, <2>5, <2>6, <2>7 DEF Stepped
<1>2. CASE SetTimeoutCall
  <2> DEFINE u == ResetTimeout(Now, TIMEOUT_TIMER, "user")
  <2>1. Quiet(Now, u) /\ u.heap = Now.heap \cup {"to"} /\ u.flags = Now.flags
    BY <1>0, ResetQuiet DEF TIMEOUT_TIMER, TRANSPORT_ERR_TIMER
  <2>2. u \in Transactions
    BY <1>0, ResetKept DEF Kept, Good, TIMEOUT_TIMER, Waits
  <2>3. tsx' = u /\ UNCHANGED <<pc, ent>>
    BY <1>2 DEF SetTimeoutCall, UserStep, Put
  <2> HIDE DEF u
  <2>4. Lands(Now, "none", u) /\ Pends(Now, u)
    BY <1>0, <2>1, QuietLands
  <2> QED BY <2>2, <2>3, <2>4, UserLanded
<1>3. CASE ReleaseHold
  <2>1. Lands(Now, "none", Now) /\ Pends(Now, Now)
    BY <1>0, StillLands
  <2>2. tsx' = DecRef(Now) /\ UNCHANGED <<pc, ent>>
    BY <1>3 DEF ReleaseHold, Put
  <2> QED BY <1>0, <2>1, <2>2, UserLanded
<1> QED BY <1>1, <1>2, <1>3

(* The transaction is set to its end by a transport error, or by the user, *)
(* whatever another thread has made of it since the state was tested.      *)
LEMMA EndStepped ==
  ASSUME IInv, IInv', TInv, ~Undisturbed,
         tsx'.role = tsx.role, tsx'.invite = tsx.invite, tsx'.last = tsx.last,
         tsx'.tp => tsx.tp, tsx'.out = tsx.out, tsx'.reg = tsx.reg, tsx'.user = tsx.user,
         "resolved" \in tsx.flags => "resolved" \in tsx'.flags,
         tsx'.told \in {tsx.told, TERMINATED}, tsx'.state = TERMINATED, "to" \in tsx'.heap,
         Tame(tsx) => Tame(tsx'),
         NEW th \in Threads, NEW l \in {"idle", "notify"}, Goto(th, l), l = "notify" => LateErrors
  PROVE  Stepped
<1>0. tsx.state \in NULL .. DESTROYED
  BY DEF IInv, TypeOK, Transactions
<1>1. ~Live(tsx')
  BY DEF Live, TERMINATED
<1>2. Rooted(tsx')
  BY DEF TInv, Sound, Rooted
<1>3. ~tsx'.user => tsx'.told >= TERMINATED
  BY DEF TInv, Sound, TERMINATED
<1>4. Sound(tsx')
  <2>1. ~tsx'.reg => tsx'.last = NoMsg
    BY DEF TInv, Sound
  <2> QED BY <1>1, <1>2, <1>3, <2>1 DEF Sound, CALLING, CONFIRMED, TERMINATED, DESTROYED
<1>5. Saved(tsx') /\ Acked(tsx, tsx') /\ Pends(tsx, tsx')
  BY <1>1 DEF Saved, Acked, Pends, CALLING, COMPLETED, TERMINATED
<1>6. Edge(tsx, tsx') \/ Revived(tsx, tsx')
  <2>1. CASE Live(tsx)
    BY <2>1 DEF Edge, Forward
  <2>2. CASE tsx.state = TERMINATED
    BY <2>2 DEF Edge
  <2>3. CASE tsx.state = DESTROYED
    BY <2>3 DEF Revived, TInv, Sound
  <2> QED BY <1>0, <2>1, <2>2, <2>3 DEF Live, NULL, TERMINATED, DESTROYED
<1>7. Keeps(tsx, tsx')
  BY <1>4, <1>5, <1>6 DEF Keeps
<1>8. OneCall' /\ Places'
  BY <1>5, <1>7, PlacesKept DEF TInv
<1>9. Waited
  BY DEF Waited, ArmedOrLate, Armed, Handled, Resent, CALLING, COMPLETED, TERMINATED
<1> QED BY <1>7, <1>8, <1>9 DEF Stepped, Tidy

(* The locked part of a transport error tells nobody; the user is told     *)
(* without the lock, of whatever state the transaction is in by then.      *)
LEMMA ErrorStepped ==
  ASSUME IInv, IInv', TInv, NEW w \in Workers, TransportError(w) \/ NotifyUser(w)
  PROVE  Stepped
<1>0. w \in Threads /\ LateErrors /\ tsx \in Transactions /\ Now \in Transactions /\ Good(Now)
  BY Before DEF TransportError, NotifyUser, Threads, TInv, Places, IInv, TypeOK, Owed, Good
<1>1. /\ Now.role = tsx.role /\ Now.invite = tsx.invite /\ Now.reliable = tsx.reliable
      /\ Now.state = tsx.state /\ Now.flags = tsx.flags /\ Now.tp = tsx.tp
      /\ Now.out = tsx.out /\ Now.reg = tsx.reg /\ Now.user = tsx.user
      /\ Now.told = tsx.told /\ Now.terms = tsx.terms /\ Now.heap = tsx.heap
      /\ Now.id = tsx.id /\ Now.tx = tsx.tx /\ Now.last = tsx.last
  BY <1>0 DEF Now, Transactions
<1>2. CASE TransportError(w)
  <2> DEFINE p == [Now EXCEPT !.tp = FALSE]
             c == IF Now.code < 200 THEN UNAVAILABLE ELSE Now.code
             t == [Now EXCEPT !.tp = FALSE, !.code = IF @ < 200 THEN UNAVAILABLE ELSE @]
             n == [t EXCEPT !.user = FALSE]
             v == SetState(n, TERMINATED)
  <2>1. Good(p)
    BY <1>0, TpKept DEF Kept
  <2>2. c \in Codes
    <3>1. UNAVAILABLE \in Codes
      BY DEF Codes
    <3> QED BY <1>0, <3>1 DEF Transactions
  <2>3. [p EXCEPT !.code = c] = t
    BY <1>0 DEF Transactions
  <2>4. Good(t)
    <3>1. Kept(p, [p EXCEPT !.code = c])
      BY <2>1, <2>2, CodeKept
    <3> QED BY <2>3, <3>1 DEF Kept
  <2>5. Good(n)
    BY <2>4, UserKept DEF Kept
  <2>6. /\ n.role = Now.role /\ n.invite = Now.invite /\ n.out = Now.out /\ n.reg = Now.reg
        /\ n.last = Now.last /\ n.flags = Now.flags /\ n.told = Now.told /\ n.user = FALSE
        /\ n.tp = FALSE /\ n.id = Now.id /\ t.user = Now.user
    BY <1>0 DEF Transactions
  <2>7. tsx' = [v EXCEPT !.user = t.user] /\ Goto(w, "notify")
    BY <1>2 DEF TransportError, Put, SetStateNoNotify
  <2> HIDE DEF n, t, p
  <2>8. /\ v.role = n.role /\ v.invite = n.invite /\ v.last = n.last /\ v.tp = n.tp
        /\ v.out = n.out /\ v.reg = n.reg /\ v.user = n.user
        /\ v.flags = n.flags \ {"transport"} /\ v.heap = n.heap \cup {"to"}
        /\ v.state = TERMINATED /\ v.told = n.told
        /\ Tame(n) => Tame(v)
    BY <2>5, <2>6, SetTerminated
  <2>9. v \in Transactions
    BY <2>5, AllowedStates, SetStateKept DEF Kept, Good
  <2> HIDE DEF v
  <2>10. /\ tsx'.role = v.role /\ tsx'.invite = v.invite /\ tsx'.last = v.last
         /\ tsx'.tp = v.tp /\ tsx'.out = v.out /\ tsx'.reg = v.reg /\ tsx'.user = t.user
         /\ tsx'.flags = v.flags /\ tsx'.heap = v.heap /\ tsx'.state = v.state
         /\ tsx'.told = v.told /\ tsx'.id = v.id
    BY <2>7, <2>9 DEF Transactions
  <2>11. Tame(tsx) => Tame(tsx')
    BY <1>1, <2>6, <2>8, <2>10 DEF Tame
  <2> QED BY <1>0, <1>1, <2>6, <2>7, <2>8, <2>10, <2>11, EndStepped DEF Undisturbed
<1>3. CASE NotifyUser(w)
  <2> DEFINE u == tsx'
  <2>1. u = DecRef(Notify(Now)) /\ WorkerDone(w) /\ Goto(w, "idle") /\ pc[w] = "notify"
    BY <1>3 DEF NotifyUser, Put, WorkerDone
  <2>2. Notify(Now) \in Transactions
    BY <1>0, NotifyKept DEF Kept, Good
  <2>3. /\ u.role = tsx.role /\ u.invite = tsx.invite /\ u.reliable = tsx.reliable
        /\ u.state = tsx.state /\ u.flags = tsx.flags /\ u.tp = tsx.tp
        /\ u.out = tsx.out /\ u.reg = tsx.reg /\ u.user = tsx.user
        /\ u.told = (IF tsx.user THEN tsx.state ELSE tsx.told) /\ u.heap = tsx.heap
        /\ u.id = tsx.id /\ u.tx = tsx.tx /\ u.last = tsx.last
    BY <1>0, <1>1, <2>1, <2>2 DEF DecRef, Notify, Transactions
  <2> HIDE DEF u
  <2>4. Sound(u) /\ Saved(u) /\ Tame(u)
    BY <2>3 DEF TInv, Sound, Fit, Clean, Rooted, Marked, Live, Saved, Tame, TERMINATED, DESTROYED
  <2>5. Edge(tsx, u) /\ Acked(tsx, u) /\ Pends(tsx, u)
    BY <2>3 DEF Edge, Acked, Pends, Live, COMPLETED
  <2>6. Keeps(tsx, u) /\ Tidy(tsx, u)
    BY <1>0, <2>3, <2>4, <2>5 DEF Keeps, Tidy, Undisturbed
  <2>7. OneCall' /\ Places'
    BY <2>1, <2>5, <2>6, PlacesKept DEF TInv, u
  <2>8. \A x \in Entries : Handled(x) => Handled(x)'
    <3>1. \A v \in Workers : v # w => pc'[v] = pc[v] /\ ent'[v] = ent[v]
      BY <2>1 DEF WorkerDone, Goto, IInv, TypeOK, Threads
    <3> QED BY <2>1, <2>3, <3>1 DEF Handled, u
  <2>9. Waited
    BY <2>3, <2>8 DEF Waited, ArmedOrLate, Armed, Timed, Resent, Entries, u
  <2> QED BY <2>6, <2>7, <2>9 DEF Stepped, u
<1> QED BY <1>2, <1>3

(* Every step of a worker.                                                 *)
LEMMA WorkerStepped ==
  ASSUME IInv, IInv', TInv, NEW w \in Workers, Worker(w)
  PROVE  Stepped
  BY PopStepped, TimerCallbackStepped, DispatchTimerStepped, ErrorStepped DEF Worker

(* A thread that is about to call leaves the transaction alone.            *)
LEMMA AboutStepped ==
  ASSUME IInv, TInv, NEW th \in Threads \ Workers, NEW l, Goto(th, l), UNCHANGED <<tsx, ent>>,
         OneCall', Places'
  PROVE  Stepped
<1>1. Keeps(tsx, tsx') /\ Tidy(tsx, tsx')
  BY DEF TInv, Keeps, Tidy, Edge, Acked, COMPLETED
<1>2. \A v \in Workers : pc'[v] = pc[v] /\ ent'[v] = ent[v]
  BY DEF Goto, IInv, TypeOK, Threads
<1>3. \A x \in Entries : Handled(x) => Handled(x)'
  BY <1>2 DEF Handled
<1>4. Waited
  BY <1>3 DEF Waited, ArmedOrLate, Armed, Timed, Resent, Entries
<1> QED BY <1>1, <1>4 DEF Stepped

(* The two halves of pjsip_tsx_terminate().                                *)
LEMMA AppStepped ==
  ASSUME IInv, IInv', TInv, NEW a \in Apps, App(a)
  PROVE  Stepped
<1>0. a \in Threads \ Workers
  BY ThreadsAssumption DEF Threads
<1>1. CASE TerminateCall(a)
  <2>1. "terminate" \in AppOps /\ Goto(a, "terminate") /\ UNCHANGED <<tsx, ent>>
    BY <1>1 DEF TerminateCall
  <2>2. Keeps(tsx, tsx') /\ Pends(tsx, tsx')
    BY <2>1 DEF TInv, Keeps, Edge, Acked, Pends, COMPLETED
  <2>3. OneCall' /\ Places'
    BY <2>1, <2>2, PlacesKept DEF TInv
  <2> QED BY <1>0, <2>1, <2>3, AboutStepped
<1>2. CASE TerminateLocked(a)
  <2> DEFINE d == [Now EXCEPT !.code = UNAVAILABLE]
             u == SetState(d, TERMINATED)
  <2>1. ~Undisturbed /\ tsx' = u /\ Goto(a, "idle")
    BY <1>0, <1>2 DEF TerminateLocked, TInv, Places, Undisturbed, Put, Terminate
  <2>2. Good(Now) /\ tsx \in Transactions
    BY Before DEF Owed, IInv, TypeOK
  <2>3. Good(d)
    <3>1. UNAVAILABLE \in Codes
      BY DEF Codes
    <3> QED BY <2>2, <3>1, CodeKept DEF Kept
  <2>4. /\ d.role = tsx.role /\ d.invite = tsx.invite /\ d.out = tsx.out /\ d.reg = tsx.reg
        /\ d.last = tsx.last /\ d.flags = tsx.flags /\ d.told = tsx.told /\ d.user = tsx.user
        /\ d.tp = tsx.tp /\ d.id = tsx.id
    BY <2>2 DEF Now, Transactions
  <2> HIDE DEF d
  <2>5. /\ u.role = d.role /\ u.invite = d.invite /\ u.last = d.last /\ u.tp = d.tp
        /\ u.out = d.out /\ u.reg = d.reg /\ u.user = d.user
        /\ u.flags = d.flags \ {"transport"} /\ u.heap = d.heap \cup {"to"}
        /\ u.state = TERMINATED /\ u.told = (IF d.user THEN TERMINATED ELSE d.told)
        /\ Tame(d) => Tame(u)
    BY <2>3, SetTerminated
  <2> HIDE DEF u
  <2>6. Tame(tsx) => Tame(u)
    BY <2>4, <2>5 DEF Tame
  <2> QED BY <1>0, <2>1, <2>4, <2>5, <2>6, EndStepped
<1> QED BY <1>1, <1>2 DEF App

(* A send is answered.  The flag that goes marked it: whoever waits for it *)
(* on an unreliable transport no longer does, which is why Resent needs a  *)
(* transport that answers at once.                                         *)
LEMMA TransportCallbackStepped ==
  ASSUME IInv, IInv', TInv, NEW s \in Senders, TransportCallback(s)
  PROVE  Stepped
<1> DEFINE d == Drop(Now, {"transport"})
           u == [d EXCEPT !.out = @ - 1]
<1>1. /\ s \in Threads \ Workers /\ tsx \in Transactions /\ tsx.out > 0 /\ UNCHANGED ent
      /\ tsx' = u \/ tsx' = DecRef(u)
      /\ Goto(s, "idle") \/ ("fail" \in Faults /\ Goto(s, "failed"))
  BY ThreadsAssumption DEF TransportCallback, Put, Threads, IInv, TypeOK
<1>2. "async" \in Faults
  <2>1. tsx.out # 0
    BY <1>1 DEF Transactions
  <2> QED BY <2>1 DEF TInv, Tame
<1>3. /\ u.role = tsx.role /\ u.invite = tsx.invite /\ u.reliable = tsx.reliable
      /\ u.state = tsx.state /\ u.flags = tsx.flags \ {"transport"} /\ u.tp = tsx.tp
      /\ u.out = tsx.out - 1 /\ u.reg = tsx.reg /\ u.user = tsx.user /\ u.last = tsx.last
      /\ u.told = tsx.told /\ u.terms = tsx.terms /\ u.heap = tsx.heap
      /\ u.tx = tsx.tx /\ u.id = tsx.id
  BY <1>1 DEF Now, Drop, Transactions
<1>4. /\ tsx'.role = u.role /\ tsx'.invite = u.invite
      /\ tsx'.state = u.state /\ tsx'.flags = u.flags /\ tsx'.tp = u.tp /\ tsx'.last = u.last
      /\ tsx'.out = u.out /\ tsx'.reg = u.reg /\ tsx'.user = u.user
      /\ tsx'.told = u.told /\ tsx'.terms = u.terms /\ tsx'.heap = u.heap
      /\ tsx'.tx = u.tx /\ tsx'.id = u.id
  <2>1. u \in Transactions
    <3>1. d \in Transactions
      BY Before, DropKept DEF Owed, Kept, Good
    <3>2. d.out - 1 \in Nat
      <4>1. d.out = tsx.out
        BY <1>1 DEF Now, Drop, Transactions
      <4> QED BY <1>1, <4>1 DEF Transactions
    <3> QED BY <3>1, <3>2 DEF Transactions
  <2> QED BY <1>1, <2>1 DEF DecRef, Transactions
<1> HIDE DEF u, d
<1>5. tsx.out \in Nat
  BY <1>1 DEF Transactions
<1>6. Rooted(tsx') /\ (tsx'.role = "UAC" => Marked(tsx'))
  <2>1. tsx.role = "UAC" => "resolved" \in tsx.flags
    BY <1>1 DEF TInv, Sound, Rooted
  <2> QED BY <1>3, <1>4, <2>1 DEF Rooted, Marked
<1>7. Live(tsx) => Fit(tsx')
  <2>1. Live(tsx) => Fit(tsx)
    BY DEF TInv, Sound
  <2>2. Fit(tsx) => tsx'.out = 0 /\ ~tsx'.tx
    BY <1>1, <1>3, <1>4, <1>5 DEF Fit, Clean
  <2>3. Fit(tsx) => Fit(tsx')
    BY <1>3, <1>4, <2>2 DEF Fit, Clean
  <2> QED BY <2>1, <2>3
<1>8. Sound(tsx') /\ Saved(tsx') /\ Tame(tsx')
  BY <1>2, <1>3, <1>4, <1>6, <1>7 DEF TInv, Sound, Saved, Tame, Live
<1>9. Live(tsx) => ~tsx.tx
  BY <1>1 DEF TInv, Sound, Fit, Clean
<1>10. Edge(tsx, tsx') /\ Acked(tsx, tsx') /\ Pends(tsx, tsx')
  BY <1>3, <1>4 DEF Edge, Acked, Pends, COMPLETED
<1>11. Keeps(tsx, tsx')
  BY <1>3, <1>4, <1>8, <1>10 DEF Keeps
<1>12. Tidy(tsx, tsx')
  BY <1>3, <1>4 DEF Tidy, Briefed, Steadfast, Counted, Live
<1>13. OneCall' /\ Places'
  <2>1. PICK l \in {"idle", "failed"} : Goto(s, l) /\ (l = "failed" => LateErrors)
    BY <1>1, <1>2 DEF LateErrors
  <2> QED BY <1>10, <1>11, <2>1, PlacesKept DEF TInv
<1>14. Waited
  <2>1. \A v \in Workers : pc'[v] = pc[v] /\ ent'[v] = ent[v]
    BY <1>1 DEF Goto, IInv, TypeOK, Threads
  <2>2. Handled("to") => Handled("to")'
    BY <1>3, <1>4, <2>1 DEF Handled
  <2> QED BY <1>2, <1>3, <1>4, <2>2 DEF Waited, ArmedOrLate, Armed, Timed
<1> QED BY <1>11, <1>12, <1>13, <1>14 DEF Stepped

(* send_msg_callback() is called, one call at a time.                      *)
LEMMA SendCallbackStepped ==
  ASSUME IInv, TInv, NEW s \in Senders, SendCallback(s)
  PROVE  Stepped
<1>1. PICK l \in Calling : Goto(s, l) /\ (l = "sent_error" => "fail" \in Faults)
  BY DEF SendCallback, Calling
<1>2. s \in Threads \ Workers /\ UNCHANGED <<tsx, ent>> /\ tsx.tx
      /\ \A x \in Senders : pc[x] \notin Calling
  BY ThreadsAssumption DEF SendCallback, Threads, Calling
<1>3. \A x \in Threads : pc'[x] = IF x = s THEN l ELSE pc[x]
  BY <1>1 DEF Goto, IInv, TypeOK
<1>4. Senders \subseteq Threads
  BY DEF Threads
<1>5. OneCall'
  BY <1>2, <1>3, <1>4 DEF OneCall
<1>6. Places'
  BY <1>1, <1>3 DEF TInv, Places, Calling
<1> QED BY <1>1, <1>2, <1>5, <1>6, AboutStepped

(* And does its work: a live transaction still has its send pending.       *)
LEMMA SendCallbackLockedStepped ==
  ASSUME IInv, IInv', TInv, NEW s \in Senders, SendCallbackLocked(s)
  PROVE  Stepped
<1>1. s \in Threads \ Workers /\ pc[s] \in Calling /\ Goto(s, "idle") /\ UNCHANGED ent
  BY ThreadsAssumption DEF SendCallbackLocked, Threads, Calling
<1>2. PICK t : /\ tsx' = t
               /\ \/ t \in SentOk(Now)
                  \/ t = SentError(Now) /\ "fail" \in Faults
                  \/ t = SentNext(Now)
  BY <1>1 DEF SendCallbackLocked, Put, TInv, Places
<1>3. Good(Now) /\ Sound(Now) /\ Saved(Now)
  BY NowSound DEF TInv
<1>4. Good(t)
  BY <1>2, <1>3, SentOkKept, SentErrorKept, SentNextKept DEF Kept
<1>5. Now.state = tsx.state /\ Now.tx = tsx.tx
  BY DEF Now, IInv, TypeOK, Transactions
<1>6. Live(Now) => Fit(Now) /\ Now.tx
  BY <1>1, <1>3, <1>5 DEF Sound, TInv, OneCall, Live
<1>7. /\ Now.state = DESTROYED => Now.last = NoMsg
      /\ Live(Now) => "destroy" \notin Now.flags
  BY <1>3, <1>6 DEF Sound, Fit
<1>8. /\ Moves(Now, t) /\ (Live(Now) => Fit(t))
      /\ "fail" \notin Faults => Calm(Now, t)
  <2>1. CASE t \in SentOk(Now)
    BY <1>3, <1>6, <1>7, <2>1, SentOkMoves
  <2>2. CASE t = SentError(Now) /\ "fail" \in Faults
    BY <1>3, <1>6, <2>2, SentErrorMoves
  <2>3. CASE t = SentNext(Now)
    BY <1>3, <1>6, <1>7, <2>3, SentNextMoves
  <2> QED BY <1>2, <2>1, <2>2, <2>3
<1>9. Lands(Now, "none", t) /\ t \in Transactions
  BY <1>3, <1>4, <1>8, MovesLands DEF Good
<1>10. Lands(tsx, "none", tsx')
  BY <1>2, <1>9, LandsBetween
<1>11. Keeps(tsx, tsx') /\ Tidy(tsx, tsx')
  BY <1>10, LandsKeeps
<1>12. \A x \in Threads : pc'[x] = IF x = s THEN "idle" ELSE pc[x]
  BY <1>1 DEF Goto, IInv, TypeOK
<1>13. OneCall'
  <2>1. \A x \in Senders : pc'[x] \notin Calling
    <3>1. \A x \in Senders : x # s => pc[x] \notin Calling
      BY <1>1 DEF TInv, OneCall
    <3>2. Senders \subseteq Threads /\ "idle" \notin Calling
      BY DEF Threads, Calling
    <3> QED BY <1>12, <3>1, <3>2
  <2> QED BY <2>1 DEF OneCall
<1>14. Places'
  BY <1>12 DEF TInv, Places
<1>15. Unhanded("none")
  BY <1>1, OthersUnhanded
<1>16. Waited
  BY <1>10, <1>15, TimersWaited DEF Lands
<1> QED BY <1>11, <1>13, <1>14, <1>16 DEF Stepped

-----------------------------------------------------------------------------
(* Together.                                                               *)
LEMMA EveryStep == IInv /\ TInv /\ Next => Stepped
<1> SUFFICES ASSUME IInv, TInv, Next PROVE Stepped
  OBVIOUS
<1>0. IInv'
  BY Inductive
<1>1. ASSUME NEW w \in Workers, Worker(w) PROVE Stepped
  BY <1>0, <1>1, WorkerStepped
<1>2. ASSUME NEW r \in Readers, Reader(r) PROVE Stepped
  BY <1>0, <1>2, ReaderStepped
<1>3. ASSUME NEW a \in Apps, App(a) PROVE Stepped
  BY <1>0, <1>3, AppStepped
<1>4. CASE User
  BY <1>0, <1>4, SendingStepped, TimerCallsStepped DEF User
<1>5. ASSUME NEW s \in Senders, Sender(s) PROVE Stepped
  BY <1>0, <1>5, TransportCallbackStepped, PostStepped, SendCallbackStepped,
     SendCallbackLockedStepped DEF Sender
<1>6. CASE Disconnect
  BY <1>0, <1>6, PostStepped
<1> QED BY <1>1, <1>2, <1>3, <1>4, <1>5, <1>6 DEF Next

(* The invariant of the threads holds at the start, and every step of the  *)
(* relation keeps it.                                                      *)
LEMMA StartSound ==
  ASSUME Init
  PROVE  TInv /\ tsx.state = NULL /\ tsx.reg /\ ~freed /\ Briefed(tsx)
<1>1. PICK r \in Roles, i \in Invites, rel \in BOOLEAN, h \in H200s, tp \in BOOLEAN :
         tsx = [NewTsx(r, i, rel, h, tp) EXCEPT !.refs = 2] /\ (r = "UAC" => ~tp)
  <2>1. PICK n \in NewTsxs(Roles, Invites, H200s) : tsx = [n EXCEPT !.refs = 2]
    BY DEF Init
  <2>2. PICK r \in Roles, i \in Invites, rel \in BOOLEAN, h \in H200s, tp \in BOOLEAN :
           n = NewTsx(r, i, rel, h, tp) /\ (n.role = "UAC" => ~n.tp)
    BY DEF NewTsxs
  <2>3. n.role = r /\ n.tp = tp
    BY <2>2 DEF NewTsx
  <2> QED BY <2>1, <2>2, <2>3
<1>2. /\ tsx.role = r /\ tsx.state = NULL /\ tsx.flags = {} /\ tsx.tp = tp /\ tsx.tx = FALSE
      /\ tsx.out = 0 /\ tsx.reg = TRUE /\ tsx.user = TRUE /\ tsx.told = NULL /\ tsx.terms = 0
      /\ tsx.heap = {} /\ tsx.id = [e \in Entries |-> TIMER_INACTIVE]
  BY <1>1 DEF NewTsx
<1>3. Sound(tsx) /\ Saved(tsx) /\ Tame(tsx) /\ Briefed(tsx)
  BY <1>1, <1>2 DEF Sound, Fit, Clean, Rooted, Live, Saved, Tame, Briefed, Steadfast, Counted,
     NULL, CALLING, COMPLETED, CONFIRMED, TERMINATED, DESTROYED, TIMER_INACTIVE,
     TRANSPORT_ERR_TIMER
<1>4. OneCall /\ Places
  <2>1. \A th \in Threads : pc[th] = "idle"
    BY DEF Init
  <2>2. Senders \subseteq Threads /\ "idle" \notin Calling
    BY DEF Threads, Calling
  <2> QED BY <2>1, <2>2 DEF OneCall, Places
<1> QED BY <1>2, <1>3, <1>4 DEF TInv, Init

(* A step, or none.                                                        *)
LEMMA StepKeeps ==
  ASSUME IInv, TInv, [Next]_vars
  PROVE  Stepped \/ UNCHANGED vars
  BY EveryStep

LEMMA SoundNext == IInv /\ TInv /\ [Next]_vars => TInv'
<1> SUFFICES ASSUME IInv, TInv, [Next]_vars PROVE TInv'
  OBVIOUS
<1>1. CASE Stepped
  BY <1>1 DEF Stepped, Keeps, TInv
<1>2. CASE UNCHANGED vars
  BY <1>2 DEF vars, TInv, OneCall, Places
<1> QED BY <1>1, <1>2, StepKeeps

(* Whatever the threads and the transport do, the transaction is sound     *)
(* between their steps: a live one is in the hash table, has its user, who *)
(* knows its state, and at most one send on its way, marked by the flag.   *)
THEOREM Soundness == Spec => []TInv
<1>1. Init => TInv
  BY StartSound
<1> QED BY <1>1, SoundNext, Invariance, PTL DEF Spec

-----------------------------------------------------------------------------
(* The states that only a timer is sure to end have theirs in the heap or  *)
(* in a worker's hands, with one exception: the error of a send or of a    *)
(* transport that comes after the end is posted through the timer that     *)
(* would have destroyed the transaction, and dropped.                      *)
THEOREM TimersArmed == Spec => [](Armed \/ (LateErrors /\ tsx.state = TERMINATED))
<1>1. Init => ArmedOrLate
  BY StartSound DEF ArmedOrLate, Armed, Timed, NULL, CALLING, PROCEEDING, COMPLETED,
                    CONFIRMED, TERMINATED
<1>2. IInv /\ TInv /\ ArmedOrLate /\ [Next]_vars => ArmedOrLate'
  <2>1. UNCHANGED vars /\ ArmedOrLate => ArmedOrLate'
    BY DEF vars, ArmedOrLate, Armed, Timed, Handled
  <2> QED BY <2>1, StepKeeps DEF Stepped, Waited
<1>3. ArmedOrLate => Armed \/ (LateErrors /\ tsx.state = TERMINATED)
  BY DEF ArmedOrLate
<1> QED BY <1>1, <1>2, <1>3, Soundness, Invariance, PTL DEF Spec

(* Where no error comes late there is no exception.                        *)
THEOREM ArmedCorrect ==
  ASSUME ~LateErrors
  PROVE  Spec => []Armed
<1>1. Armed \/ (LateErrors /\ tsx.state = TERMINATED) => Armed
  OBVIOUS
<1> QED BY <1>1, TimersArmed, PTL

(* An INVITE repeats itself, and its final response, until it is answered, *)
(* over a transport that answers at once and unless the user stops it.     *)
THEOREM ResentCorrect ==
  ASSUME "async" \notin Faults, "stop" \notin AppOps
  PROVE  Spec => []Resent
<1>1. Init => Resent
  BY StartSound DEF Resent, NULL, CALLING, COMPLETED
<1>2. IInv /\ TInv /\ Resent /\ [Next]_vars => Resent'
  <2>1. UNCHANGED vars /\ Resent => Resent'
    BY DEF vars, Resent, Handled
  <2> QED BY <2>1, StepKeeps DEF Stepped, Waited
<1> QED BY <1>1, <1>2, Soundness, Invariance, PTL DEF Spec

(* No INVITE client lingers without having answered with an ACK.           *)
THEOREM AckCorrect == Spec => AckGiven
<1>1. IInv /\ TInv /\ [Next]_vars =>
        [tsx.invite /\ tsx.role = "UAC"
         /\ tsx.state < COMPLETED /\ tsx'.state = COMPLETED
         => ACK \in tsx'.wire \/ {"transport", "send"} \subseteq tsx'.flags]_vars
  BY StepKeeps DEF Stepped, Keeps, Acked
<1> QED BY <1>1, Soundness, Invariance, PTL DEF Spec, AckGiven

(* The user hears of the end once, and last of the state the transaction   *)
(* is in, as long as nothing but the handlers ends it and no send fails.   *)
THEOREM ToldCorrect ==
  ASSUME "fail" \notin Faults, "disc" \notin Faults, "terminate" \notin AppOps
  PROVE  Spec => []Told
<1>0. Undisturbed
  BY DEF Undisturbed, LateErrors
<1>1. Init => Briefed(tsx)
  BY StartSound
<1>2. IInv /\ TInv /\ Briefed(tsx) /\ [Next]_vars => Briefed(tsx)'
  <2>1. UNCHANGED vars /\ Briefed(tsx) => Briefed(tsx)'
    BY DEF vars
  <2> QED BY <1>0, <2>1, StepKeeps DEF Stepped, Tidy
<1>3. Briefed(tsx) => Told
  BY DEF Briefed, Counted, Told
<1> QED BY <1>1, <1>2, <1>3, Soundness, Invariance, PTL DEF Spec

-----------------------------------------------------------------------------
(* The states.                                                             *)

(* The ways of Lifecycle are those the handlers go.                        *)
LEMMA ForwardEdges ==
  ASSUME NEW t, Good(t), Live(t), NEW b, Forward(t.role, t.state, b)
  PROVE  <<t.state, b>> \in Lifecycle!Edges(t.role) /\ b >= t.state
<1>1. t.state \in NULL .. CONFIRMED /\ t.state \in Allowed(t.role) /\ t.role \in {"UAC", "UAS"}
  BY DEF Good, Transactions, Live, NULL, CONFIRMED, TERMINATED, DESTROYED
<1>2. CASE b = TERMINATED
  <2>1. t.state \notin IF t.role = "UAC" THEN {TRYING, CONFIRMED} ELSE {CALLING}
    BY <1>1 DEF Allowed
  <2> QED BY <1>1, <1>2, <2>1 DEF Lifecycle!Edges, NULL, CALLING, TRYING, CONFIRMED, TERMINATED,
      Lifecycle!NULL, Lifecycle!CALLING, Lifecycle!TRYING, Lifecycle!CONFIRMED,
      Lifecycle!TERMINATED
<1>3. CASE b # TERMINATED
  BY <1>1, <1>3 DEF Forward, Lifecycle!Edges, NULL, CALLING, TRYING, PROCEEDING, COMPLETED,
     CONFIRMED, Lifecycle!NULL, Lifecycle!CALLING, Lifecycle!TRYING, Lifecycle!PROCEEDING,
     Lifecycle!COMPLETED, Lifecycle!CONFIRMED
<1> QED BY <1>2, <1>3

(* A transaction that nothing refers to is not in the hash table.          *)
LEMMA UnusedUnfound ==
  ASSUME NEW t, Good(t), t.refs = 0
  PROVE  ~t.reg
<1>1. One("rt" \in t.heap) \in {0, 1} /\ One("to" \in t.heap) \in {0, 1}
      /\ t.out \in Nat /\ One(t.live) \in {0, 1}
  BY DEF One, Good, Transactions
<1>2. One(t.live) = 0
  BY <1>1 DEF Good, Own
<1> QED BY <1>2 DEF Good, One

(* A transaction that was destroyed and ended again.                       *)
Resurrected == tsx.state = TERMINATED /\ ~tsx.reg

(* A step of the threads is a step of the lifecycle or a stutter, unless   *)
(* it leaves such a transaction.                                           *)
LEMMA LifecycleStep ==
  ASSUME IInv, IInv', TInv, Stepped \/ UNCHANGED vars, [Next]_vars
  PROVE  [Lifecycle!Next \/ Resurrected']_(Lifecycle!abstract)
<1>1. CASE UNCHANGED vars
  BY <1>1 DEF vars, Lifecycle!abstract
<1>2. CASE Stepped /\ Next
  <2>1. tsx'.role = tsx.role /\ (Edge(tsx, tsx') \/ Revived(tsx, tsx')) /\ Sound(tsx')
    BY <1>2 DEF Stepped, Keeps
  <2>2. ~freed /\ freed \in BOOLEAN /\ freed' \in BOOLEAN
    BY <1>2, FreedStops DEF IInv, TypeOK
  <2>3. freed' => ~tsx'.reg
    <3>1. Good(tsx') /\ (freed' => tsx'.refs = 0)
      BY DEF IInv
    <3> QED BY <3>1, UnusedUnfound
  <2>4. tsx.state \in NULL .. DESTROYED /\ tsx.reg \in BOOLEAN /\ tsx'.reg \in BOOLEAN
    BY DEF IInv, TypeOK, Transactions
  <2>5. CASE tsx'.state = tsx.state /\ tsx'.reg = tsx.reg
    <3>1. CASE ~freed'
      BY <2>1, <2>2, <2>5, <3>1 DEF Lifecycle!abstract
    <3>2. CASE freed'
      <4>1. ~Live(tsx')
        BY <2>1, <2>3, <3>2 DEF Sound, Fit
      <4>2. tsx'.state \in {TERMINATED, DESTROYED}
        BY <2>4, <2>5, <4>1 DEF Live, NULL, TERMINATED, DESTROYED
      <4>3. CASE tsx'.state = TERMINATED
        BY <2>3, <3>2, <4>3 DEF Resurrected
      <4>4. CASE tsx'.state = DESTROYED
        BY <2>1, <2>2, <2>5, <3>2, <4>4 DEF Lifecycle!Next, Lifecycle!Free,
           DESTROYED, Lifecycle!DESTROYED
      <4> QED BY <4>2, <4>3, <4>4
    <3> QED BY <2>2, <3>1, <3>2
  <2>6. CASE Live(tsx) /\ Forward(tsx.role, tsx.state, tsx'.state) /\ tsx'.reg = tsx.reg
    <3>1. tsx.reg
      BY <2>6 DEF TInv, Sound, Fit
    <3>2. ~freed'
      BY <2>3, <2>6, <3>1
    <3>3. <<tsx.state, tsx'.state>> \in Lifecycle!Edges(tsx.role)
      BY <2>6, ForwardEdges DEF IInv
    <3> QED BY <2>1, <2>2, <2>6, <3>2, <3>3 DEF Lifecycle!Next, Lifecycle!Move
  <2>7. CASE tsx.state = TERMINATED /\ tsx'.state = DESTROYED /\ ~tsx'.reg
    BY <2>1, <2>2, <2>4, <2>7 DEF Lifecycle!Next, Lifecycle!Destroy,
       TERMINATED, DESTROYED, Lifecycle!TERMINATED, Lifecycle!DESTROYED
  <2>8. CASE Revived(tsx, tsx')
    BY <2>8 DEF Revived, Resurrected
  <2> QED BY <2>1, <2>5, <2>6, <2>7, <2>8 DEF Edge
<1> QED BY <1>1, <1>2

(* The lifecycle the user relies on, for whatever the threads, the         *)
(* transport and the user do.  Every step is one of the lifecycle, but for *)
(* a thread that ends a transaction which another has destroyed since the  *)
(* state was tested; only its last reference is then left to go.           *)
THEOREM StatesForward ==
  Spec => Lifecycle!Init /\ [][Lifecycle!Next \/ Resurrected']_(Lifecycle!abstract)
<1>1. Init => Lifecycle!Init
  <2>1. Init => tsx.role \in {"UAC", "UAS"} /\ tsx.reg \in BOOLEAN /\ freed \in BOOLEAN
    BY Initially DEF IInv, TypeOK, Transactions
  <2> QED BY <2>1, StartSound DEF Lifecycle!Init, NULL, Lifecycle!NULL
<1>2. IInv /\ TInv /\ [Next]_vars => [Lifecycle!Next \/ Resurrected']_(Lifecycle!abstract)
  BY Inductive, StepKeeps, LifecycleStep
<1> QED BY <1>1, <1>2, Soundness, Invariance, PTL DEF Spec

(* Where no error comes late and the user does not terminate it, nobody    *)
(* ends a transaction twice.                                               *)
LEMMA EndedOnce ==
  ASSUME Undisturbed
  PROVE  Spec => []~Resurrected
<1>1. Init => ~Resurrected
  BY StartSound DEF Resurrected, NULL, TERMINATED
<1>2. IInv /\ TInv /\ ~Resurrected /\ [Next]_vars => ~Resurrected'
  <2> SUFFICES ASSUME IInv, TInv, ~Resurrected, Stepped \/ UNCHANGED vars
               PROVE  ~Resurrected'
    BY StepKeeps
  <2>1. CASE UNCHANGED vars
    BY <2>1 DEF vars, Resurrected
  <2>2. CASE Stepped
    <3>1. Edge(tsx, tsx')
      BY <2>2 DEF Stepped, Keeps
    <3>2. Live(tsx) => tsx.reg
      BY DEF TInv, Sound, Fit
    <3> QED BY <3>1, <3>2 DEF Edge, Resurrected, TERMINATED, DESTROYED
  <2> QED BY <2>1, <2>2
<1> QED BY <1>1, <1>2, Soundness, Invariance, PTL DEF Spec

(* Then the threads implement the safety half of the lifecycle.            *)
THEOREM LifecycleCorrect ==
  ASSUME ~LateErrors, "terminate" \notin AppOps
  PROVE  Spec => Lifecycle!Init /\ [][Lifecycle!Next]_(Lifecycle!abstract)
<1>1. Undisturbed
  BY DEF Undisturbed
<1> QED BY <1>1, EndedOnce, StatesForward, PTL

(* And the state never goes back, as the first assertion of                *)
(* tsx_set_state() demands.                                                *)
THEOREM ForwardCorrect ==
  ASSUME ~LateErrors, "terminate" \notin AppOps
  PROVE  Spec => ForwardOnly
<1>1. IInv /\ TInv /\ [Next]_vars => [tsx'.state >= tsx.state]_vars
  <2> SUFFICES ASSUME IInv, TInv, Stepped PROVE tsx'.state >= tsx.state
    BY StepKeeps
  <2>1. Edge(tsx, tsx')
    BY DEF Stepped, Keeps, Undisturbed
  <2>2. Good(tsx) /\ tsx.state \in NULL .. DESTROYED
    BY DEF IInv, Good, Transactions
  <2>3. Live(tsx) /\ Forward(tsx.role, tsx.state, tsx'.state) => tsx'.state >= tsx.state
    BY <2>2, ForwardEdges
  <2> QED BY <2>1, <2>2, <2>3 DEF Edge, NULL, TERMINATED, DESTROYED
<1> QED BY <1>1, Soundness, Invariance, PTL DEF Spec, ForwardOnly
=============================================================================
