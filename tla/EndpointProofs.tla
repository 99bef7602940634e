---------------------------- MODULE EndpointProofs ----------------------------
(***************************************************************************)
(* The two services an endpoint owns: its transports and its timer heap.   *)
(* They share nothing but the endpoint, and the counting of finite sets    *)
(* that both parts begin with.                                             *)
(*                                                                         *)
(* The counter of a transport is never wrong, for any number of users and  *)
(* workers and whatever fails: it is changed by many threads without a     *)
(* lock, and yet is the number of those that rely on it.                   *)
(*                                                                         *)
(* The timer heap does what a timer service promises, for heaps of any     *)
(* size and any number of threads: its array stays ordered, its table of   *)
(* ids leads to the slots, and the chain of free ids through the table is  *)
(* never broken and never runs out.                                        *)
(***************************************************************************)
EXTENDS SipTransport, TimerHeap, FiniteSetTheorems, FunctionTheorems,
        WellFoundedInduction, TLAPS

(* A condition as a number.                                                *)
One(b) == IF b THEN 1 ELSE 0

(* Two finite sets that differ in x at most.                               *)
LEMMA CardinalityChange ==
  ASSUME NEW S, NEW T, NEW x, IsFiniteSet(S), S \ {x} = T \ {x}
  PROVE  /\ IsFiniteSet(T)
         /\ Cardinality(T) = Cardinality(S) + One(x \in T) - One(x \in S)
<1>1. /\ IsFiniteSet(S \cup {x}) /\ IsFiniteSet(S \ {x}) /\ Cardinality(S) \in Nat
      /\ Cardinality(S \cup {x}) = IF x \in S THEN Cardinality(S) ELSE Cardinality(S) + 1
      /\ Cardinality(S \ {x}) = IF x \in S THEN Cardinality(S) - 1 ELSE Cardinality(S)
  BY FS_AddElement, FS_RemoveElement, FS_CardinalityType
<1>2. CASE x \in T
  <2>1. T = S \cup {x}
    BY <1>2
  <2> QED BY <1>1, <1>2, <2>1 DEF One
<1>3. CASE x \notin T
  <2>1. T = S \ {x}
    BY <1>3
  <2> QED BY <1>1, <1>3, <2>1 DEF One
<1> QED BY <1>2, <1>3

-----------------------------------------------------------------------------
(* The transports: the threads and the counter.                            *)

UserPlaces == {"idle", "dropped"} \cup Using \cup Initiating
IoPlaces == {"idle", "flush", "drain", "dropped"} \cup Initiating
WorkerPlaces == {"idle", "idle_popped", "test", "destroy", "ka_popped", "dropped"}
                \cup Initiating
Places == UserPlaces \cup IoPlaces \cup WorkerPlaces

Backs == {"idle", "done", "flush", "drain"}

Transports == [ref : Nat, idle : BOOLEAN, ka : BOOLEAN,
               reg : BOOLEAN, shut : BOOLEAN, dying : BOOLEAN, freed : BOOLEAN,
               connecting : BOOLEAN, failed : BOOLEAN, eof : BOOLEAN,
               delayed : SUBSET Users, sending : SUBSET Users]

TypeOK == /\ tp \in Transports
          /\ heap \subseteq {"idle", "ka"}
          /\ pc \in [Threads -> Places]
          /\ ret \in [Threads -> Backs]

(* Where a thread may be, and where it goes on: a user that shuts the      *)
(* transport down does so from within its send and keeps its reference;    *)
(* one that let the last reference go has none to go on with.              *)
Fits(th, l, back) ==
    /\ th \in Users => /\ l \in UserPlaces
                       /\ l \in Initiating => back = "done"
                       /\ l = "dropped" => back = "idle"
    /\ th = Io => l \in IoPlaces /\ back \in {"idle", "flush", "drain"}
    /\ th \in Workers => l \in WorkerPlaces /\ back = "idle"

InPlace == \A th \in Threads : Fits(th, pc[th], ret[th])

(* The message of a user that waits is in one of the two lists.            *)
Listed == /\ tp.delayed \cap tp.sending = {}
          /\ \A u \in Users : pc[u] = "waiting" <=> u \in tp.delayed \cup tp.sending

IInv == TypeOK /\ InPlace /\ Listed /\ RefsAccounted

(* What a thread at l has in the counter: its own reference if it is a     *)
(* user, and the one that keeps the transport over a shutdown's callbacks. *)
Relying == Using \cup Initiating
Keeping == Initiating \ {"init"}

Share(th, l) == One(th \in Users /\ l \in Relying) + One(l \in Keeping)

-----------------------------------------------------------------------------
(* The threads that rely on the transport can be counted.                  *)
LEMMA FiniteThreads ==
  /\ IsFiniteSet(Holders) /\ IsFiniteSet(Keepers)
  /\ Cardinality(Holders) \in Nat /\ Cardinality(Keepers) \in Nat
<1>1. IsFiniteSet(Users) /\ IsFiniteSet(Threads)
  BY TransportAssumption, FS_Union, FS_AddElement DEF Threads
<1>2. Holders \in SUBSET Users /\ Keepers \in SUBSET Threads
  BY DEF Holders, Keepers
<1> QED BY <1>1, <1>2, FS_Subset, FS_CardinalityType

(* Who is counted depends on where the threads are only.                   *)
LEMMA Counted ==
  /\ InPlace => Holders = {u \in Users : pc[u] \in Relying}
  /\ InPlace' => Holders' = {u \in Users : pc'[u] \in Relying}
  /\ Keepers = {th \in Threads : pc[th] \in Keeping}
  /\ Keepers' = {th \in Threads : pc'[th] \in Keeping}
<1>1. Users \subseteq Threads
  BY DEF Threads
<1>2. ASSUME InPlace PROVE Holders = {u \in Users : pc[u] \in Relying}
  BY <1>1, <1>2 DEF InPlace, Fits, Holders, Relying
<1>3. ASSUME InPlace' PROVE Holders' = {u \in Users : pc'[u] \in Relying}
  BY <1>1, <1>3 DEF InPlace, Fits, Holders, Relying
<1> QED BY <1>2, <1>3 DEF Keepers, Keeping

(* A step after which one thread has something else in the counter, by     *)
(* exactly what the counter has changed.                                   *)
LEMMA Balance ==
  ASSUME IInv, InPlace', NEW th \in Threads,
         \A x \in Threads : x # th =>
             (pc'[x] \in Relying <=> pc[x] \in Relying) /\ (pc'[x] \in Keeping <=> pc[x] \in Keeping),
         tp'.ref = tp.ref + Share(th, pc'[th]) - Share(th, pc[th])
  PROVE  RefsAccounted'
<1>1. Users \subseteq Threads
  BY DEF Threads
<1>2. /\ Holders \subseteq Users /\ Holders' \subseteq Users
      /\ Keepers \subseteq Threads /\ Keepers' \subseteq Threads
      /\ \A u \in Users : u \in Holders <=> pc[u] \in Relying
      /\ \A u \in Users : u \in Holders' <=> pc'[u] \in Relying
      /\ \A x \in Threads : x \in Keepers <=> pc[x] \in Keeping
      /\ \A x \in Threads : x \in Keepers' <=> pc'[x] \in Keeping
  BY Counted DEF IInv
<1>3. Cardinality(Holders') = Cardinality(Holders) + One(th \in Holders') - One(th \in Holders)
  <2>1. \A u \in Users : u # th => (u \in Holders <=> u \in Holders')
    BY <1>1, <1>2
  <2>2. Holders \ {th} = Holders' \ {th}
    BY <1>2, <2>1
  <2> QED BY <2>2, FiniteThreads, CardinalityChange
<1>4. Cardinality(Keepers') = Cardinality(Keepers) + One(th \in Keepers') - One(th \in Keepers)
  <2>1. \A x \in Threads : x # th => (x \in Keepers <=> x \in Keepers')
    BY <1>2
  <2>2. Keepers \ {th} = Keepers' \ {th}
    BY <1>2, <2>1
  <2> QED BY <2>2, FiniteThreads, CardinalityChange
<1>5. /\ th \in Holders <=> (th \in Users /\ pc[th] \in Relying)
      /\ th \in Holders' <=> (th \in Users /\ pc'[th] \in Relying)
      /\ th \in Keepers <=> pc[th] \in Keeping
      /\ th \in Keepers' <=> pc'[th] \in Keeping
  BY <1>2
<1>6. tp.ref = Cardinality(Holders) + Cardinality(Keepers)
  BY DEF IInv, RefsAccounted
<1> QED BY <1>3, <1>4, <1>5, <1>6, FiniteThreads DEF Share, One, RefsAccounted

(* The counter covers what any one thread has in it.                       *)
LEMMA Covered ==
  ASSUME IInv, NEW th \in Threads
  PROVE  tp.ref >= Share(th, pc[th])
<1>1. /\ th \in Holders <=> th \in Users /\ pc[th] \in Relying
      /\ th \in Keepers <=> pc[th] \in Keeping
  BY Counted DEF IInv
<1>2. th \in Holders => Cardinality(Holders) # 0
  BY FiniteThreads, FS_EmptySet
<1>3. th \in Keepers => Cardinality(Keepers) # 0
  BY FiniteThreads, FS_EmptySet
<1> QED BY <1>1, <1>2, <1>3, FiniteThreads DEF IInv, RefsAccounted, Share, One
-----------------------------------------------------------------------------
Waiting == tp.delayed \cup tp.sending

(* A thread goes somewhere else, with what it takes or gives back.         *)
LEMMA Moves ==
  ASSUME IInv, NEW th \in Threads, NEW l \in Places, NEW back \in Backs,
         pc' = [pc EXCEPT ![th] = l], ret' = [ret EXCEPT ![th] = back],
         Fits(th, l, back),
         tp' \in Transports, heap' \subseteq {"idle", "ka"},
         tp'.ref = tp.ref + Share(th, l) - Share(th, pc[th]),
         tp'.delayed \cap tp'.sending = {},
         \A u \in Users : u # th => (u \in Waiting' <=> u \in Waiting),
         th \in Users => (l = "waiting" <=> th \in Waiting')
  PROVE  IInv'
<1>1. TypeOK /\ InPlace /\ Listed /\ Users \subseteq Threads
  BY DEF IInv, Threads
<1>2. /\ \A x \in Threads : x # th => pc'[x] = pc[x] /\ ret'[x] = ret[x]
      /\ pc'[th] = l /\ ret'[th] = back
  BY <1>1 DEF TypeOK
<1>3. TypeOK'
  BY <1>1 DEF TypeOK
<1>4. InPlace'
  BY <1>1, <1>2 DEF InPlace
<1>5. Listed'
  BY <1>1, <1>2 DEF Listed, Waiting
<1>6. RefsAccounted'
  BY <1>2, <1>4, Balance
<1> QED BY <1>3, <1>4, <1>5, <1>6 DEF IInv

(* ... with nothing taken or given back, and no message in hand.           *)
LEMMA Walks ==
  ASSUME IInv, NEW th \in Threads, NEW l \in Places, NEW back \in Backs,
         pc' = [pc EXCEPT ![th] = l], ret' = [ret EXCEPT ![th] = back],
         Fits(th, l, back),
         Share(th, l) = Share(th, pc[th]),
         pc[th] # "waiting", l # "waiting",
         tp' \in Transports, heap' \subseteq {"idle", "ka"},
         tp'.ref = tp.ref, tp'.delayed = tp.delayed, tp'.sending = tp.sending
  PROVE  IInv'
<1>1. Listed /\ tp.ref \in Nat
  BY DEF IInv, TypeOK, Transports
<1>2. Share(th, l) \in Int
  BY DEF Share, One
<1>3. tp'.ref = tp.ref + Share(th, l) - Share(th, pc[th])
  BY <1>1, <1>2
<1>4. tp'.delayed \cap tp'.sending = {} /\ Waiting' = Waiting
  BY <1>1 DEF Listed, Waiting
<1>5. th \in Users => (l = "waiting" <=> th \in Waiting')
  BY <1>1, <1>4 DEF Listed, Waiting
<1> QED BY <1>3, <1>4, <1>5, Moves

(* What the invariant says of one thread.                                  *)
LEMMA Where ==
  ASSUME IInv, NEW th \in Threads
  PROVE  /\ Fits(th, pc[th], ret[th])
         /\ pc[th] \in Places /\ ret[th] \in Backs
         /\ ret = [ret EXCEPT ![th] = ret[th]]
         /\ tp \in Transports /\ heap \subseteq {"idle", "ka"} /\ tp.ref \in Nat
  BY DEF IInv, InPlace, TypeOK, Transports

(* Users, workers and the socket's thread are different.                   *)
LEMMA Kinds ==
  /\ \A u \in Users : u \in Threads /\ u \notin Workers /\ u # Io
  /\ \A w \in Workers : w \in Threads /\ w \notin Users /\ w # Io
  /\ Io \in Threads /\ Io \notin Users /\ Io \notin Workers
  BY TransportAssumption DEF Threads

-----------------------------------------------------------------------------
(* The steps of every thread.                                              *)

(* The second test, under the manager's lock, of a thread that made the    *)
(* counter 1 touches the timer only.                                       *)
LEMMA VerifyStep ==
  ASSUME IInv, NEW th \in Threads, Verify(th)
  PROVE  IInv'
<1>1. PICK l \in {"has", "told"} :
         /\ pc' = [pc EXCEPT ![th] = l]
         /\ \/ pc[th] \in {"added", "raised"} /\ l = "has"
            \/ pc[th] = "init_raised" /\ l = "told"
  <2>1. \/ pc[th] \in {"added", "raised"} /\ Goto(th, "has")
        \/ pc[th] = "init_raised" /\ Goto(th, "told")
    BY DEF Verify
  <2> QED BY <2>1 DEF Goto
<1>2. Fits(th, l, ret[th]) /\ Share(th, l) = Share(th, pc[th])
  BY <1>1, Where, Kinds DEF Fits, UserPlaces, IoPlaces, WorkerPlaces, Using, Initiating,
                            Share, One, Relying, Keeping
<1>3. /\ tp' \in Transports /\ heap' \subseteq {"idle", "ka"}
      /\ tp'.ref = tp.ref /\ tp'.delayed = tp.delayed /\ tp'.sending = tp.sending
  BY Where DEF Verify, Transports
<1>4. l \in Places /\ ret' = [ret EXCEPT ![th] = ret[th]]
  BY <1>1, Where DEF Verify, Places, UserPlaces, Using, Initiating
<1> QED BY <1>1, <1>2, <1>3, <1>4, Where, Walks

(* A reference given back by a user that held it or a thread that kept     *)
(* it.  Only a user that ends its use lets the last one go: while it shuts *)
(* the transport down it has two.                                          *)
LEMMA DecRefStep ==
  ASSUME IInv, NEW th \in Threads, NEW back \in Backs, DecRef(th, back),
         Share(th, pc[th]) = Share(th, back) + 1, pc[th] # "waiting",
         Fits(th, back, ret[th])
  PROVE  IInv'
<1>1. Share(th, back) \in Nat
  BY DEF Share, One
<1>2. tp.ref \in Nat /\ tp.ref >= 1
  BY <1>1, Where, Covered
<1>3. /\ tp' \in Transports /\ heap' \subseteq {"idle", "ka"}
      /\ tp'.ref = tp.ref - 1 /\ tp'.delayed = tp.delayed /\ tp'.sending = tp.sending
  BY <1>2, Where DEF DecRef, Transports
<1>4. /\ tp'.delayed \cap tp'.sending = {} /\ Waiting' = Waiting
      /\ th \in Users => th \notin Waiting
  BY <1>3, Kinds DEF IInv, Listed, Waiting
<1>5. CASE tp.ref = 1
  <2>1. pc' = [pc EXCEPT ![th] = "dropped"] /\ ret' = [ret EXCEPT ![th] = back]
    BY <1>5 DEF DecRef, Call, Goto
  <2>2. Share(th, back) = 0
    BY <1>1, <1>5, Covered
  <2>3. th \in Users => back = "idle"
    BY <2>2 DEF Share, One, Relying, Using, Fits, UserPlaces, Initiating, Backs
  <2>4. Fits(th, "dropped", back)
    BY <2>3 DEF Fits, UserPlaces, IoPlaces, WorkerPlaces, Initiating, Using, Backs
  <2>5. Share(th, "dropped") = 0
    BY DEF Share, One, Relying, Keeping, Using, Initiating
  <2>6. "dropped" \in Places
    BY DEF Places, UserPlaces
  <2>7. tp'.ref = tp.ref + Share(th, "dropped") - Share(th, pc[th])
    BY <1>2, <1>3, <2>2, <2>5
  <2>8. th \in Users => ("dropped" = "waiting" <=> th \in Waiting')
    BY <1>4
  <2> QED BY <1>3, <1>4, <2>1, <2>4, <2>6, <2>7, <2>8, Moves
<1>6. CASE tp.ref # 1
  <2>1. pc' = [pc EXCEPT ![th] = back] /\ ret' = [ret EXCEPT ![th] = ret[th]]
    BY <1>6, Where DEF DecRef, Goto
  <2>2. back \in Places /\ back # "waiting"
    BY DEF Backs, Places, UserPlaces, IoPlaces, Using
  <2>3. tp'.ref = tp.ref + Share(th, back) - Share(th, pc[th])
    BY <1>1, <1>2, <1>3
  <2>4. th \in Users => (back = "waiting" <=> th \in Waiting')
    BY <1>4, <2>2
  <2> QED BY <1>3, <1>4, <2>1, <2>2, <2>3, <2>4, Where, Moves
<1> QED BY <1>5, <1>6

(* So does that of a thread that made it zero.                             *)
LEMMA DroppedStep ==
  ASSUME IInv, NEW th \in Threads, Dropped(th)
  PROVE  IInv'
<1>1. pc[th] = "dropped" /\ pc' = [pc EXCEPT ![th] = ret[th]]
      /\ ret' = [ret EXCEPT ![th] = ret[th]]
  BY Where DEF Dropped, Goto
<1>2. Fits(th, ret[th], ret[th]) /\ ret[th] \in Places /\ ret[th] # "waiting"
  BY <1>1, Where DEF Fits, Backs, Places, UserPlaces, IoPlaces, WorkerPlaces, Using, Initiating
<1>3. Share(th, ret[th]) = Share(th, pc[th])
  BY <1>1, Where DEF Fits, Backs, Share, One, Relying, Keeping, Using, Initiating
<1>4. /\ tp' \in Transports /\ heap' \subseteq {"idle", "ka"}
      /\ tp'.ref = tp.ref /\ tp'.delayed = tp.delayed /\ tp'.sending = tp.sending
  BY Where DEF Dropped, Transports
<1> QED BY <1>1, <1>2, <1>3, <1>4, Where, Walks

(* A shutdown begins, or has begun already.                                *)
LEMMA InitShutdownStep ==
  ASSUME IInv, NEW th \in Threads, NEW back \in Backs, InitShutdown(th, back),
         pc[th] # "waiting", Fits(th, back, ret[th]), Fits(th, "init", back),
         Share(th, back) = Share(th, pc[th]), Share(th, "init") = Share(th, pc[th]),
         tp' \in Transports, heap' \subseteq {"idle", "ka"},
         tp'.ref = tp.ref, tp'.delayed = tp.delayed, tp'.sending = tp.sending
  PROVE  IInv'
<1>1. \/ pc' = [pc EXCEPT ![th] = back] /\ ret' = [ret EXCEPT ![th] = ret[th]]
      \/ pc' = [pc EXCEPT ![th] = "init"] /\ ret' = [ret EXCEPT ![th] = back]
  BY Where DEF InitShutdown, Goto, Call
<1>2. back \in Places /\ back # "waiting" /\ "init" \in Places
  BY DEF Backs, Places, UserPlaces, IoPlaces, Using, Initiating
<1>3. CASE pc' = [pc EXCEPT ![th] = back] /\ ret' = [ret EXCEPT ![th] = ret[th]]
  BY <1>2, <1>3, Where, Walks
<1>4. CASE pc' = [pc EXCEPT ![th] = "init"] /\ ret' = [ret EXCEPT ![th] = back]
  BY <1>2, <1>4, Walks
<1> QED BY <1>1, <1>3, <1>4

(* A thread that begins a shutdown takes a reference for the time of the   *)
(* callbacks, or none if another has begun it.                             *)
LEMMA InitRefStep ==
  ASSUME IInv, NEW th \in Threads, InitRef(th)
  PROVE  IInv'
<1>1. PICK l \in {"init_raised", "told"} :
         pc[th] = "init" /\ pc' = [pc EXCEPT ![th] = l] /\ ret' = [ret EXCEPT ![th] = ret[th]]
  BY Where DEF InitRef, Goto
<1>2. Fits(th, l, ret[th]) /\ l \in Places
  BY <1>1, Where DEF Fits, Places, UserPlaces, IoPlaces, WorkerPlaces, Using, Initiating
<1>3. Share(th, l) = Share(th, pc[th]) + 1 /\ Share(th, pc[th]) \in Nat
  BY <1>1 DEF Share, One, Relying, Keeping, Using, Initiating
<1>4. /\ tp' \in Transports /\ heap' \subseteq {"idle", "ka"}
      /\ tp'.ref = tp.ref + 1 /\ tp'.delayed = tp.delayed /\ tp'.sending = tp.sending
  BY Where DEF InitRef, Transports
<1>5. /\ tp'.delayed \cap tp'.sending = {} /\ Waiting' = Waiting
      /\ th \in Users => th \notin Waiting
  BY <1>1, <1>4, Kinds DEF IInv, Listed, Waiting
<1>6. tp'.ref = tp.ref + Share(th, l) - Share(th, pc[th])
  BY <1>3, <1>4, Where
<1> QED BY <1>1, <1>2, <1>4, <1>5, <1>6, Where, Moves

(* pjsip_transport_shutdown() marks the transport and keeps that           *)
(* reference.                                                              *)
LEMMA ShutdownStep ==
  ASSUME IInv, NEW th \in Threads, Shutdown(th)
  PROVE  IInv'
<1>1. pc[th] = "told" /\ pc' = [pc EXCEPT ![th] = "unref"]
      /\ ret' = [ret EXCEPT ![th] = ret[th]]
  BY Where DEF Shutdown, Goto
<1>2. Fits(th, "unref", ret[th]) /\ "unref" \in Places
  BY <1>1, Where DEF Fits, Places, UserPlaces, IoPlaces, WorkerPlaces, Using, Initiating
<1>3. Share(th, "unref") = Share(th, pc[th])
  BY <1>1 DEF Share, One, Relying, Keeping, Using, Initiating
<1>4. /\ tp' \in Transports /\ heap' \subseteq {"idle", "ka"}
      /\ tp'.ref = tp.ref /\ tp'.delayed = tp.delayed /\ tp'.sending = tp.sending
  BY Where DEF Shutdown, Transports
<1> QED BY <1>1, <1>2, <1>3, <1>4, Where, Walks

(* Which is given back at the end, and by the thread that took it.         *)
LEMMA InitUnrefStep ==
  ASSUME IInv, NEW th \in Threads, InitUnref(th)
  PROVE  IInv'
<1>1. pc[th] = "unref" /\ DecRef(th, ret[th])
  BY DEF InitUnref
<1>2. Fits(th, ret[th], ret[th]) /\ Share(th, pc[th]) = Share(th, ret[th]) + 1
  BY <1>1, Where, Kinds DEF Fits, Backs, UserPlaces, IoPlaces, WorkerPlaces, Share, One,
                            Relying, Keeping, Using, Initiating
<1> QED BY <1>1, <1>2, Where, DecRefStep
-----------------------------------------------------------------------------
(* The users.                                                              *)

(* A reference taken, found in the table or from the thread that receives. *)
LEMMA TakeStep ==
  ASSUME IInv, NEW u \in Users, Acquire(u) \/ Receive(u)
  PROVE  IInv'
<1>1. PICK l \in {"added", "raised", "has"} :
         pc[u] = "idle" /\ pc' = [pc EXCEPT ![u] = l] /\ ret' = [ret EXCEPT ![u] = ret[u]]
  BY Where, Kinds DEF Acquire, Receive, Goto
<1>2. Fits(u, l, ret[u]) /\ l \in Places
  BY <1>1, Kinds DEF Fits, Places, UserPlaces, Using, Initiating
<1>3. Share(u, l) = 1 /\ Share(u, pc[u]) = 0
  BY <1>1 DEF Share, One, Relying, Keeping, Using, Initiating
<1>4. /\ tp' \in Transports /\ heap' \subseteq {"idle", "ka"}
      /\ tp'.ref = tp.ref + 1 /\ tp'.delayed = tp.delayed /\ tp'.sending = tp.sending
  BY Where, Kinds DEF Acquire, Receive, Transports
<1>5. tp'.delayed \cap tp'.sending = {} /\ Waiting' = Waiting /\ u \notin Waiting
  BY <1>1, <1>4 DEF IInv, Listed, Waiting
<1>6. tp'.ref = tp.ref + Share(u, l) - Share(u, pc[u])
  BY <1>3, <1>4, Where, Kinds
<1> QED BY <1>1, <1>2, <1>4, <1>5, <1>6, Where, Kinds, Moves

(* A user that sends is done, waits with its message on the list of those  *)
(* under way, or is about to queue it.                                     *)
LEMMA SendStep ==
  ASSUME IInv, NEW u \in Users, Send(u)
  PROVE  IInv'
<1>1. pc[u] = "has" /\ heap' = heap /\ u \in Threads
  BY Kinds DEF Send
<1>2. Share(u, pc[u]) = 1 /\ \A l \in {"queueing", "waiting", "done", "init"} : Share(u, l) = 1
  BY <1>1 DEF Share, One, Relying, Keeping, Using, Initiating
<1>3. \A l \in {"queueing", "waiting", "done"} : Fits(u, l, ret[u]) /\ l \in Places
  BY Kinds DEF Fits, Places, UserPlaces, Using, Initiating
<1>4. CASE Goto(u, "queueing") /\ UNCHANGED <<tp, ret>>
  BY <1>1, <1>2, <1>3, <1>4, Where, Walks DEF Goto
<1>5. CASE Goto(u, "done") /\ UNCHANGED <<tp, ret>>
  BY <1>1, <1>2, <1>3, <1>5, Where, Walks DEF Goto
<1>6. CASE Goto(u, "waiting") /\ tp' = [tp EXCEPT !.sending = @ \cup {u}] /\ UNCHANGED ret
  <2>1. /\ tp' \in Transports /\ tp'.ref = tp.ref
        /\ tp'.delayed = tp.delayed /\ tp'.sending = tp.sending \cup {u}
    BY <1>1, <1>6, Where DEF Transports
  <2>2. u \notin Waiting /\ tp.delayed \cap tp.sending = {}
    BY <1>1 DEF IInv, Listed, Waiting
  <2>3. tp'.delayed \cap tp'.sending = {} /\ Waiting' = Waiting \cup {u}
    BY <2>1, <2>2 DEF Waiting
  <2>4. tp'.ref = tp.ref + Share(u, "waiting") - Share(u, pc[u])
    BY <1>1, <1>2, <2>1, Where
  <2> QED BY <1>1, <1>3, <1>6, <2>1, <2>3, <2>4, Where, Moves DEF Goto
<1>7. CASE InitShutdown(u, "done") /\ UNCHANGED tp
  <2>1. Fits(u, "init", "done") /\ "done" \in Backs
    BY Kinds DEF Fits, UserPlaces, Initiating, Backs
  <2> QED BY <1>1, <1>2, <1>3, <1>7, <2>1, Where, InitShutdownStep
<1> QED BY <1>4, <1>5, <1>6, <1>7 DEF Send, SendNow

(* A message kept back is put on the list by the user that waits for it.   *)
LEMMA QueueStep ==
  ASSUME IInv, NEW u \in Users, Queue(u)
  PROVE  IInv'
<1>1. pc[u] = "queueing" /\ pc' = [pc EXCEPT ![u] = "waiting"] /\ u \in Threads
      /\ ret' = [ret EXCEPT ![u] = ret[u]] /\ heap' = heap
  BY Kinds, Where DEF Queue, Goto
<1>2. Share(u, pc[u]) = 1 /\ Share(u, "waiting") = 1
  BY <1>1 DEF Share, One, Relying, Keeping, Using, Initiating
<1>3. Fits(u, "waiting", ret[u]) /\ "waiting" \in Places
  BY Kinds DEF Fits, Places, UserPlaces, Using, Initiating
<1>4. /\ tp' \in Transports /\ tp'.ref = tp.ref
      /\ tp'.delayed = tp.delayed \cup {u} /\ tp'.sending = tp.sending
  BY <1>1, Where DEF Queue, Transports
<1>5. u \notin Waiting /\ tp.delayed \cap tp.sending = {}
  BY <1>1 DEF IInv, Listed, Waiting
<1>6. tp'.delayed \cap tp'.sending = {} /\ Waiting' = Waiting \cup {u}
  BY <1>4, <1>5 DEF Waiting
<1>7. tp'.ref = tp.ref + Share(u, "waiting") - Share(u, pc[u])
  BY <1>1, <1>2, <1>4, Where
<1> QED BY <1>1, <1>3, <1>4, <1>6, <1>7, Where, Moves

(* A user that is not waiting lets its reference go.                       *)
LEMMA ReleaseStep ==
  ASSUME IInv, NEW u \in Users, Release(u)
  PROVE  IInv'
<1>1. pc[u] \in {"has", "done"} /\ DecRef(u, "idle") /\ u \in Threads
  BY Kinds DEF Release
<1>2. Share(u, pc[u]) = 1 /\ Share(u, "idle") = 0
  BY <1>1 DEF Share, One, Relying, Keeping, Using, Initiating
<1>3. Fits(u, "idle", ret[u]) /\ "idle" \in Backs
  BY Kinds DEF Fits, UserPlaces, Using, Initiating, Backs
<1> QED BY <1>1, <1>2, <1>3, DecRefStep
-----------------------------------------------------------------------------
(* The socket.                                                             *)

(* A completion: the user goes on and so does the socket's thread.  The    *)
(* user keeps its reference, the thread has none.                          *)
LEMMA SentStep ==
  ASSUME IInv, NEW u \in Waiting, NEW l \in {"idle", "flush", "drain", "init"},
         NEW back \in {"idle", "flush", "drain"},
         pc[Io] \in {"idle", "flush", "drain"},
         pc' = [pc EXCEPT ![u] = "done", ![Io] = l], ret' = [ret EXCEPT ![Io] = back],
         tp' \in Transports, heap' \subseteq {"idle", "ka"},
         tp'.ref = tp.ref,
         tp'.delayed = tp.delayed \ {u}, tp'.sending = tp.sending \ {u}
  PROVE  IInv'
<1>1. TypeOK /\ InPlace /\ Listed
  BY DEF IInv
<1>2. u \in Users /\ u # Io /\ u \in Threads /\ Io \in Threads /\ pc[u] = "waiting"
  BY <1>1, Kinds DEF Waiting, Listed, TypeOK, Transports
<1>3. /\ \A x \in Threads : x # u /\ x # Io => pc'[x] = pc[x] /\ ret'[x] = ret[x]
      /\ pc'[u] = "done" /\ ret'[u] = ret[u] /\ pc'[Io] = l /\ ret'[Io] = back
  BY <1>1, <1>2 DEF TypeOK
<1>4. TypeOK'
  <2>1. "done" \in Places /\ l \in Places /\ back \in Backs
    BY DEF Places, UserPlaces, IoPlaces, Using, Initiating, Backs
  <2> QED BY <1>1, <2>1 DEF TypeOK
<1>5. InPlace'
  <2>1. Fits(u, "done", ret[u])
    BY <1>2, Kinds DEF Fits, UserPlaces, Using, Initiating
  <2>2. Fits(Io, l, back)
    BY Kinds DEF Fits, IoPlaces, Initiating
  <2>3. ASSUME NEW x \in Threads PROVE Fits(x, pc'[x], ret'[x])
    BY <1>1, <1>3, <2>1, <2>2 DEF InPlace
  <2> QED BY <2>3 DEF InPlace
<1>6. Listed'
  BY <1>1, <1>2, <1>3, Kinds DEF Listed
<1>7. /\ pc'[u] \in Relying /\ pc[u] \in Relying /\ pc'[u] \notin Keeping /\ pc[u] \notin Keeping
      /\ pc'[Io] \notin Keeping /\ pc[Io] \notin Keeping
  BY <1>2, <1>3 DEF Relying, Keeping, Using, Initiating
<1>8. Holders' = Holders /\ Keepers' = Keepers
  <2>1. \A x \in Users : pc'[x] \in Relying <=> pc[x] \in Relying
    BY <1>2, <1>3, <1>7, Kinds
  <2>2. \A x \in Threads : pc'[x] \in Keeping <=> pc[x] \in Keeping
    BY <1>2, <1>3, <1>7
  <2> QED BY <1>1, <1>5, <2>1, <2>2, Counted
<1> QED BY <1>4, <1>5, <1>6, <1>8 DEF IInv, RefsAccounted

(* The completion of u's message as the socket's steps have it.            *)
LEMMA CompletionStep ==
  ASSUME IInv, NEW u \in Waiting, NEW back \in {"idle", "flush", "drain"},
         pc[Io] \in {"idle", "flush", "drain"},
         \/ Sent(u, back) /\ UNCHANGED ret
         \/ SendFailed(u, back),
         tp' \in Transports, heap' \subseteq {"idle", "ka"},
         tp'.ref = tp.ref,
         tp'.delayed = tp.delayed \ {u}, tp'.sending = tp.sending \ {u}
  PROVE  IInv'
<1>1. ret[Io] \in {"idle", "flush", "drain"} /\ ret = [ret EXCEPT ![Io] = ret[Io]]
  BY Where, Kinds DEF Fits
<1>2. CASE Sent(u, back) /\ UNCHANGED ret
  BY <1>1, <1>2, SentStep DEF Sent
<1>3. CASE Sent(u, "init") /\ ret' = [ret EXCEPT ![Io] = back]
  BY <1>3, SentStep DEF Sent
<1> QED BY <1>2, <1>3 DEF SendFailed

(* The socket's thread has nothing in the counter but for a shutdown, and  *)
(* may go on anywhere in its loop.                                         *)
LEMMA IoShares ==
  \A l \in {"idle", "flush", "drain", "init"} :
     /\ Share(Io, l) = 0 /\ l \in Places /\ l # "waiting"
     /\ \A back \in {"idle", "flush", "drain"} : Fits(Io, l, back)
  BY Kinds DEF Share, One, Keeping, Initiating, Places, IoPlaces, Fits

(* The end of the connect, with success or not, keeps the invariant.       *)
LEMMA ConnectCompleteStep ==
  ASSUME IInv, ConnectComplete
  PROVE  IInv'
<1>1. PICK l \in {"flush", "drain"} :
         pc[Io] = "idle" /\ pc' = [pc EXCEPT ![Io] = l] /\ ret' = [ret EXCEPT ![Io] = ret[Io]]
  BY Where, Kinds DEF ConnectComplete, IoIdle, Goto
<1>2. ret[Io] \in {"idle", "flush", "drain"}
  BY Where, Kinds DEF Fits
<1>3. /\ tp' \in Transports /\ heap' \subseteq {"idle", "ka"}
      /\ tp'.ref = tp.ref /\ tp'.delayed = tp.delayed /\ tp'.sending = tp.sending
  BY Where, Kinds DEF ConnectComplete, Transports
<1> QED BY <1>1, <1>2, <1>3, IoShares, Kinds, Where, Walks

(* So does the flush of the list: what is sent moves to the other list,    *)
(* what is too old leaves with its user, and what fails is answered.       *)
LEMMA FlushStep ==
  ASSUME IInv, Flush
  PROVE  IInv'
<1>1. pc[Io] = "flush" /\ tp \in Transports /\ heap \subseteq {"idle", "ka"}
      /\ tp.delayed \cap tp.sending = {} /\ ret[Io] \in {"idle", "flush", "drain"}
  BY Where, Kinds DEF Flush, IInv, Listed, Fits
<1>2. ASSUME NEW u \in tp.delayed, UNCHANGED heap, tp' = [tp EXCEPT !.delayed = @ \ {u}],
             \/ Sent(u, "flush") /\ UNCHANGED ret
             \/ SendFailed(u, "flush")
      PROVE  IInv'
  <2>1. /\ tp' \in Transports /\ tp'.ref = tp.ref
        /\ tp'.delayed = tp.delayed \ {u} /\ tp'.sending = tp.sending \ {u}
    BY <1>1, <1>2 DEF Transports
  <2> QED BY <1>1, <1>2, <2>1, CompletionStep DEF Waiting
<1>3. ASSUME NEW u \in tp.delayed, UNCHANGED <<heap, ret>>, tp' = [tp EXCEPT !.delayed = @ \ {u}],
             pc' = [pc EXCEPT ![u] = "lost"]
      PROVE  IInv'
  <2>1. /\ tp' \in Transports /\ tp'.ref = tp.ref
        /\ tp'.delayed = tp.delayed \ {u} /\ tp'.sending = tp.sending
    BY <1>1, <1>3 DEF Transports
  <2>2. u \in Users /\ pc[u] = "waiting" /\ u \in Threads
    BY <1>1, Kinds DEF IInv, Listed, Transports
  <2>3. Fits(u, "lost", ret[u]) /\ "lost" \in Places
    BY <2>2, Kinds DEF Fits, Places, UserPlaces, Using, Initiating
  <2>4. Share(u, "lost") = 1 /\ Share(u, pc[u]) = 1
    BY <2>2 DEF Share, One, Relying, Keeping, Using, Initiating
  <2>5. tp'.ref = tp.ref + Share(u, "lost") - Share(u, pc[u])
    BY <2>1, <2>2, <2>4, Where
  <2>6. tp'.delayed \cap tp'.sending = {} /\ Waiting' = Waiting \ {u}
    BY <1>1, <2>1 DEF Waiting
  <2> QED BY <1>1, <1>3, <2>1, <2>2, <2>3, <2>5, <2>6, Where, Moves
<1>4. ASSUME NEW u \in tp.delayed, UNCHANGED <<heap, pc, ret>>,
             tp' = [tp EXCEPT !.delayed = @ \ {u}, !.sending = @ \cup {u}]
      PROVE  IInv'
  <2>1. /\ tp' \in Transports /\ tp'.ref = tp.ref
        /\ tp'.delayed = tp.delayed \ {u} /\ tp'.sending = tp.sending \cup {u}
    BY <1>1, <1>4 DEF Transports
  <2>2. Listed'
    BY <1>1, <1>4, <2>1 DEF IInv, Listed
  <2>3. Holders' = Holders /\ Keepers' = Keepers
    BY <1>4 DEF Holders, Keepers
  <2> QED BY <1>4, <2>1, <2>2, <2>3 DEF IInv, TypeOK, InPlace, RefsAccounted
<1>5. ASSUME tp' = [tp EXCEPT !.ka = TRUE], heap' = heap \cup {"ka"},
             Goto(Io, "idle"), UNCHANGED ret
      PROVE  IInv'
  <2>1. /\ tp' \in Transports /\ tp'.ref = tp.ref /\ heap' \subseteq {"idle", "ka"}
        /\ tp'.delayed = tp.delayed /\ tp'.sending = tp.sending
    BY <1>1, <1>5 DEF Transports
  <2> QED BY <1>1, <1>5, <2>1, IoShares, Kinds, Where, Walks DEF Goto
<1> QED BY <1>2, <1>3, <1>4, <1>5 DEF Flush

(* So does the report of what a failed connection has kept back.           *)
LEMMA DrainStep ==
  ASSUME IInv, Drain
  PROVE  IInv'
<1>1. pc[Io] = "drain" /\ tp \in Transports /\ heap' = heap /\ heap \subseteq {"idle", "ka"}
      /\ tp.delayed \cap tp.sending = {} /\ ret[Io] \in {"idle", "flush", "drain"}
  BY Where, Kinds DEF Drain, IInv, Listed, Fits
<1>2. ASSUME NEW u \in tp.delayed, tp' = [tp EXCEPT !.delayed = @ \ {u}],
             SendFailed(u, "drain")
      PROVE  IInv'
  <2>1. /\ tp' \in Transports /\ tp'.ref = tp.ref
        /\ tp'.delayed = tp.delayed \ {u} /\ tp'.sending = tp.sending \ {u}
    BY <1>1, <1>2 DEF Transports
  <2> QED BY <1>1, <1>2, <2>1, CompletionStep DEF Waiting
<1>3. ASSUME InitShutdown(Io, "idle"), UNCHANGED tp
      PROVE  IInv'
  BY <1>1, <1>3, IoShares, Kinds, InitShutdownStep DEF Backs
<1> QED BY <1>2, <1>3 DEF Drain

(* So does the answer to a send, which takes the message off its list.     *)
LEMMA DataSentStep ==
  ASSUME IInv, DataSent
  PROVE  IInv'
<1>1. PICK u \in tp.sending :
         /\ tp' = [tp EXCEPT !.sending = @ \ {u}]
         /\ (Sent(u, "idle") /\ UNCHANGED ret) \/ SendFailed(u, "idle")
  BY DEF DataSent
<1>2. pc[Io] = "idle" /\ tp \in Transports /\ heap' = heap /\ heap \subseteq {"idle", "ka"}
      /\ tp.delayed \cap tp.sending = {}
  BY Where, Kinds DEF DataSent, IoIdle, IInv, Listed
<1>3. /\ tp' \in Transports /\ tp'.ref = tp.ref
      /\ tp'.delayed = tp.delayed \ {u} /\ tp'.sending = tp.sending \ {u}
  BY <1>1, <1>2 DEF Transports
<1> QED BY <1>1, <1>2, <1>3, CompletionStep DEF Waiting

(* So does the end of the connection.                                      *)
LEMMA ClosedStep ==
  ASSUME IInv, Closed
  PROVE  IInv'
<1>1. /\ pc[Io] = "idle" /\ InitShutdown(Io, "idle") /\ heap' = heap
      /\ tp' = [tp EXCEPT !.eof = TRUE]
      /\ ret[Io] \in {"idle", "flush", "drain"}
  BY Where, Kinds DEF Closed, Reading, IoIdle, Fits
<1>2. /\ tp' \in Transports /\ heap' \subseteq {"idle", "ka"}
      /\ tp'.ref = tp.ref /\ tp'.delayed = tp.delayed /\ tp'.sending = tp.sending
  BY <1>1, Where, Kinds DEF Transports
<1> QED BY <1>1, <1>2, IoShares, Kinds, InitShutdownStep DEF Backs
-----------------------------------------------------------------------------
(* The workers.                                                            *)

(* A worker has nothing in the counter either.                             *)
LEMMA WorkerShares ==
  \A w \in Workers, l \in {"idle", "idle_popped", "test", "destroy", "ka_popped", "init"} :
     /\ Share(w, l) = 0 /\ l \in Places /\ l # "waiting"
     /\ Fits(w, l, "idle")
  BY Kinds DEF Share, One, Keeping, Initiating, Places, WorkerPlaces, Fits

(* The destruction: what was kept back is reported, and its users go on.   *)
LEMMA DestroyStep ==
  ASSUME IInv, NEW w \in Workers, Destroy(w)
  PROVE  IInv'
<1>1. TypeOK /\ InPlace /\ Listed /\ pc[w] = "destroy"
  BY DEF IInv, Destroy
<1>2. \A x \in tp.delayed : x \in Users /\ pc[x] = "waiting"
  BY <1>1 DEF Listed, TypeOK, Transports
<1>3. /\ ret' = ret
      /\ \A x \in Threads : pc'[x] = IF x = w THEN "idle"
                                   ELSE IF x \in tp.delayed THEN "done" ELSE pc[x]
  BY DEF Destroy
<1>4. /\ tp' \in Transports /\ tp'.ref = tp.ref
      /\ tp'.delayed = {} /\ tp'.sending = tp.sending
      /\ heap' \subseteq {"idle", "ka"}
  BY <1>1 DEF TypeOK, Transports, Destroy
<1>5. TypeOK'
  <2>1. "idle" \in Places /\ "done" \in Places
    BY DEF Places, UserPlaces, Using
  <2>2. pc' \in [Threads -> Places]
    BY <1>1, <2>1 DEF TypeOK, Destroy
  <2> QED BY <1>1, <1>3, <1>4, <2>2 DEF TypeOK
<1>6. InPlace'
  <2>1. ASSUME NEW x \in tp.delayed PROVE Fits(x, "done", ret[x])
    BY <1>2, Kinds DEF Fits, UserPlaces, Using, Initiating
  <2>2. Fits(w, "idle", ret[w])
    BY WorkerShares, Where, Kinds DEF Fits
  <2>3. ASSUME NEW x \in Threads PROVE Fits(x, pc'[x], ret'[x])
    BY <1>1, <1>3, <2>1, <2>2 DEF InPlace
  <2> QED BY <2>3 DEF InPlace
<1>7. Listed'
  BY <1>1, <1>2, <1>3, <1>4, Kinds DEF Listed
<1>8. Holders' = Holders /\ Keepers' = Keepers
  <2>1. \A x \in Users : pc'[x] \in Relying <=> pc[x] \in Relying
    BY <1>1, <1>2, <1>3, Kinds DEF Relying, Using, Initiating
  <2>2. \A x \in Threads : pc'[x] \in Keeping <=> pc[x] \in Keeping
    BY <1>1, <1>2, <1>3 DEF Keeping, Initiating
  <2> QED BY <1>1, <1>6, <2>1, <2>2, Counted
<1> QED BY <1>4, <1>5, <1>6, <1>7, <1>8 DEF IInv, RefsAccounted

(* The timers keep the invariant; a transport that is destroyed answers    *)
(* those whose message was kept back.                                      *)
LEMMA WorkerStep ==
  ASSUME IInv, NEW w \in Workers, Worker(w)
  PROVE  IInv'
<1>1. w \in Threads /\ ret[w] = "idle" /\ ret = [ret EXCEPT ![w] = "idle"]
      /\ "idle" \in Backs /\ tp \in Transports /\ heap \subseteq {"idle", "ka"}
  BY Where, Kinds DEF Fits, Backs
<1>2. ASSUME NEW e \in {"idle", "ka"}, Pop(w, e)
      PROVE  IInv'
  <2>1. PICK l \in {"idle_popped", "ka_popped"} : pc' = [pc EXCEPT ![w] = l]
    BY <1>2 DEF Pop, Goto
  <2>2. pc[w] = "idle" /\ tp' = tp /\ ret' = ret /\ heap' \subseteq {"idle", "ka"}
    BY <1>1, <1>2 DEF Pop
  <2> QED BY <1>1, <2>1, <2>2, WorkerShares, Walks
<1>3. CASE IdleCallback(w)
  <2>1. /\ tp' \in Transports /\ tp'.ref = tp.ref
        /\ tp'.delayed = tp.delayed /\ tp'.sending = tp.sending
    BY <1>1, <1>3 DEF IdleCallback, Transports
  <2>2. pc[w] = "idle_popped" /\ pc' = [pc EXCEPT ![w] = "test"] /\ ret' = ret /\ heap' = heap
    BY <1>3 DEF IdleCallback, Goto
  <2> QED BY <1>1, <2>1, <2>2, WorkerShares, Walks
<1>4. CASE DestroyTest(w)
  <2>1. PICK l \in {"destroy", "idle"} : pc' = [pc EXCEPT ![w] = l]
    BY <1>4 DEF DestroyTest, Goto
  <2>2. pc[w] = "test" /\ tp' = tp /\ ret' = ret /\ heap' = heap
    BY <1>4 DEF DestroyTest
  <2> QED BY <1>1, <2>1, <2>2, WorkerShares, Walks
<1>5. CASE KeepAlive(w)
  <2>1. /\ tp' \in Transports /\ tp'.ref = tp.ref /\ heap' \subseteq {"idle", "ka"}
        /\ tp'.delayed = tp.delayed /\ tp'.sending = tp.sending /\ pc[w] = "ka_popped"
    BY <1>1, <1>5 DEF KeepAlive, Transports
  <2>2. CASE Goto(w, "idle") /\ UNCHANGED ret
    BY <1>1, <2>1, <2>2, WorkerShares, Walks DEF Goto
  <2>3. CASE InitShutdown(w, "idle")
    BY <1>1, <2>1, <2>3, WorkerShares, InitShutdownStep
  <2> QED BY <1>5, <2>2, <2>3 DEF KeepAlive
<1> QED BY <1>2, <1>3, <1>4, <1>5, DestroyStep DEF Worker

-----------------------------------------------------------------------------
(* The invariant holds in the initial states.                              *)
LEMMA Initially == Init => IInv
<1> SUFFICES ASSUME Init PROVE IInv
  OBVIOUS
<1>1. ret = [th \in Threads |-> "idle"] /\ heap \subseteq {"idle", "ka"}
  BY DEF Init
<1>2. \A th \in Threads : Fits(th, "idle", "idle")
  BY Kinds DEF Fits, UserPlaces, IoPlaces, WorkerPlaces, Initiating, Using
<1>3. "idle" \in Places /\ "idle" \in Backs /\ "has" \in Places
  BY DEF Places, UserPlaces, Using, Backs
<1>4. CASE tp = NewTransport(0, FALSE) /\ pc = [th \in Threads |-> "idle"]
  <2>1. TypeOK /\ tp.ref = 0 /\ tp.delayed = {} /\ tp.sending = {}
    BY <1>1, <1>3, <1>4 DEF TypeOK, Transports, NewTransport
  <2>2. InPlace
    BY <1>1, <1>2, <1>4 DEF InPlace
  <2>3. Listed
    BY <1>4, <2>1, Kinds DEF Listed
  <2>4. Holders = {} /\ Keepers = {}
    BY <1>4, Kinds DEF Holders, Keepers, Using, Initiating
  <2> QED BY <2>1, <2>2, <2>3, <2>4, FS_EmptySet DEF IInv, RefsAccounted
<1>5. ASSUME NEW u \in Users, tp = NewTransport(1, TRUE),
             pc = [th \in Threads |-> IF th = u THEN "has" ELSE "idle"]
      PROVE  IInv
  <2>1. TypeOK /\ tp.ref = 1 /\ tp.delayed = {} /\ tp.sending = {}
    BY <1>1, <1>3, <1>5 DEF TypeOK, Transports, NewTransport
  <2>2. InPlace
    <3>1. Fits(u, "has", "idle")
      BY Kinds DEF Fits, UserPlaces, Using, Initiating
    <3> QED BY <1>1, <1>2, <1>5, <3>1 DEF InPlace
  <2>3. Listed
    BY <1>5, <2>1, Kinds DEF Listed
  <2>4. Holders = {u} /\ Keepers = {}
    BY <1>5, Kinds DEF Holders, Keepers, Using, Initiating
  <2>5. Cardinality(Holders) = 1 /\ Cardinality(Keepers) = 0
    <3>1. Cardinality({u}) = 1
      BY FS_Singleton
    <3> QED BY <2>4, <3>1, FS_EmptySet
  <2> QED BY <2>1, <2>2, <2>3, <2>5 DEF IInv, RefsAccounted
<1> QED BY <1>4, <1>5 DEF Init

(* And every step keeps it.                                                *)
LEMMA Inductive == IInv /\ [Next]_vars => IInv'
<1> SUFFICES ASSUME IInv, [Next]_vars PROVE IInv'
  OBVIOUS
<1>1. ASSUME NEW th \in Threads, Thread(th) PROVE IInv'
  BY <1>1, VerifyStep, DroppedStep, InitRefStep, ShutdownStep, InitUnrefStep DEF Thread
<1>2. ASSUME NEW u \in Users, Acquire(u) \/ Send(u) \/ Queue(u) \/ Release(u) \/ Receive(u)
      PROVE  IInv'
  BY <1>2, TakeStep, SendStep, QueueStep, ReleaseStep
<1>3. CASE Socket \/ Closed
  BY <1>3, ConnectCompleteStep, FlushStep, DrainStep, DataSentStep, ClosedStep DEF Socket
<1>4. CASE UNCHANGED vars
  BY <1>4 DEF vars, IInv, TypeOK, InPlace, Listed, RefsAccounted, Holders, Keepers
<1> QED BY <1>1, <1>2, <1>3, <1>4, WorkerStep DEF Next, Step

(* At any moment the counter of the transport is the number of the users   *)
(* that hold it and of the threads that keep it over a shutdown's          *)
(* callbacks (pjsip_transport_add_ref(), pjsip_transport_dec_ref()), for   *)
(* any number of threads and any faults.                                   *)
THEOREM RefsCorrect == Spec => []RefsAccounted
<1>1. IInv => RefsAccounted
  BY DEF IInv
<1> QED BY <1>1, Initially, Inductive, PTL DEF Spec

(* A user that waits for the callback of its send has its message on one   *)
(* list, kept back or under way: none is on both, where it would be        *)
(* answered twice, and none on neither (tcp_send_msg(), on_data_sent()).   *)
THEOREM WaitingListed == Spec => []Listed
<1>1. IInv => Listed
  BY DEF IInv
<1> QED BY <1>1, Initially, Inductive, PTL DEF Spec

-----------------------------------------------------------------------------
(* The timer heap.  First the paths through a table of successors.         *)

(* A nonempty set of numbers has a least one.                              *)
LEMMA LeastNumber ==
    ASSUME NEW S, S \subseteq Nat, S # {}
    PROVE  \E k \in S : \A j \in S : k <= j
<1>1. PICK k \in S : \A j \in S : <<j, k>> \notin OpToRel(<, Nat)
  BY NatLessThanWellFounded, WFMin
<1>2. \A j \in S : ~(j < k)
  BY <1>1 DEF OpToRel
<1> QED BY <1>2

Around(next, i) == {i} \cup DOMAIN next \cup Range(next)

(* A set that holds what follows each of its members.                      *)
ClosedUnder(next, P) == \A p \in P \cap DOMAIN next : next[p] \in P

(* The path is the one its definition describes: the least closed sets of  *)
(* the places satisfy the recursion.                                       *)
LEMMA PathUnfolds ==
    ASSUME NEW next, NEW i
    PROVE  \E path : /\ path = [p \in Around(next, i) |->
                                  {p} \cup (IF p \in DOMAIN next THEN path[next[p]] ELSE {})]
                     /\ Path(next, i) = path[i]
<1> DEFINE S == Around(next, i)
           Least(x) == {y \in S : \A P \in SUBSET S : x \in P /\ ClosedUnder(next, P) => y \in P}
           f == [x \in S |-> Least(x)]
           Unfolds(path) ==
             path = [p \in S |-> {p} \cup (IF p \in DOMAIN next THEN path[next[p]] ELSE {})]
<1>1. ASSUME NEW p \in DOMAIN next PROVE p \in S /\ next[p] \in S
  BY DEF Around, Range
<1>2. ASSUME NEW p \in S, p \in DOMAIN next PROVE Least(p) = {p} \cup Least(next[p])
  <2>1. ClosedUnder(next, {p} \cup Least(next[p]))
    <3>1. ASSUME NEW z \in ({p} \cup Least(next[p])) \cap DOMAIN next
          PROVE  next[z] \in Least(next[p])
      BY <1>1, <1>2, <3>1 DEF ClosedUnder
    <3> QED BY <3>1 DEF ClosedUnder
  <2>2. Least(p) \subseteq {p} \cup Least(next[p])
    BY <1>2, <2>1
  <2>3. {p} \cup Least(next[p]) \subseteq Least(p)
    <3>1. ASSUME NEW P \in SUBSET S, p \in P, ClosedUnder(next, P) PROVE next[p] \in P
      BY <1>2, <3>1 DEF ClosedUnder
    <3> QED BY <1>2, <3>1
  <2> QED BY <2>2, <2>3
<1>3. ASSUME NEW p \in S, p \notin DOMAIN next PROVE Least(p) = {p}
  <2>1. ClosedUnder(next, {p})
    BY <1>3 DEF ClosedUnder
  <2> QED BY <1>3, <2>1
<1>4. Unfolds(f)
  <2>1. ASSUME NEW p \in S
        PROVE  Least(p) = {p} \cup (IF p \in DOMAIN next THEN f[next[p]] ELSE {})
    <3>1. p \in DOMAIN next => f[next[p]] = Least(next[p])
      BY <1>1
    <3> HIDE DEF f, Least
    <3> QED BY <1>2, <1>3, <3>1
  <2> HIDE DEF Least
  <2> QED BY <2>1
<1>5. PICK path : path = CHOOSE g : Unfolds(g)
  OBVIOUS
<1>6. Unfolds(path)
  BY <1>4, <1>5
<1>7. Path(next, i) = path[i]
  BY <1>5 DEF Path, Around
<1> QED BY <1>6, <1>7


(* A number that falls along the path.                                     *)
Falls(next, i, mu) == /\ mu \in [Around(next, i) -> Nat]
                      /\ \A p \in DOMAIN next : mu[next[p]] < mu[p]

(* What a path is then: a line of places from i to the only one that leads *)
(* no further.                                                             *)
Line(P, next, i, mu) ==
    /\ i \in P /\ P \subseteq Around(next, i)
    /\ \A p \in P \cap DOMAIN next : next[p] \in P /\ next[p] # i
    /\ \A p, q \in P \cap DOMAIN next : next[p] = next[q] => p = q
    /\ \A p \in P \ {i} : mu[p] < mu[i] /\ \E q \in P \cap DOMAIN next : next[q] = p
    /\ \E e \in P : \A p \in P : mu[e] <= mu[p] /\ (p \in DOMAIN next <=> p # e)

(* Whatever falls along it, a path is a line.                              *)
LEMMA PathLine ==
    ASSUME NEW next, NEW i, NEW mu, Falls(next, i, mu)
    PROVE  Line(Path(next, i), next, i, mu)
<1> DEFINE S == Around(next, i)
           Unfolds(path) ==
             path = [p \in S |-> {p} \cup (IF p \in DOMAIN next THEN path[next[p]] ELSE {})]
<1>1. PICK path : Unfolds(path) /\ Path(next, i) = path[i]
  BY PathUnfolds
<1>2. /\ i \in S /\ mu \in [S -> Nat]
      /\ \A p \in DOMAIN next : p \in S /\ next[p] \in S /\ mu[next[p]] < mu[p]
  BY DEF Falls, Around, Range
<1>3. ASSUME NEW p \in S PROVE path[p] = {p} \cup (IF p \in DOMAIN next THEN path[next[p]] ELSE {})
  BY <1>1
<1> DEFINE Is(P, x) == /\ x \in P /\ P \subseteq S
                       /\ \A p \in P \cap DOMAIN next : next[p] \in P /\ next[p] # x
                       /\ \A p, q \in P \cap DOMAIN next : next[p] = next[q] => p = q
                       /\ \A p \in P \ {x} : mu[p] < mu[x] /\ \E q \in P \cap DOMAIN next : next[q] = p
                       /\ \E e \in P : \A p \in P : mu[e] <= mu[p] /\ (p \in DOMAIN next <=> p # e)
           Bad == {x \in S : ~Is(path[x], x)}
<1> HIDE DEF S
<1>4. Bad = {}
  <2>1. SUFFICES ASSUME Bad # {} PROVE FALSE
    OBVIOUS
  <2>2. PICK k \in {mu[x] : x \in Bad} : \A j \in {mu[x] : x \in Bad} : k <= j
    <3> HIDE DEF Is
    <3>1. {mu[x] : x \in Bad} \subseteq Nat /\ {mu[x] : x \in Bad} # {}
      BY <1>2, <2>1
    <3> QED BY <3>1, LeastNumber
  <2>3. PICK x \in Bad : mu[x] = k
    OBVIOUS
  <2>4. x \in S /\ ~Is(path[x], x) /\ \A y \in Bad : mu[x] <= mu[y]
    BY <2>2, <2>3
  <2>5. CASE x \notin DOMAIN next
    <3>1. path[x] = {x}
      BY <1>3, <2>4, <2>5
    <3>2. Is({x}, x)
      BY <1>2, <2>4, <2>5
    <3> QED BY <2>4, <3>1, <3>2
  <2>6. CASE x \in DOMAIN next
    <3> DEFINE n == next[x]
    <3>1. path[x] = {x} \cup path[n] /\ n \in S /\ mu[n] < mu[x] /\ mu[n] \in Nat /\ mu[x] \in Nat
      BY <1>2, <1>3, <2>4, <2>6
    <3>2. Is(path[n], n)
      BY <1>2, <2>4, <3>1
    <3> HIDE DEF n, Bad
    <3>3. /\ n \in path[n] /\ path[n] \subseteq S
          /\ \A p \in path[n] \cap DOMAIN next : next[p] \in path[n] /\ next[p] # n
          /\ \A p, q \in path[n] \cap DOMAIN next : next[p] = next[q] => p = q
          /\ \A p \in path[n] \ {n} : mu[p] < mu[n] /\ \E q \in path[n] \cap DOMAIN next : next[q] = p
      BY <3>2
    <3>4. PICK e \in path[n] : \A p \in path[n] : mu[e] <= mu[p] /\ (p \in DOMAIN next <=> p # e)
      BY <3>2
    <3> HIDE DEF Is
    <3>5. \A p \in path[n] : mu[p] < mu[x] /\ p # x /\ mu[p] \in Nat
      <4>1. \A p \in path[n] : mu[p] \in Nat
        BY <1>2, <3>3
      <4>2. \A p \in path[n] : mu[p] <= mu[n]
        BY <3>1, <3>3, <4>1
      <4> QED BY <3>1, <4>1, <4>2
    <3>6. x \in path[x] /\ path[x] \subseteq S
      BY <2>4, <3>1, <3>3
    <3>7. \A p \in path[x] \cap DOMAIN next : next[p] \in path[x] /\ next[p] # x
      BY <3>1, <3>3, <3>5 DEF n
    <3>8. \A p, q \in path[x] \cap DOMAIN next : next[p] = next[q] => p = q
      BY <3>1, <3>3 DEF n
    <3>9. \A p \in path[x] \ {x} : mu[p] < mu[x] /\ \E q \in path[x] \cap DOMAIN next : next[q] = p
      <4>1. ASSUME NEW p \in path[x] \ {x} PROVE \E q \in path[x] \cap DOMAIN next : next[q] = p
        <5>1. CASE p = n
          BY <2>6, <3>6, <5>1 DEF n
        <5>2. CASE p # n
          BY <3>1, <3>3, <5>2
        <5> QED BY <5>1, <5>2
      <4> QED BY <3>1, <3>5, <4>1
    <3>10. \E z \in path[x] : \A p \in path[x] : mu[z] <= mu[p] /\ (p \in DOMAIN next <=> p # z)
      <4>1. e \in path[x] /\ e # x /\ mu[e] < mu[x]
        BY <3>1, <3>5
      <4>2. \A p \in path[x] : mu[e] <= mu[p] /\ (p \in DOMAIN next <=> p # e)
        BY <2>6, <3>1, <3>4, <3>5, <4>1
      <4> QED BY <4>1, <4>2
    <3>11. Is(path[x], x)
      BY <3>6, <3>7, <3>8, <3>9, <3>10 DEF Is
    <3> QED BY <2>4, <3>11
  <2> QED BY <2>5, <2>6
<1>5. Is(path[i], i)
  BY <1>2, <1>4
<1>6. Line(path[i], next, i, mu)
  BY <1>5 DEF Line, S
<1> QED BY <1>1, <1>6


-----------------------------------------------------------------------------
(* The array and the table.                                                *)

Fields == {"heap", "size", "ids", "free", "tid", "time", "lock", "refs"}

Ids(g) == 1 .. MaxSize(g) - 1

(* The types of all but the array.                                         *)
Typed(g) == /\ Fields \subseteq DOMAIN g
            /\ g.size \in Nat /\ g.free \in Nat /\ g.refs \in Int
            /\ MaxSize(g) \in Nat /\ MaxSize(g) >= 2
            /\ g.ids \in [0 .. MaxSize(g) - 1 -> Int] /\ g.ids[0] < 0
            /\ g.tid \in [Entries -> Int] /\ g.time \in [Entries -> Nat]
            /\ g.lock \subseteq Entries

(* The entry of slot s has a place in the table that leads back to s.      *)
Seated(g, s) == /\ g.heap[s] \in Entries /\ g.tid[g.heap[s]] \in Ids(g)
                /\ g.ids[g.tid[g.heap[s]]] = s

Filled(g, D) == g.heap \in [D -> Entries] /\ \A s \in D : Seated(g, s)

(* The slots D are filled but for one, which is waiting for n.             *)
Hole(g, D, slot, n) ==
    /\ Typed(g) /\ D \subseteq Nat /\ slot \in D
    /\ DOMAIN g.heap \cup {slot} = D
    /\ n \in Entries /\ g.tid[n] \in Ids(g)
    /\ \A s \in D \ {slot} : Seated(g, s) /\ g.tid[g.heap[s]] # g.tid[n]

Held(g, D) == {g.heap[s] : s \in D}

(* What copy_node() leaves alone.                                          *)
Rest(g, r) == /\ DOMAIN r = DOMAIN g /\ MaxSize(r) = MaxSize(g)
              /\ r.size = g.size /\ r.free = g.free /\ r.tid = g.tid /\ r.time = g.time
              /\ r.lock = g.lock /\ r.refs = g.refs

(* With n in it the slots D are filled, and of the free places only that   *)
(* of n is taken.                                                          *)
FitsIn(g, r, D, slot, n) ==
    /\ Typed(r) /\ Rest(g, r) /\ Filled(r, D)
    /\ Held(r, D) = Held(g, D \ {slot}) \cup {n}
    /\ r.ids[g.tid[n]] >= 0
    /\ \A i \in DOMAIN g.ids : i # g.tid[n] =>
         r.ids[i] = g.ids[i] \/ (r.ids[i] >= 0 /\ g.ids[i] >= 0)

(* Whatever way it goes, a shift fills the hole.                           *)
LEMMA ShiftFills ==
    ASSUME NEW g, NEW next, NEW slot, NEW n, NEW D, NEW mu, NEW r,
           Hole(g, D, slot, n), Falls(next, slot, mu), Path(next, slot) \subseteq D,
           r = Shift(g, next, slot, n)
    PROVE  /\ FitsIn(g, r, D, slot, n)
           /\ \A s \in D : r.heap[s] = IF s \notin Path(next, slot) THEN g.heap[s]
                                       ELSE IF s \in DOMAIN next THEN g.heap[next[s]] ELSE n
<1> DEFINE P == Path(next, slot)
           node(s) == IF s \in DOMAIN next THEN g.heap[next[s]] ELSE n
<1>1. Line(P, next, slot, mu)
  BY PathLine
<1>2. /\ slot \in P /\ P \subseteq D
      /\ \A p \in P \cap DOMAIN next : next[p] \in P /\ next[p] # slot
      /\ \A p, q \in P \cap DOMAIN next : next[p] = next[q] => p = q
      /\ \A p \in P \ {slot} : \E q \in P \cap DOMAIN next : next[q] = p
  BY <1>1 DEF Line
<1>3. PICK e \in P : \A p \in P : p \in DOMAIN next <=> p # e
  BY <1>1 DEF Line
<1>4. /\ r = [g EXCEPT !.heap = [s \in DOMAIN g.heap \cup P |->
                                   IF s \in P THEN node(s) ELSE g.heap[s]],
                       !.ids  = [i \in DOMAIN g.ids |->
                                   IF \E s \in P : g.tid[node(s)] = i
                                   THEN CHOOSE s \in P : g.tid[node(s)] = i ELSE g.ids[i]]]
  BY DEF Shift
<1> HIDE DEF P
<1>5. /\ Rest(g, r)
      /\ r.heap = [s \in D |-> IF s \in P THEN node(s) ELSE g.heap[s]]
      /\ r.ids  = [i \in DOMAIN g.ids |-> IF \E s \in P : g.tid[node(s)] = i
                                          THEN CHOOSE s \in P : g.tid[node(s)] = i ELSE g.ids[i]]
  <2>1. DOMAIN g.heap \cup P = D
    <3>1. DOMAIN g.heap \cup {slot} = D
      BY DEF Hole
    <3> QED BY <1>2, <3>1
  <2>2. Fields \subseteq DOMAIN g
    BY DEF Hole, Typed
  <2> HIDE DEF node
  <2> QED BY <1>4, <2>1, <2>2 DEF Rest, MaxSize, Fields
<1>6. /\ \A s \in D \ {slot} : /\ g.heap[s] \in Entries /\ g.tid[g.heap[s]] \in Ids(g)
                               /\ g.ids[g.tid[g.heap[s]]] = s /\ g.tid[g.heap[s]] # g.tid[n]
      /\ n \in Entries /\ g.tid[n] \in Ids(g) /\ Typed(g) /\ D \subseteq Nat /\ slot \in D
  BY DEF Hole, Seated
<1>7. \A p \in P : /\ node(p) \in Entries /\ g.tid[node(p)] \in Ids(g)
                   /\ p # e => next[p] \in D \ {slot} /\ node(p) = g.heap[next[p]]
                   /\ p = e => node(p) = n
  BY <1>2, <1>3, <1>6
<1> HIDE DEF node
<1>20. ASSUME NEW p \in P, p # e
       PROVE  /\ next[p] \in D \ {slot} /\ node(p) = g.heap[next[p]]
              /\ g.ids[g.tid[node(p)]] = next[p] /\ g.tid[node(p)] # g.tid[n]
  <2>1. next[p] \in D \ {slot} /\ node(p) = g.heap[next[p]]
    BY <1>7, <1>20
  <2> QED BY <1>6, <2>1
<1>21. node(e) = n
  BY <1>7
<1>8. ASSUME NEW p \in P, NEW q \in P, g.tid[node(p)] = g.tid[node(q)] PROVE p = q
  <2>1. CASE p = e \/ q = e
    BY <1>8, <1>20, <1>21, <2>1
  <2>2. CASE p # e /\ q # e
    <3>1. next[p] = next[q]
      BY <1>8, <1>20, <2>2
    <3> QED BY <1>2, <1>3, <2>2, <3>1
  <2> QED BY <2>1, <2>2
<1>9. ASSUME NEW p \in P, NEW s \in D \ P PROVE g.tid[g.heap[s]] # g.tid[node(p)]
  <2>1. s \in D \ {slot} /\ g.ids[g.tid[g.heap[s]]] = s /\ g.tid[g.heap[s]] # g.tid[n]
    BY <1>2, <1>6
  <2>2. CASE p = e
    BY <1>21, <2>1, <2>2
  <2>3. CASE p # e
    BY <1>2, <1>3, <1>20, <2>1, <2>3
  <2> QED BY <2>2, <2>3
<1>10. /\ \A p \in P : r.heap[p] = node(p)
       /\ \A s \in D \ P : r.heap[s] = g.heap[s]
       /\ DOMAIN r.heap = D /\ DOMAIN r.ids = DOMAIN g.ids /\ DOMAIN g.ids = 0 .. MaxSize(g) - 1
  BY <1>2, <1>5, <1>6 DEF Typed
<1>11. \A p \in P : r.ids[g.tid[node(p)]] = p
  <2> TAKE p \in P
  <2>1. g.tid[node(p)] \in DOMAIN g.ids
    BY <1>7, <1>10 DEF Ids
  <2>2. (CHOOSE s \in P : g.tid[node(s)] = g.tid[node(p)]) = p
    BY <1>8
  <2> QED BY <1>5, <2>1, <2>2
<1>12. \A i \in DOMAIN g.ids : \/ r.ids[i] = g.ids[i] /\ \A s \in P : g.tid[node(s)] # i
                               \/ \E s \in P : g.tid[node(s)] = i /\ r.ids[i] = s
  BY <1>5, <1>11
<1>13. \A s \in D \ P : r.ids[g.tid[g.heap[s]]] = s
  <2> TAKE s \in D \ P
  <2>1. g.tid[g.heap[s]] \in DOMAIN g.ids /\ g.ids[g.tid[g.heap[s]]] = s
    BY <1>2, <1>6, <1>10 DEF Ids
  <2> QED BY <1>9, <1>12, <2>1
<1>14. Filled(r, D)
  <2>1. \A s \in D : r.heap[s] \in Entries /\ g.tid[r.heap[s]] \in Ids(g) /\ r.ids[g.tid[r.heap[s]]] = s
    BY <1>2, <1>6, <1>7, <1>10, <1>11, <1>13
  <2>2. r.heap \in [D -> Entries]
    BY <1>5, <2>1
  <2> QED BY <1>5, <2>1, <2>2 DEF Filled, Seated, Rest, Ids
<1>15. Held(r, D) = Held(g, D \ {slot}) \cup {n}
  <2>1. ASSUME NEW s \in D PROVE r.heap[s] \in Held(g, D \ {slot}) \cup {n}
    BY <1>2, <1>7, <1>10 DEF Held
  <2>2. ASSUME NEW s \in D \ {slot} PROVE \E p \in D : r.heap[p] = g.heap[s]
    <3>1. CASE s \notin P
      BY <1>10, <3>1
    <3>2. CASE s \in P
      <4>1. PICK q \in P \cap DOMAIN next : next[q] = s
        BY <1>2, <3>2
      <4> QED BY <1>2, <1>3, <1>7, <1>10, <4>1
    <3> QED BY <3>1, <3>2
  <2>3. \E p \in D : r.heap[p] = n
    BY <1>2, <1>3, <1>7, <1>10
  <2> QED BY <2>1, <2>2, <2>3 DEF Held
<1>16. r.ids[g.tid[n]] >= 0
  BY <1>2, <1>3, <1>6, <1>7, <1>11
<1>17. ASSUME NEW i \in DOMAIN g.ids, i # g.tid[n], r.ids[i] # g.ids[i]
       PROVE  r.ids[i] >= 0 /\ g.ids[i] >= 0
  <2>1. PICK s \in P : g.tid[node(s)] = i /\ r.ids[i] = s
    BY <1>12, <1>17
  <2>2. s # e
    BY <1>17, <1>21, <2>1
  <2>3. g.ids[i] = next[s] /\ next[s] \in Nat
    BY <1>6, <1>20, <2>1, <2>2
  <2>4. s \in Nat
    BY <1>2, <1>6
  <2> QED BY <2>1, <2>3, <2>4
<1>18. Typed(r)
  <2>1. \A i \in DOMAIN g.ids : r.ids[i] \in Int
    <3> TAKE i \in DOMAIN g.ids
    <3>1. g.ids[i] \in Int
      BY <1>6 DEF Typed
    <3>2. \A s \in P : s \in Int
      BY <1>2, <1>6
    <3> QED BY <1>12, <3>1, <3>2
  <2>2. r.ids \in [0 .. MaxSize(g) - 1 -> Int]
    BY <1>5, <1>10, <2>1
  <2>3. 0 \in DOMAIN g.ids /\ g.ids[0] < 0 /\ g.tid[n] # 0
    BY <1>6, <1>10 DEF Typed, Ids
  <2>4. r.ids[0] < 0
    <3>1. r.ids[0] = g.ids[0] \/ g.ids[0] >= 0
      BY <1>17, <2>3
    <3>2. g.ids[0] \in Int
      BY <1>6 DEF Typed
    <3> QED BY <2>3, <3>1, <3>2
  <2> QED BY <1>5, <1>6, <2>2, <2>4 DEF Typed, Rest
<1>19. \A s \in D : r.heap[s] = IF s \notin P THEN g.heap[s]
                                ELSE IF s \in DOMAIN next THEN g.heap[next[s]] ELSE n
  BY <1>10 DEF node
<1>22. FitsIn(g, r, D, slot, n)
  BY <1>5, <1>14, <1>15, <1>16, <1>17, <1>18 DEF FitsIn
<1> QED BY <1>19, <1>22 DEF P


-----------------------------------------------------------------------------
(* The order.                                                              *)

(* Parents and children.                                                   *)
LEMMA Family ==
    /\ \A s \in Nat : Parent(s) \in Nat /\ (s > 0 => Parent(s) < s)
    /\ \A s \in Nat : s > 0 => s = Left(Parent(s)) \/ s = Left(Parent(s)) + 1
    /\ \A q \in Nat : /\ Left(q) \in Nat /\ Left(q) > q
                      /\ Parent(Left(q)) = q /\ Parent(Left(q) + 1) = q
BY DEF Parent, Left

(* No entry of the slots D is before its parent.                           *)
Order(g, D) == \A s \in D : s > 0 => g.time[g.heap[Parent(s)]] <= g.time[g.heap[s]]

(* n may go up from the slot: what is below it there is not before it.     *)
UpFrom(g, D, slot, n) ==
    \A s \in D \ {slot} : s > 0 =>
      IF Parent(s) = slot
      THEN /\ g.time[n] <= g.time[g.heap[s]]
           /\ slot > 0 => g.time[g.heap[Parent(slot)]] <= g.time[g.heap[s]]
      ELSE g.time[g.heap[Parent(s)]] <= g.time[g.heap[s]]

(* The way up ends where n keeps the order.                                *)
LEMMA UpOrders ==
    ASSUME NEW g, NEW k \in Nat, NEW slot \in 0 .. k - 1, NEW n, NEW r,
           Hole(g, 0 .. k - 1, slot, n), slot <= g.size,
           UpFrom(g, 0 .. k - 1, slot, n), r = ReheapUp(g, n, slot)
    PROVE  FitsIn(g, r, 0 .. k - 1, slot, n) /\ Order(r, 0 .. k - 1)
<1> DEFINE D == 0 .. k - 1
           passed == {s \in 1 .. g.size : g.time[n] < g.time[g.heap[Parent(s)]]}
           next == [s \in passed |-> Parent(s)]
           mu == [p \in Around(next, slot) |-> p]
           P == Path(next, slot)
<1>1. g.size \in Nat /\ n \in Entries /\ g.time \in [Entries -> Nat]
  BY DEF Hole, Typed
<1>2. \A s \in passed : s \in Nat /\ s > 0 /\ next[s] = Parent(s) /\ g.time[n] < g.time[g.heap[Parent(s)]]
  BY <1>1
<1>3. DOMAIN next = passed
  OBVIOUS
<1>4. r = Shift(g, next, slot, n)
  BY DEF ReheapUp
<1> HIDE DEF next
<1>5. Around(next, slot) \subseteq Nat
  <2>1. \A s \in passed : s \in Nat /\ next[s] \in Nat
    BY <1>2, Family
  <2> HIDE DEF passed
  <2> QED BY <1>3, <2>1 DEF Around, Range
<1>6. Falls(next, slot, mu)
  <2>1. \A p \in DOMAIN next : p \in Around(next, slot) /\ next[p] \in Around(next, slot)
    BY DEF Around, Range
  <2>2. \A p \in DOMAIN next : next[p] < p
    BY <1>2, <1>3, Family
  <2> QED BY <1>5, <2>1, <2>2 DEF Falls
<1>7. Line(P, next, slot, mu)
  BY <1>6, PathLine
<1>8. /\ slot \in P /\ \A p \in P : p \in Nat /\ mu[p] = p
      /\ \A p \in P : p <= slot
      /\ \A p \in P \ {slot} : \E q \in P \cap passed : Parent(q) = p
      /\ \A p \in P \cap passed : Parent(p) \in P /\ Parent(p) # slot
  <2>1. slot \in P /\ \A p \in P : p \in Nat /\ mu[p] = p
    BY <1>5, <1>7 DEF Line
  <2>2. \A p \in P : p <= slot
    <3>1. \A p \in P \ {slot} : mu[p] < mu[slot]
      BY <1>7 DEF Line
    <3> HIDE DEF mu, P
    <3> QED BY <2>1, <3>1
  <2>3. \A p \in P \ {slot} : \E q \in P \cap passed : Parent(q) = p
    BY <1>2, <1>3, <1>7 DEF Line
  <2>4. \A p \in P \cap passed : Parent(p) \in P /\ Parent(p) # slot
    BY <1>2, <1>3, <1>7 DEF Line
  <2> QED BY <2>1, <2>2, <2>3, <2>4
<1>9. PICK e \in P : \A p \in P : e <= p /\ (p \in passed <=> p # e)
  BY <1>3, <1>7, <1>8 DEF Line
<1>10. P \subseteq D
  <2> HIDE DEF P, passed, mu
  <2>1. ASSUME NEW p \in P PROVE p \in D
    BY <1>8
  <2> QED BY <2>1
<1> HIDE DEF mu
<1>11. /\ FitsIn(g, r, D, slot, n)
       /\ \A s \in D : r.heap[s] = IF s \notin P THEN g.heap[s]
                                   ELSE IF s \in passed THEN g.heap[Parent(s)] ELSE n
  <2>1. /\ FitsIn(g, r, D, slot, n)
        /\ \A s \in D : r.heap[s] = IF s \notin P THEN g.heap[s]
                                    ELSE IF s \in DOMAIN next THEN g.heap[next[s]] ELSE n
    BY <1>4, <1>6, <1>10, ShiftFills
  <2> QED BY <1>2, <1>3, <2>1
<1> DEFINE T(s) == g.time[g.heap[s]]
           t == g.time[n]
           R(s) == r.time[r.heap[s]]
<1>12. /\ \A s \in D \ {slot} : T(s) \in Nat
       /\ t \in Nat /\ r.time = g.time
  BY <1>1, <1>11 DEF Hole, Seated, FitsIn, Rest
<1>13. /\ \A s \in D \ P : R(s) = T(s)
       /\ \A s \in P \ {e} : R(s) = T(Parent(s))
       /\ R(e) = t
  BY <1>9, <1>10, <1>11, <1>12
<1>14. \A s \in P \ {e} : t < T(Parent(s)) /\ Parent(s) \in P \ {slot} /\ s > 0
  BY <1>2, <1>8, <1>9
<1>15. e > 0 => T(Parent(e)) <= t /\ Parent(e) \in D \ P
  <2>1. ASSUME e > 0 PROVE Parent(e) \in D /\ Parent(e) \notin P /\ e \in 1 .. g.size
    <3>1. e \in D /\ e <= slot /\ e \in Nat
      BY <1>8, <1>10
    <3>2. Parent(e) \in Nat /\ Parent(e) < e
      BY <2>1, <3>1, Family
    <3>3. Parent(e) \notin P
      BY <1>9, <3>1, <3>2
    <3> HIDE DEF P, passed
    <3> QED BY <1>1, <2>1, <3>1, <3>2, <3>3
  <2>2. ASSUME e > 0 PROVE T(Parent(e)) <= t
    <3>1. ~(t < T(Parent(e)))
      BY <1>9, <2>1, <2>2
    <3> QED BY <1>8, <1>12, <2>1, <2>2, <3>1
  <2> QED BY <2>1, <2>2
<1>16. \A s \in D \ {slot} : s > 0 =>
         IF Parent(s) = slot THEN t <= T(s) /\ (slot > 0 => T(Parent(slot)) <= T(s))
                             ELSE T(Parent(s)) <= T(s)
  BY DEF UpFrom
<1> HIDE DEF T, R, t, passed, P
<1>17. ASSUME NEW s \in D, s > 0 PROVE R(Parent(s)) <= R(s)
  <2> DEFINE q == Parent(s)
  <2>1. q \in D /\ q < s /\ q \in Nat
    <3>1. s \in Nat
      OBVIOUS
    <3>2. q \in Nat /\ q < s
      BY <1>17, <3>1, Family
    <3> HIDE DEF q
    <3> QED BY <3>2
  <2>2. CASE s \in P \ {e}
    <3>1. R(s) = T(q) /\ q \in P \ {slot} /\ t < T(q) /\ T(q) \in Nat
      BY <1>10, <1>12, <1>13, <1>14, <2>2
    <3>2. CASE q = e
      BY <1>12, <1>13, <3>1, <3>2
    <3>3. CASE q # e
      <4>1. R(q) = T(Parent(q)) /\ q > 0 /\ Parent(q) # slot
        BY <1>13, <1>14, <3>1, <3>3
      <4>2. T(Parent(q)) <= T(q)
        BY <1>16, <2>1, <3>1, <4>1
      <4> QED BY <3>1, <4>1, <4>2
    <3> QED BY <3>2, <3>3
  <2>3. CASE s = e
    BY <1>13, <1>15, <1>17, <2>3
  <2>4. CASE s \notin P
    <3>1. R(s) = T(s) /\ s # slot /\ T(s) \in Nat
      BY <1>8, <1>12, <1>13, <2>4
    <3>2. CASE q \notin P
      BY <1>8, <1>13, <1>16, <1>17, <2>1, <3>1, <3>2
    <3>3. CASE q = slot
      BY <1>8, <1>13, <1>14, <1>16, <1>17, <3>1, <3>3
    <3>4. CASE q \in P /\ q # slot
      <4>1. T(q) <= T(s) /\ T(q) \in Nat
        BY <1>12, <1>16, <1>17, <2>1, <3>1, <3>4
      <4>2. PICK z \in P \ {e} : Parent(z) = q
        BY <1>8, <1>9, <3>4
      <4>3. t < T(q)
        BY <1>14, <4>2
      <4>4. CASE q = e
        BY <1>12, <1>13, <3>1, <4>1, <4>3, <4>4
      <4>5. CASE q # e
        <5>1. R(q) = T(Parent(q)) /\ q > 0 /\ Parent(q) \in P \ {slot}
          BY <1>13, <1>14, <3>4, <4>5
        <5>2. T(Parent(q)) <= T(q) /\ T(Parent(q)) \in Nat
          BY <1>10, <1>12, <1>16, <2>1, <3>4, <5>1
        <5> QED BY <3>1, <4>1, <5>1, <5>2
      <4> QED BY <4>4, <4>5
    <3> QED BY <3>2, <3>3, <3>4
  <2> QED BY <2>2, <2>3, <2>4
<1>18. Order(r, D)
  BY <1>17 DEF Order, R
<1> QED BY <1>11, <1>18


(* n may go down from the slot: what is above it there is not after it.    *)
DownFrom(g, D, slot, n) ==
    /\ slot > 0 => g.time[g.heap[Parent(slot)]] <= g.time[n]
    /\ \A s \in D \ {slot} : s > 0 =>
         IF Parent(s) = slot
         THEN slot > 0 => g.time[g.heap[Parent(slot)]] <= g.time[g.heap[s]]
         ELSE g.time[g.heap[Parent(s)]] <= g.time[g.heap[s]]

(* The way down ends where n keeps the order.                              *)
LEMMA DownOrders ==
    ASSUME NEW g, NEW slot \in 0 .. g.size - 1, NEW n, NEW r,
           Hole(g, 0 .. g.size - 1, slot, n),
           DownFrom(g, 0 .. g.size - 1, slot, n), r = ReheapDown(g, n, slot)
    PROVE  FitsIn(g, r, 0 .. g.size - 1, slot, n) /\ Order(r, 0 .. g.size - 1)
<1> DEFINE k == g.size
           D == 0 .. k - 1
           child(s) == IF /\ Left(s) + 1 < g.size
                          /\ g.time[g.heap[Left(s) + 1]] < g.time[g.heap[Left(s)]]
                       THEN Left(s) + 1 ELSE Left(s)
           passed == {s \in Slots(g) : /\ Left(s) < g.size
                                       /\ g.time[g.heap[child(s)]] < g.time[n]}
           next == [s \in passed |-> child(s)]
           mu == [p \in Around(next, slot) |-> k - p]
           P == Path(next, slot)
           T(s) == g.time[g.heap[s]]
           t == g.time[n]
           R(s) == r.time[r.heap[s]]
<1>1. k \in Nat /\ n \in Entries /\ g.time \in [Entries -> Nat]
  BY DEF Hole, Typed
<1>2. \A s \in D : Left(s) < k =>
        /\ child(s) \in {Left(s), Left(s) + 1} /\ child(s) \in D /\ child(s) > s
        /\ Parent(child(s)) = s
        /\ child(s) = Left(s) => ~(Left(s) + 1 < k /\ T(Left(s) + 1) < T(Left(s)))
        /\ child(s) # Left(s) => T(Left(s) + 1) < T(Left(s))
  <2> HIDE DEF T
  <2> TAKE s \in D
  <2> HAVE Left(s) < k
  <2>1. /\ Left(s) \in Nat /\ Left(s) > s /\ s \in Nat
        /\ Parent(Left(s)) = s /\ Parent(Left(s) + 1) = s
    <3>1. s \in Nat
      BY <1>1
    <3> QED BY <3>1, Family
  <2>2. CASE Left(s) + 1 < k /\ T(Left(s) + 1) < T(Left(s))
    <3>1. child(s) = Left(s) + 1
      BY <2>2 DEF T
    <3> HIDE DEF child
    <3> QED BY <1>1, <2>1, <2>2, <3>1
  <2>3. CASE ~(Left(s) + 1 < k /\ T(Left(s) + 1) < T(Left(s)))
    <3>1. child(s) = Left(s)
      BY <2>3 DEF T
    <3> HIDE DEF child
    <3> QED BY <1>1, <2>1, <2>3, <3>1
  <2> QED BY <2>2, <2>3
<1>3. /\ \A s \in passed : s \in D /\ Left(s) < k /\ T(child(s)) < t /\ next[s] = child(s)
      /\ \A s \in D : Left(s) < k /\ T(child(s)) < t => s \in passed
  BY <1>1 DEF Slots
<1>4. DOMAIN next = passed
  OBVIOUS
<1>5. r = Shift(g, next, slot, n)
  BY DEF ReheapDown
<1> HIDE DEF next, child, T, t, R, passed
<1>6. Around(next, slot) \subseteq D
  <2>1. \A s \in passed : s \in D /\ next[s] \in D
    BY <1>2, <1>3
  <2> QED BY <1>4, <2>1 DEF Around, Range
<1>7. Falls(next, slot, mu)
  <2>1. \A p \in DOMAIN next : p \in Around(next, slot) /\ next[p] \in Around(next, slot)
    BY DEF Around, Range
  <2>2. \A p \in DOMAIN next : next[p] > p
    BY <1>2, <1>3, <1>4
  <2>3. \A p \in D : k - p \in Nat
    BY <1>1
  <2>4. mu \in [Around(next, slot) -> Nat]
    BY <1>6, <2>3
  <2>5. ASSUME NEW p \in DOMAIN next PROVE mu[next[p]] < mu[p]
    <3>1. mu[p] = k - p /\ mu[next[p]] = k - next[p]
      BY <2>1
    <3>2. p \in Nat /\ next[p] \in Nat
      BY <1>6, <2>1
    <3> HIDE DEF mu
    <3> QED BY <1>1, <2>2, <3>1, <3>2
  <2> QED BY <2>4, <2>5 DEF Falls
<1>8. Line(P, next, slot, mu)
  BY <1>7, PathLine
<1>9. slot \in P /\ P \subseteq D /\ \A p \in P : p \in Nat /\ mu[p] = k - p
  BY <1>6, <1>8 DEF Line
<1>10. \A p \in P : slot <= p
  <2>1. \A p \in P \ {slot} : mu[p] < mu[slot]
    BY <1>8 DEF Line
  <2> HIDE DEF mu, P
  <2> QED BY <1>1, <1>9, <2>1
<1>11. \A p \in P \ {slot} : \E q \in P \cap passed : child(q) = p
  BY <1>3, <1>4, <1>8 DEF Line
<1>12. \A p \in P \cap passed : child(p) \in P /\ child(p) # slot
  BY <1>3, <1>4, <1>8 DEF Line
<1>13. PICK e \in P : \A p \in P : p \in passed <=> p # e
  BY <1>4, <1>8 DEF Line
<1> HIDE DEF mu
<1>14. /\ FitsIn(g, r, D, slot, n)
       /\ \A s \in D : r.heap[s] = IF s \notin P THEN g.heap[s]
                                   ELSE IF s \in passed THEN g.heap[child(s)] ELSE n
  <2>1. /\ FitsIn(g, r, D, slot, n)
        /\ \A s \in D : r.heap[s] = IF s \notin P THEN g.heap[s]
                                    ELSE IF s \in DOMAIN next THEN g.heap[next[s]] ELSE n
    <3>1. Hole(g, D, slot, n) /\ P \subseteq D
      BY <1>9
    <3> HIDE DEF D
    <3> QED BY <1>5, <1>7, <3>1, ShiftFills
  <2> QED BY <1>3, <1>4, <2>1
<1>15. /\ \A s \in D \ {slot} : T(s) \in Nat
       /\ t \in Nat /\ r.time = g.time
  BY <1>1, <1>14 DEF Hole, Seated, FitsIn, Rest, T, t
<1>16. /\ \A s \in D \ P : R(s) = T(s)
       /\ \A s \in P \ {e} : R(s) = T(child(s))
       /\ R(e) = t
  BY <1>9, <1>13, <1>14, <1>15 DEF R, T, t
<1>17. \A s \in P \ {e} : /\ T(child(s)) < t /\ child(s) \in P \ {slot}
                          /\ Left(s) < k /\ Parent(child(s)) = s /\ child(s) > 0
  <2> TAKE s \in P \ {e}
  <2>1. s \in passed /\ s \in D
    BY <1>9, <1>13
  <2>2. child(s) \in D /\ child(s) > s /\ Left(s) < k /\ T(child(s)) < t /\ Parent(child(s)) = s
    BY <1>2, <1>3, <2>1
  <2>3. child(s) > 0
    BY <1>1, <2>1, <2>2
  <2> QED BY <1>12, <2>1, <2>2, <2>3
<1>18. Left(e) < k => t <= T(child(e))
  <2> HAVE Left(e) < k
  <2>1. e \in D /\ e \notin passed /\ child(e) \in D /\ child(e) > e
    BY <1>2, <1>9, <1>13
  <2>2. ~(T(child(e)) < t)
    BY <1>3, <2>1
  <2>3. child(e) # slot
    BY <1>1, <1>10, <2>1
  <2>4. T(child(e)) \in Nat
    BY <1>15, <2>1, <2>3
  <2> QED BY <1>15, <2>2, <2>4
<1>19. /\ slot > 0 => T(Parent(slot)) <= t
       /\ \A s \in D \ {slot} : s > 0 =>
            IF Parent(s) = slot THEN slot > 0 => T(Parent(slot)) <= T(s)
                                ELSE T(Parent(s)) <= T(s)
  BY DEF DownFrom, T, t
<1> HIDE DEF P
<1>20. ASSUME NEW s \in D, s > 0 PROVE R(Parent(s)) <= R(s)
  <2> DEFINE q == Parent(s)
  <2>1. /\ q \in D /\ q < s /\ q \in Nat /\ s \in Nat
        /\ s \in {Left(q), Left(q) + 1} /\ Left(q) < k /\ Left(q) \in Nat
    <3>1. s \in Nat
      BY <1>1
    <3>2. q \in Nat /\ q < s /\ s \in {Left(q), Left(q) + 1} /\ Left(q) \in Nat
      BY <1>20, <3>1, Family
    <3> HIDE DEF q
    <3> QED BY <1>1, <3>1, <3>2
  <2> HIDE DEF q
  <2>2. CASE s \in P /\ s # slot
    <3>1. PICK z \in P \cap passed : child(z) = s
      BY <1>11, <2>2
    <3>2. z # e /\ z = q
      BY <1>13, <1>17, <3>1 DEF q
    <3>3. R(q) = T(s) /\ T(s) < t /\ T(s) \in Nat
      BY <1>9, <1>15, <1>16, <1>17, <2>2, <3>1, <3>2
    <3>4. CASE s = e
      BY <1>15, <1>16, <3>3, <3>4 DEF q
    <3>5. CASE s # e
      <4>1. R(s) = T(child(s)) /\ child(s) \in D \ {slot} /\ child(s) > 0 /\ Parent(child(s)) = s
        BY <1>9, <1>16, <1>17, <2>2, <3>5
      <4>2. T(s) <= T(child(s))
        BY <1>19, <2>2, <4>1
      <4> QED BY <3>3, <4>1, <4>2 DEF q
    <3> QED BY <3>4, <3>5
  <2>3. CASE s = slot
    <3>1. q \notin P
      BY <1>10, <2>1, <2>3
    <3>2. R(q) = T(Parent(slot))
      BY <1>16, <2>1, <2>3, <3>1 DEF q
    <3>3. CASE s = e
      BY <1>16, <1>19, <1>20, <2>3, <3>2, <3>3 DEF q
    <3>4. CASE s # e
      <4>1. R(s) = T(child(s)) /\ child(s) \in D \ {slot} /\ child(s) > 0 /\ Parent(child(s)) = s
        BY <1>9, <1>16, <1>17, <2>3, <3>4
      <4>2. T(Parent(slot)) <= T(child(s))
        BY <1>19, <1>20, <2>3, <4>1
      <4> QED BY <3>2, <4>1, <4>2 DEF q
    <3> QED BY <3>3, <3>4
  <2>4. CASE s \notin P
    <3>1. R(s) = T(s) /\ s # slot /\ T(s) \in Nat
      BY <1>9, <1>15, <1>16, <2>4
    <3>2. CASE q \notin P
      <4>1. q # slot
        BY <1>9, <3>2
      <4> QED BY <1>16, <1>19, <1>20, <2>1, <3>1, <3>2, <4>1 DEF q
    <3>3. CASE q \in P
      <4>1. child(q) \in {Left(q), Left(q) + 1} /\ T(child(q)) <= T(s)
        <5>1. /\ child(q) \in {Left(q), Left(q) + 1} /\ child(q) \in D /\ child(q) > q
              /\ child(q) = Left(q) => ~(Left(q) + 1 < k /\ T(Left(q) + 1) < T(Left(q)))
              /\ child(q) # Left(q) => T(Left(q) + 1) < T(Left(q))
          BY <1>2, <2>1
        <5>2. child(q) # slot
          BY <1>1, <1>10, <2>1, <3>3, <5>1
        <5>3. T(child(q)) \in Nat
          BY <1>15, <5>1, <5>2
        <5>4. CASE s = child(q)
          BY <3>1, <5>1, <5>4
        <5>5. CASE s # child(q) /\ child(q) = Left(q)
          <6>1. s = Left(q) + 1 /\ s < k
            BY <1>1, <2>1, <5>5
          <6> QED BY <3>1, <5>1, <5>3, <5>5, <6>1
        <5>6. CASE s # child(q) /\ child(q) # Left(q)
          <6>1. s = Left(q) /\ child(q) = Left(q) + 1
            BY <2>1, <5>1, <5>6
          <6> QED BY <3>1, <5>1, <5>3, <6>1
        <5> QED BY <5>4, <5>5, <5>6
      <4>2. CASE q = e
        <5>1. t <= T(child(q)) /\ child(q) \in D \ {slot}
          <6>1. child(q) \in D /\ child(q) > q
            BY <1>2, <2>1
          <6>2. child(q) # slot
            BY <1>1, <1>10, <2>1, <3>3, <6>1
          <6> QED BY <1>18, <2>1, <4>2, <6>1, <6>2
        <5>2. T(child(q)) \in Nat /\ R(q) = t
          BY <1>15, <1>16, <4>2, <5>1
        <5> QED BY <1>15, <3>1, <4>1, <5>1, <5>2 DEF q
      <4>3. CASE q # e
        BY <1>16, <3>1, <3>3, <4>1, <4>3 DEF q
      <4> QED BY <4>2, <4>3
    <3> QED BY <3>2, <3>3
  <2> QED BY <2>2, <2>3, <2>4
<1>21. Order(r, D)
  BY <1>20 DEF Order, R
<1> QED BY <1>14, <1>21


-----------------------------------------------------------------------------
(* The chain of free places.                                               *)

(* rank counts the places from one to the end m of the chain: each place   *)
(* of U is as far as one number says, and free is the first.               *)
Ranks(rank, ids, m, U, free, K) ==
    /\ rank \in [U \cup {m} -> 0 .. K]
    /\ \A p, q \in U \cup {m} : rank[p] = rank[q] => p = q
    /\ \A k \in 0 .. K : \E p \in U \cup {m} : rank[p] = k
    /\ free \in U \cup {m} /\ rank[free] = K /\ rank[m] = 0
    /\ \A p \in U : -ids[p] \in U \cup {m} /\ rank[-ids[p]] = rank[p] - 1

Chained(ids, m, U, free, K) == \E rank : Ranks(rank, ids, m, U, free, K)

(* It is about the places of U only.                                       *)
LEMMA ChainSame ==
    ASSUME NEW ids, NEW m, NEW U, NEW free, NEW K, Chained(ids, m, U, free, K),
           NEW table, \A p \in U : table[p] = ids[p]
    PROVE  Chained(table, m, U, free, K)
BY DEF Chained, Ranks

(* pop_freelist() takes the first place off.                               *)
LEMMA ChainPop ==
    ASSUME NEW ids, NEW m \in Nat, NEW U, U \subseteq Nat, NEW free, NEW K \in Nat,
           Chained(ids, m, U, free, K), K >= 1, m \notin U
    PROVE  free \in U /\ Chained(ids, m, U \ {free}, -ids[free], K - 1)
<1>1. PICK rank : Ranks(rank, ids, m, U, free, K)
  BY DEF Chained
<1>2. /\ rank \in [U \cup {m} -> 0 .. K]
      /\ \A p, q \in U \cup {m} : rank[p] = rank[q] => p = q
      /\ \A k \in 0 .. K : \E p \in U \cup {m} : rank[p] = k
      /\ free \in U \cup {m} /\ rank[free] = K /\ rank[m] = 0
      /\ \A p \in U : -ids[p] \in U \cup {m} /\ rank[-ids[p]] = rank[p] - 1
  BY <1>1 DEF Ranks
<1>3. free \in U /\ free # m
  BY <1>2
<1> DEFINE V == (U \ {free}) \cup {m}
           less == [p \in V |-> rank[p]]
<1>4. \A p \in V : p \in U \cup {m} /\ rank[p] # K /\ rank[p] \in 0 .. K - 1
  <2> TAKE p \in V
  <2>1. p \in U \cup {m} /\ p # free
    BY <1>3
  <2>2. rank[p] # K /\ rank[p] \in 0 .. K
    BY <1>2, <2>1
  <2> QED BY <2>1, <2>2
<1>5. less \in [V -> 0 .. K - 1]
  BY <1>4
<1>6. \A k \in 0 .. K - 1 : \E p \in V : less[p] = k
  <2> TAKE k \in 0 .. K - 1
  <2>1. PICK p \in U \cup {m} : rank[p] = k
    BY <1>2
  <2>2. p # free
    BY <1>2, <2>1
  <2> QED BY <2>1, <2>2
<1>7. \A p \in U : -ids[p] \in V /\ rank[-ids[p]] = rank[p] - 1
  <2> TAKE p \in U
  <2>1. rank[p] \in 0 .. K /\ rank[-ids[p]] = rank[p] - 1 /\ -ids[p] \in U \cup {m}
    BY <1>2
  <2>2. -ids[p] # free
    BY <1>2, <2>1
  <2> QED BY <2>1, <2>2
<1>8. \A p, q \in V : less[p] = less[q] => p = q
  BY <1>2, <1>4
<1>9. -ids[free] \in V /\ less[-ids[free]] = K - 1 /\ less[m] = 0
  BY <1>2, <1>3, <1>7
<1>10. \A p \in U \ {free} : -ids[p] \in V /\ less[-ids[p]] = less[p] - 1
  BY <1>7
<1> HIDE DEF less
<1>11. Ranks(less, ids, m, U \ {free}, -ids[free], K - 1)
  BY <1>5, <1>6, <1>8, <1>9, <1>10 DEF Ranks
<1> QED BY <1>3, <1>11 DEF Chained

(* push_freelist() puts a place before the first.                          *)
LEMMA ChainPush ==
    ASSUME NEW ids, NEW m \in Nat, NEW U, U \subseteq Nat, NEW free, NEW K \in Nat,
           Chained(ids, m, U, free, K), NEW j \in Nat, j \notin U, j # m,
           NEW table, \A p \in U : table[p] = ids[p], table[j] = -free
    PROVE  Chained(table, m, U \cup {j}, j, K + 1)
<1>1. PICK rank : Ranks(rank, ids, m, U, free, K)
  BY DEF Chained
<1>2. /\ rank \in [U \cup {m} -> 0 .. K]
      /\ \A p, q \in U \cup {m} : rank[p] = rank[q] => p = q
      /\ \A k \in 0 .. K : \E p \in U \cup {m} : rank[p] = k
      /\ free \in U \cup {m} /\ rank[free] = K /\ rank[m] = 0
      /\ \A p \in U : -ids[p] \in U \cup {m} /\ rank[-ids[p]] = rank[p] - 1
  BY <1>1 DEF Ranks
<1> DEFINE V == (U \cup {j}) \cup {m}
           more == [p \in V |-> IF p = j THEN K + 1 ELSE rank[p]]
<1>3. /\ \A p \in U \cup {m} : p \in V /\ p # j /\ more[p] = rank[p] /\ rank[p] \in 0 .. K
      /\ j \in V /\ more[j] = K + 1
      /\ \A p \in V : p = j \/ p \in U \cup {m}
  BY <1>2
<1>4. more \in [V -> 0 .. K + 1]
  <2>1. \A p \in V : more[p] \in 0 .. K + 1
    <3> HIDE DEF more, V
    <3> QED BY <1>3
  <2> QED BY <2>1
<1> HIDE DEF more, V
<1>5. \A k \in 0 .. K + 1 : \E p \in V : more[p] = k
  <2> TAKE k \in 0 .. K + 1
  <2>1. CASE k = K + 1
    BY <1>3, <2>1
  <2>2. CASE k # K + 1
    BY <1>2, <1>3, <2>2
  <2> QED BY <2>1, <2>2
<1>6. \A p, q \in V : more[p] = more[q] => p = q
  <2> TAKE p, q \in V
  <2>1. CASE p = j \/ q = j
    BY <1>3, <2>1
  <2>2. CASE p # j /\ q # j
    BY <1>2, <1>3, <2>2
  <2> QED BY <2>1, <2>2
<1>7. ASSUME NEW p \in U \cup {j} PROVE -table[p] \in V /\ more[-table[p]] = more[p] - 1
  <2>1. CASE p = j
    <3>1. -table[j] = free
      <4>1. free \in Nat
        BY <1>2
      <4> QED BY <4>1
    <3> QED BY <1>2, <1>3, <2>1, <3>1
  <2>2. CASE p \in U
    <3>1. -table[p] = -ids[p] /\ -ids[p] \in U \cup {m} /\ rank[-ids[p]] = rank[p] - 1
      BY <1>2, <2>2
    <3>2. more[-ids[p]] = rank[-ids[p]] /\ more[p] = rank[p] /\ -ids[p] \in V
      BY <1>3, <2>2, <3>1
    <3> QED BY <3>1, <3>2
  <2> QED BY <2>1, <2>2
<1>8. j \in V /\ more[j] = K + 1 /\ more[m] = 0
  BY <1>2, <1>3
<1>9. Ranks(more, table, m, U \cup {j}, j, K + 1)
  BY <1>4, <1>5, <1>6, <1>7, <1>8 DEF Ranks, V
<1> QED BY <1>9 DEF Chained

(* grow_heap() makes the chain go on where it ended.                       *)
LEMMA ChainGrow ==
    ASSUME NEW ids, NEW m \in Nat, NEW U, U \subseteq 1 .. m - 1, NEW free, NEW K \in Nat,
           Chained(ids, m, U, free, K), m >= 1,
           NEW table, \A p \in U : table[p] = ids[p], \A p \in m .. 2 * m - 1 : table[p] = -(p + 1)
    PROVE  Chained(table, 2 * m, U \cup (m .. 2 * m - 1), free, K + m)
<1>1. PICK rank : Ranks(rank, ids, m, U, free, K)
  BY DEF Chained
<1>2. /\ rank \in [U \cup {m} -> 0 .. K]
      /\ \A p, q \in U \cup {m} : rank[p] = rank[q] => p = q
      /\ \A k \in 0 .. K : \E p \in U \cup {m} : rank[p] = k
      /\ free \in U \cup {m} /\ rank[free] = K /\ rank[m] = 0
      /\ \A p \in U : -ids[p] \in U \cup {m} /\ rank[-ids[p]] = rank[p] - 1
  BY <1>1 DEF Ranks
<1> DEFINE V == (U \cup (m .. 2 * m - 1)) \cup {2 * m}
           more == [p \in V |-> IF p \in U THEN rank[p] + m ELSE 2 * m - p]
<1>3. /\ \A p \in U : p \in V /\ p < m /\ more[p] = rank[p] + m /\ rank[p] \in 1 .. K
      /\ \A p \in m .. 2 * m : p \in V /\ p \notin U /\ more[p] = 2 * m - p
      /\ \A p \in V : p \in U \/ p \in m .. 2 * m
  <2>1. \A p \in U : p \in V /\ p < m /\ p # m /\ rank[p] # 0 /\ rank[p] \in 0 .. K
    BY <1>2
  <2>2. \A p \in U : rank[p] \in 1 .. K
    BY <2>1
  <2>3. \A p \in m .. 2 * m : p \in V /\ p \notin U
    OBVIOUS
  <2>4. \A p \in V : p \in U \/ p \in m .. 2 * m
    OBVIOUS
  <2> QED BY <2>1, <2>2, <2>3, <2>4
<1>4. more \in [V -> 0 .. K + m]
  <2>1. \A p \in V : more[p] \in 0 .. K + m
    <3> HIDE DEF more, V
    <3> TAKE p \in V
    <3>1. CASE p \in U
      BY <1>3, <3>1
    <3>2. CASE p \in m .. 2 * m
      <4>1. more[p] = 2 * m - p
        BY <1>3, <3>2
      <4> QED BY <3>2, <4>1
    <3> QED BY <1>3, <3>1, <3>2
  <2> QED BY <2>1
<1> HIDE DEF more, V
<1>5. \A k \in 0 .. K + m : \E p \in V : more[p] = k
  <2> TAKE k \in 0 .. K + m
  <2>1. CASE k <= m
    <3>1. 2 * m - k \in m .. 2 * m
      BY <2>1
    <3>2. 2 * m - k \in V /\ more[2 * m - k] = 2 * m - (2 * m - k)
      BY <1>3, <3>1
    <3>3. 2 * m - (2 * m - k) = k
      OBVIOUS
    <3> QED BY <3>2, <3>3
  <2>2. CASE k > m
    <3>1. PICK p \in U \cup {m} : rank[p] = k - m
      BY <1>2, <2>2
    <3>2. p \in U
      BY <1>2, <2>2, <3>1
    <3> QED BY <1>3, <3>1, <3>2
  <2> QED BY <2>1, <2>2
<1>6. \A p, q \in V : more[p] = more[q] => p = q
  <2> TAKE p, q \in V
  <2>1. CASE p \in U /\ q \in U
    BY <1>2, <1>3, <2>1
  <2>2. CASE p \in U /\ q \in m .. 2 * m
    BY <1>3, <2>2
  <2>3. CASE p \in m .. 2 * m /\ q \in U
    BY <1>3, <2>3
  <2>4. CASE p \in m .. 2 * m /\ q \in m .. 2 * m
    BY <1>3, <2>4
  <2> QED BY <1>3, <2>1, <2>2, <2>3, <2>4
<1>7. ASSUME NEW p \in U \cup (m .. 2 * m - 1)
      PROVE  -table[p] \in V /\ more[-table[p]] = more[p] - 1
  <2>1. CASE p \in U
    <3> DEFINE q == -ids[p]
    <3>1. -table[p] = q /\ q \in U \cup {m} /\ rank[q] = rank[p] - 1
      BY <1>2, <2>1
    <3> HIDE DEF q
    <3>2. CASE q \in U
      BY <1>3, <2>1, <3>1, <3>2
    <3>3. CASE q = m
      <4>1. rank[p] = 1
        BY <1>2, <1>3, <2>1, <3>1, <3>3
      <4>2. m \in m .. 2 * m
        OBVIOUS
      <4> QED BY <1>3, <2>1, <3>1, <3>3, <4>1, <4>2
    <3> QED BY <3>1, <3>2, <3>3
  <2>2. CASE p \in m .. 2 * m - 1
    <3>1. -table[p] = p + 1 /\ p + 1 \in m .. 2 * m /\ p \in m .. 2 * m
      BY <2>2
    <3> QED BY <1>3, <3>1
  <2> QED BY <2>1, <2>2
<1>8. free \in V /\ more[free] = K + m /\ more[2 * m] = 0
  <2>1. 2 * m \in m .. 2 * m /\ m \in m .. 2 * m
    OBVIOUS
  <2>2. CASE free \in U
    BY <1>2, <1>3, <2>1, <2>2
  <2>3. CASE free = m
    BY <1>2, <1>3, <2>1, <2>3
  <2> QED BY <1>2, <2>2, <2>3
<1>9. Ranks(more, table, 2 * m, U \cup (m .. 2 * m - 1), free, K + m)
  BY <1>4, <1>5, <1>6, <1>7, <1>8 DEF Ranks, V
<1> QED BY <1>9 DEF Chained

(* The path from the first free place passes all of them, and they are as  *)
(* many as the rank of the first.                                          *)
LEMMA ChainPath ==
    ASSUME NEW ids, NEW m \in Nat, NEW U, U \subseteq Nat, NEW free, NEW K \in Nat,
           Chained(ids, m, U, free, K), m \notin U, IsFiniteSet(U)
    PROVE  /\ Path([i \in U |-> -ids[i]], free) = U \cup {m}
           /\ Cardinality(U) = K
<1>1. PICK rank : Ranks(rank, ids, m, U, free, K)
  BY DEF Chained
<1>2. /\ rank \in [U \cup {m} -> 0 .. K]
      /\ \A p, q \in U \cup {m} : rank[p] = rank[q] => p = q
      /\ \A k \in 0 .. K : \E p \in U \cup {m} : rank[p] = k
      /\ free \in U \cup {m} /\ rank[free] = K /\ rank[m] = 0
      /\ \A p \in U : -ids[p] \in U \cup {m} /\ rank[-ids[p]] = rank[p] - 1
  BY <1>1 DEF Ranks
<1> DEFINE next == [i \in U |-> -ids[i]]
           P == Path(next, free)
           A == Around(next, free)
           mu == [p \in A |-> rank[p]]
<1>3. DOMAIN next = U /\ \A p \in U : next[p] = -ids[p]
  OBVIOUS
<1> HIDE DEF next
<1>4. A \subseteq U \cup {m} /\ \A p \in U : p \in A /\ next[p] \in A
  <2>1. \A p \in U : next[p] \in U \cup {m}
    BY <1>2, <1>3
  <2>2. A = {free} \cup U \cup {next[p] : p \in U}
    BY <1>3 DEF Around, Range
  <2> HIDE DEF A
  <2>3. A \subseteq U \cup {m}
    BY <1>2, <2>1, <2>2
  <2>4. \A p \in U : p \in A /\ next[p] \in A
    BY <2>2
  <2> QED BY <2>3, <2>4
<1>5. Falls(next, free, mu)
  <2>1. \A p \in A : rank[p] \in Nat
    <3> HIDE DEF A
    <3>1. \A p \in U \cup {m} : rank[p] \in Nat
      BY <1>2
    <3> QED BY <1>4, <3>1
  <2>2. mu \in [A -> Nat]
    BY <2>1
  <2>3. ASSUME NEW p \in U PROVE rank[next[p]] < rank[p]
    <3>1. rank[p] \in Nat /\ rank[next[p]] = rank[p] - 1
      BY <1>2, <1>3
    <3> QED BY <3>1
  <2> QED BY <1>3, <1>4, <2>2, <2>3 DEF Falls
<1>6. free \in P /\ P \subseteq A /\ \A p \in P \cap U : next[p] \in P
  BY <1>3, <1>5, PathLine DEF Line
<1> HIDE DEF mu, P, A
<1>7. U \cup {m} \subseteq P
  <2> DEFINE Missed == {K - rank[p] : p \in (U \cup {m}) \ P}
  <2>1. SUFFICES ASSUME Missed # {} PROVE FALSE
    OBVIOUS
  <2>2. Missed \subseteq Nat
    BY <1>2
  <2>3. PICK k \in Missed : \A j \in Missed : k <= j
    BY <2>1, <2>2, LeastNumber
  <2>4. PICK p \in (U \cup {m}) \ P : k = K - rank[p]
    OBVIOUS
  <2>5. rank[p] \in 0 .. K /\ rank[p] # K
    BY <1>2, <1>6, <2>4
  <2>6. PICK q \in U \cup {m} : rank[q] = rank[p] + 1
    <3>1. rank[p] + 1 \in 0 .. K
      BY <2>5
    <3> QED BY <1>2, <3>1
  <2>7. q \in P
    <3>1. K - rank[q] < k
      BY <2>4, <2>5, <2>6
    <3>2. K - rank[q] \notin Missed
      <4>1. \A j \in Missed : j \in Nat /\ k <= j
        BY <2>2, <2>3
      <4>2. k \in Nat /\ K - rank[q] \in Int
        BY <1>2, <2>2, <2>3, <2>6
      <4> HIDE DEF Missed
      <4> QED BY <3>1, <4>1, <4>2
    <3> QED BY <3>2
  <2>8. q \in U
    BY <1>2, <2>5, <2>6
  <2>9. next[q] \in U \cup {m} /\ rank[next[q]] = rank[p]
    BY <1>2, <1>3, <2>5, <2>6, <2>8
  <2>10. next[q] = p
    BY <1>2, <2>4, <2>9
  <2> QED BY <1>6, <2>4, <2>7, <2>8, <2>10
<1>8. P = U \cup {m}
  BY <1>4, <1>6, <1>7
<1>9. Cardinality(U) = K
  <2> DEFINE f == [p \in U |-> rank[p]]
  <2>1. \A p \in U : rank[p] \in 1 .. K
    <3> TAKE p \in U
    <3>1. rank[p] \in 0 .. K /\ rank[p] # 0
      BY <1>2
    <3> QED BY <3>1
  <2>2. ExistsBijection(U, 1 .. K)
    <3>1. f \in Bijection(U, 1 .. K)
      <4>1. f \in [U -> 1 .. K]
        BY <2>1
      <4>2. \A p, q \in U : f[p] = f[q] => p = q
        BY <1>2
      <4>3. \A k \in 1 .. K : \E p \in U : f[p] = k
        <5> TAKE k \in 1 .. K
        <5>1. PICK p \in U \cup {m} : rank[p] = k
          BY <1>2
        <5>2. p # m
          BY <1>2, <5>1
        <5> QED BY <5>1, <5>2
      <4> HIDE DEF f
      <4> QED BY <4>1, <4>2, <4>3, Fun_IsBij
    <3> QED BY <3>1 DEF ExistsBijection
  <2>3. ExistsBijection(1 .. K, U)
    BY <2>2, Fun_ExistsBijSymmetric
  <2> QED BY <2>3, FS_CountingElements
<1> QED BY <1>8, <1>9 DEF P, next


-----------------------------------------------------------------------------
(* The operations.                                                         *)

Unused(g) == {i \in Ids(g) : g.ids[i] < 0}

(* A sound heap.                                                           *)
Sound(g) ==
    /\ Typed(g) /\ g.size + 2 <= MaxSize(g)
    /\ Filled(g, Slots(g)) /\ Order(g, Slots(g))
    /\ Chained(g.ids, MaxSize(g), Unused(g), g.free, MaxSize(g) - 1 - g.size)
    /\ \A e \in Entries \ Pending(g) : g.tid[e] \in {-1, 0}

(* The size of a table.                                                    *)
LEMMA SizeOf ==
    ASSUME NEW m \in Nat, NEW g, DOMAIN g.ids = 0 .. m - 1
    PROVE  MaxSize(g) = m
BY FS_Interval DEF MaxSize

(* A heap with room for two, its table without slots, is sound.            *)
LEMMA NewSound == Sound(NewHeap) /\ Pending(NewHeap) = {} /\ NewHeap.lock = {} /\ NewHeap.refs = 0
<1> DEFINE g == NewHeap
           m == Count + 2
           rank == [p \in (1 .. m - 1) \cup {m} |-> m - p]
<1>1. Count \in Nat /\ m \in Nat
  BY HeapAssumption
<1>2. /\ DOMAIN g = Fields /\ g.heap = << >> /\ g.size = 0 /\ g.free = 1 /\ g.refs = 0 /\ g.lock = {}
      /\ g.ids = [i \in 0 .. m - 1 |-> -(i + 1)]
      /\ g.tid = [e \in Entries |-> 0] /\ g.time = [e \in Entries |-> 0]
  <2>1. m - 1 = Count + 1
    BY <1>1
  <2> QED BY <2>1 DEF NewHeap, Fields
<1> HIDE DEF g
<1>3. MaxSize(g) = m
  BY <1>1, <1>2, SizeOf
<1>4. Typed(g)
  BY <1>1, <1>2, <1>3 DEF Typed
<1>5. Slots(g) = {}
  BY <1>2 DEF Slots
<1>6. Filled(g, Slots(g)) /\ Order(g, Slots(g)) /\ Pending(g) = {}
  BY <1>2, <1>5 DEF Filled, Order, Pending
<1>7. Ids(g) = 1 .. m - 1 /\ Unused(g) = 1 .. m - 1
  BY <1>1, <1>2, <1>3 DEF Unused, Ids
<1>8. Ranks(rank, g.ids, m, 1 .. m - 1, 1, m - 1)
  <2>1. /\ \A p \in (1 .. m - 1) \cup {m} : p \in 1 .. m /\ rank[p] = m - p
        /\ \A p \in 1 .. m : p \in (1 .. m - 1) \cup {m} /\ rank[p] = m - p
    BY <1>1
  <2>2. rank \in [(1 .. m - 1) \cup {m} -> 0 .. m - 1]
    BY <1>1
  <2>3. \A p \in 1 .. m - 1 : -g.ids[p] = p + 1 /\ p + 1 \in 1 .. m
    BY <1>1, <1>2
  <2> HIDE DEF rank
  <2>4. \A k \in 0 .. m - 1 : \E p \in (1 .. m - 1) \cup {m} : rank[p] = k
    <3> TAKE k \in 0 .. m - 1
    <3>1. m - k \in 1 .. m /\ m - (m - k) = k
      BY <1>1
    <3> QED BY <2>1, <3>1
  <2>5. \A p, q \in (1 .. m - 1) \cup {m} : rank[p] = rank[q] => p = q
    BY <1>1, <2>1
  <2>6. 1 \in 1 .. m /\ m \in 1 .. m /\ rank[1] = m - 1 /\ rank[m] = 0
    BY <1>1, <2>1
  <2>7. \A p \in 1 .. m - 1 : -g.ids[p] \in (1 .. m - 1) \cup {m} /\ rank[-g.ids[p]] = rank[p] - 1
    <3> TAKE p \in 1 .. m - 1
    <3>1. rank[p] = m - p /\ rank[p + 1] = m - (p + 1)
      BY <2>1, <2>3
    <3> QED BY <1>1, <2>1, <2>3, <3>1
  <2> QED BY <2>1, <2>2, <2>4, <2>5, <2>6, <2>7 DEF Ranks
<1>9. Chained(g.ids, MaxSize(g), Unused(g), g.free, MaxSize(g) - 1 - g.size)
  <2>1. m - 1 - 0 = m - 1
    BY <1>1
  <2> QED BY <1>2, <1>3, <1>7, <1>8, <2>1 DEF Chained
<1> QED BY <1>1, <1>2, <1>3, <1>4, <1>6, <1>9 DEF Sound, g

(* What a table says of its own free places.                               *)
LEMMA FreeFacts ==
    ASSUME NEW g, Typed(g)
    PROVE  /\ Unused(g) \subseteq Ids(g) /\ Unused(g) \subseteq Nat /\ IsFiniteSet(Unused(g))
           /\ Unused(g) \subseteq 1 .. MaxSize(g) - 1 /\ MaxSize(g) \notin Unused(g)
           /\ \A i \in Ids(g) : i \in DOMAIN g.ids /\ g.ids[i] \in Int /\ i > 0 /\ i \in Nat
<1>1. MaxSize(g) \in Nat /\ g.ids \in [0 .. MaxSize(g) - 1 -> Int]
  BY DEF Typed
<1>2. IsFiniteSet(1 .. MaxSize(g) - 1)
  BY <1>1, FS_Interval
<1>3. Unused(g) \subseteq 1 .. MaxSize(g) - 1
  BY DEF Unused, Ids
<1>4. IsFiniteSet(Unused(g))
  BY <1>2, <1>3, FS_Subset
<1>5. \A i \in Ids(g) : i \in DOMAIN g.ids /\ g.ids[i] \in Int /\ i > 0 /\ i \in Nat
  BY <1>1 DEF Ids
<1>6. MaxSize(g) \notin Unused(g) /\ Unused(g) \subseteq Nat
  BY <1>1, <1>3
<1> QED BY <1>3, <1>4, <1>5, <1>6 DEF Ids

(* The doubled heap.                                                       *)
Grown(g, r) ==
    /\ Typed(r) /\ MaxSize(r) = 2 * MaxSize(g)
    /\ \A i \in 0 .. MaxSize(g) - 1 : r.ids[i] = g.ids[i]
    /\ \A i \in MaxSize(g) .. 2 * MaxSize(g) - 1 : r.ids[i] = -(i + 1)
    /\ r.heap = g.heap /\ r.size = g.size /\ r.free = g.free /\ r.tid = g.tid
    /\ r.time = g.time /\ r.lock = g.lock /\ r.refs = g.refs

(* grow_heap() doubles the table and chains the new places.                *)
LEMMA GrowFacts ==
    ASSUME NEW g, Typed(g)
    PROVE  Grown(g, GrowHeap(g))
<1> DEFINE m == MaxSize(g)
           r == GrowHeap(g)
           ids == [i \in 0 .. 2 * m - 1 |-> IF i < m THEN g.ids[i] ELSE -(i + 1)]
<1>1. m \in Nat /\ m >= 2 /\ g.ids \in [0 .. m - 1 -> Int] /\ g.ids[0] < 0 /\ Fields \subseteq DOMAIN g
  BY DEF Typed
<1>2. r = [g EXCEPT !.ids = ids]
  BY DEF GrowHeap
<1> HIDE DEF m, r
<1>3. /\ \A i \in 0 .. m - 1 : ids[i] = g.ids[i]
      /\ \A i \in m .. 2 * m - 1 : ids[i] = -(i + 1)
      /\ ids \in [0 .. 2 * m - 1 -> Int]
  BY <1>1
<1> HIDE DEF ids
<1>4. /\ r.ids = ids /\ DOMAIN r = DOMAIN g
      /\ r.heap = g.heap /\ r.size = g.size /\ r.free = g.free /\ r.tid = g.tid
      /\ r.time = g.time /\ r.lock = g.lock /\ r.refs = g.refs
  BY <1>1, <1>2 DEF Fields
<1>5. MaxSize(r) = 2 * m
  BY <1>1, <1>3, <1>4, SizeOf
<1>6. Typed(r)
  <2>1. ids[0] < 0 /\ 2 * m \in Nat /\ 2 * m >= 2
    BY <1>1, <1>3
  <2> QED BY <1>1, <1>3, <1>4, <1>5, <2>1 DEF Typed
<1> QED BY <1>3, <1>4, <1>5, <1>6 DEF Grown, m, r


(* The heap before n goes in: it has room, and the id of n is off the chain.*)
Ready(g, b, e, t) ==
    /\ Typed(b) /\ b.heap = g.heap /\ b.size = g.size /\ b.lock = g.lock /\ b.refs = g.refs
    /\ g.free \in Unused(g) /\ b.tid = [g.tid EXCEPT ![e] = g.free]
    /\ b.time = [g.time EXCEPT ![e] = t]
    /\ MaxSize(b) >= MaxSize(g) /\ MaxSize(b) >= g.size + 3
    /\ \A i \in 0 .. MaxSize(g) - 1 : b.ids[i] = g.ids[i]
    /\ Chained(b.ids, MaxSize(b), Unused(b) \ {g.free}, b.free, MaxSize(b) - 2 - g.size)

(* pop_freelist() and grow_heap() prepare it.                              *)
LEMMA PopReady ==
    ASSUME NEW g, Sound(g), NEW e \in Entries, NEW t \in Nat, NEW a, NEW b,
           a = [PopFreelist(g, e) EXCEPT !.time[e] = t],
           b = IF a.size + 2 >= MaxSize(a) THEN GrowHeap(a) ELSE a
    PROVE  Ready(g, b, e, t)
<1> DEFINE m == MaxSize(g)
           f == g.free
           U == Unused(g)
<1>1. /\ Typed(g) /\ g.size + 2 <= m /\ Chained(g.ids, m, U, f, m - 1 - g.size)
      /\ Fields \subseteq DOMAIN g /\ g.size \in Nat /\ f \in Nat /\ g.refs \in Int
      /\ m \in Nat /\ m >= 2 /\ g.ids \in [0 .. m - 1 -> Int] /\ g.ids[0] < 0
      /\ g.tid \in [Entries -> Int] /\ g.time \in [Entries -> Nat] /\ g.lock \subseteq Entries
  BY DEF Sound, Typed
<1>2. U \subseteq 1 .. m - 1 /\ U \subseteq Nat /\ m \notin U
  BY <1>1, FreeFacts
<1>3. /\ a.heap = g.heap /\ a.size = g.size /\ a.ids = g.ids /\ a.lock = g.lock /\ a.refs = g.refs
      /\ a.free = -g.ids[f] /\ a.tid = [g.tid EXCEPT ![e] = f]
      /\ a.time = [g.time EXCEPT ![e] = t] /\ DOMAIN a = DOMAIN g
  BY <1>1 DEF PopFreelist, Fields
<1> HIDE DEF f, m, U
<1>4. /\ f \in U /\ Chained(g.ids, m, U \ {f}, -g.ids[f], m - 2 - g.size)
  <2> DEFINE K == m - 1 - g.size
  <2>1. K \in Nat /\ K >= 1 /\ K - 1 = m - 2 - g.size
    BY <1>1
  <2> HIDE DEF K
  <2>2. Chained(g.ids, m, U, f, K)
    BY <1>1 DEF K
  <2> QED BY <1>1, <1>2, <2>1, <2>2, ChainPop
<1>5. Typed(a) /\ MaxSize(a) = m /\ Unused(a) = U
  <2>1. MaxSize(a) = m
    BY <1>3 DEF MaxSize, m
  <2>2. f \in Int /\ f \in DOMAIN g.ids /\ g.ids[f] \in Int /\ g.ids[f] < 0
    BY <1>1, <1>2, <1>4 DEF U, Unused
  <2>3. -g.ids[f] \in Nat
    BY <2>2
  <2>4. a.tid \in [Entries -> Int] /\ a.time \in [Entries -> Nat]
    <3>1. [g.tid EXCEPT ![e] = f] \in [Entries -> Int]
      BY <1>1, <2>2
    <3>2. [g.time EXCEPT ![e] = t] \in [Entries -> Nat]
      BY <1>1
    <3> QED BY <1>3, <3>1, <3>2
  <2> QED BY <1>1, <1>3, <2>1, <2>3, <2>4 DEF Typed, Unused, Ids, U, m
<1>6. CASE ~(a.size + 2 >= MaxSize(a))
  <2>1. b = a /\ m >= g.size + 3
    BY <1>1, <1>3, <1>5, <1>6
  <2>2. /\ Typed(b) /\ b.heap = g.heap /\ b.size = g.size /\ b.lock = g.lock /\ b.refs = g.refs
        /\ f \in U /\ b.tid = [g.tid EXCEPT ![e] = f] /\ b.time = [g.time EXCEPT ![e] = t]
        /\ MaxSize(b) = m /\ b.ids = g.ids /\ Unused(b) = U /\ b.free = -g.ids[f]
    BY <1>3, <1>4, <1>5, <2>1
  <2>3. m >= m
    BY <1>1
  <2>4. Chained(b.ids, MaxSize(b), Unused(b) \ {f}, b.free, MaxSize(b) - 2 - g.size)
    BY <1>4, <2>2
  <2> HIDE DEF Chained
  <2> QED BY <2>1, <2>2, <2>3, <2>4 DEF Ready, m, f, U
<1>7. CASE a.size + 2 >= MaxSize(a)
  <2>1. b = GrowHeap(a)
    BY <1>7
  <2>2. /\ Typed(b) /\ MaxSize(b) = 2 * m
        /\ \A i \in 0 .. m - 1 : b.ids[i] = g.ids[i]
        /\ \A i \in m .. 2 * m - 1 : b.ids[i] = -(i + 1)
        /\ b.heap = g.heap /\ b.size = g.size /\ b.free = -g.ids[f]
        /\ b.tid = [g.tid EXCEPT ![e] = f]
        /\ b.time = [g.time EXCEPT ![e] = t] /\ b.lock = g.lock /\ b.refs = g.refs
    <3>1. /\ Typed(b) /\ MaxSize(b) = 2 * MaxSize(a)
          /\ \A i \in 0 .. MaxSize(a) - 1 : b.ids[i] = a.ids[i]
          /\ \A i \in MaxSize(a) .. 2 * MaxSize(a) - 1 : b.ids[i] = -(i + 1)
          /\ b.heap = a.heap /\ b.size = a.size /\ b.free = a.free /\ b.tid = a.tid
          /\ b.time = a.time /\ b.lock = a.lock /\ b.refs = a.refs
      <4>1. Typed(a)
        BY <1>5
      <4>2. Grown(a, b)
        BY <2>1, <4>1, GrowFacts
      <4> QED BY <4>2 DEF Grown
    <3> QED BY <1>3, <1>5, <3>1
  <2>3. Unused(b) \ {f} = (U \ {f}) \cup (m .. 2 * m - 1)
    <3>1. \A i \in 1 .. m - 1 : i \in Unused(b) <=> i \in U
      <4> TAKE i \in 1 .. m - 1
      <4>1. i \in 0 .. m - 1 /\ i \in 1 .. 2 * m - 1
        BY <1>1
      <4>2. b.ids[i] = g.ids[i] /\ i \in Ids(b) /\ i \in Ids(g)
        BY <2>2, <4>1 DEF Ids, m
      <4> QED BY <4>2 DEF Unused, U
    <3>2. \A i \in m .. 2 * m - 1 : i \in Unused(b) /\ i # f
      <4> TAKE i \in m .. 2 * m - 1
      <4>1. i \in 1 .. 2 * m - 1 /\ b.ids[i] = -(i + 1) /\ -(i + 1) < 0
        <5>1. i \in Nat /\ i \in 1 .. 2 * m - 1
          BY <1>1
        <5> QED BY <2>2, <5>1
      <4>2. i \in Unused(b)
        BY <2>2, <4>1 DEF Unused, Ids
      <4>3. f < m
        BY <1>1, <1>2, <1>4
      <4> QED BY <1>1, <4>2, <4>3
    <3>3. \A i \in Unused(b) : i \in 1 .. m - 1 \/ i \in m .. 2 * m - 1
      BY <1>1, <2>2 DEF Unused, Ids
    <3> QED BY <1>2, <3>1, <3>2, <3>3
  <2>4. Chained(b.ids, 2 * m, (U \ {f}) \cup (m .. 2 * m - 1), -g.ids[f], 2 * m - 2 - g.size)
    <3> DEFINE K == m - 2 - g.size
    <3>1. K \in Nat /\ K + m = 2 * m - 2 - g.size
      BY <1>1
    <3> HIDE DEF K
    <3>2. Chained(g.ids, m, U \ {f}, -g.ids[f], K) /\ U \ {f} \subseteq 1 .. m - 1 /\ m >= 1
      BY <1>1, <1>2, <1>4 DEF K
    <3>3. \A p \in U \ {f} : b.ids[p] = g.ids[p]
      <4> TAKE p \in U \ {f}
      <4>1. p \in 0 .. m - 1
        BY <1>1, <1>2
      <4> QED BY <2>2, <4>1
    <3>4. \A p \in m .. 2 * m - 1 : b.ids[p] = -(p + 1)
      BY <2>2
    <3>5. Chained(b.ids, 2 * m, (U \ {f}) \cup (m .. 2 * m - 1), -g.ids[f], K + m)
      BY <1>1, <3>1, <3>2, <3>3, <3>4, ChainGrow
    <3> QED BY <3>1, <3>5
  <2>5. 2 * m >= m /\ 2 * m >= g.size + 3
    BY <1>1
  <2> QED BY <1>4, <2>2, <2>3, <2>4, <2>5 DEF Ready, m, f, U
<1> QED BY <1>6, <1>7

(* Scheduling keeps a heap sound, and what it adds is the entry.           *)
LEMMA ScheduleSound ==
    ASSUME NEW g, Sound(g), NEW e \in Entries, e \notin Pending(g), NEW t \in Nat, NEW r,
           r = ScheduleEntry(g, e, t)
    PROVE  /\ Sound(r) /\ Pending(r) = Pending(g) \cup {e}
           /\ r.time = [g.time EXCEPT ![e] = t]
           /\ r.lock = IF e \in Locked THEN g.lock \cup {e} ELSE g.lock
           /\ r.refs = IF e \in Locked THEN g.refs + 1 ELSE g.refs
<1> DEFINE a == [PopFreelist(g, e) EXCEPT !.time[e] = t]
           b == IF a.size + 2 >= MaxSize(a) THEN GrowHeap(a) ELSE a
           c == ReheapUp(b, e, b.size)
           d == [c EXCEPT !.size = c.size + 1]
           D == 0 .. g.size
           f == g.free
           M == MaxSize(b)
<1>1. Ready(g, b, e, t)
  BY PopReady
<1>2. r = IF e \in Locked THEN [d EXCEPT !.lock = d.lock \cup {e}, !.refs = d.refs + 1] ELSE d
  BY DEF ScheduleEntry, InsertNode
<1> HIDE DEF a, b
<1>3. /\ Typed(b) /\ b.heap = g.heap /\ b.size = g.size /\ b.lock = g.lock /\ b.refs = g.refs
      /\ f \in Unused(g) /\ b.tid = [g.tid EXCEPT ![e] = f]
      /\ b.time = [g.time EXCEPT ![e] = t]
      /\ M >= MaxSize(g) /\ M >= g.size + 3
      /\ \A i \in 0 .. MaxSize(g) - 1 : b.ids[i] = g.ids[i]
      /\ Chained(b.ids, M, Unused(b) \ {f}, b.free, M - 2 - g.size)
  BY <1>1 DEF Ready
<1>4. /\ Typed(g) /\ g.size \in Nat /\ MaxSize(g) \in Nat /\ M \in Nat /\ MaxSize(g) >= 2
      /\ g.tid \in [Entries -> Int] /\ g.time \in [Entries -> Nat] /\ g.size + 2 <= MaxSize(g)
      /\ Filled(g, Slots(g)) /\ Order(g, Slots(g))
      /\ \A o \in Entries \ Pending(g) : g.tid[o] \in {-1, 0}
  BY <1>3 DEF Sound, Typed
<1>5. \A s \in Slots(g) : g.heap[s] \in Pending(g) /\ g.heap[s] # e
  BY DEF Pending
<1>6. f \in Ids(g) /\ f \in Ids(b) /\ g.ids[f] < 0 /\ f \in DOMAIN b.ids
  <2>1. f \in Ids(g) /\ g.ids[f] < 0
    BY <1>3 DEF Unused
  <2>2. f \in Ids(b)
    BY <1>3, <1>4, <2>1 DEF Ids
  <2>3. f \in DOMAIN b.ids
    BY <1>3, <1>4, <2>2, FreeFacts
  <2> QED BY <2>1, <2>2, <2>3
<1> HIDE DEF M, f
<1>7. ASSUME NEW s \in Slots(g)
      PROVE  /\ b.heap[s] \in Entries /\ b.tid[b.heap[s]] \in Ids(b)
             /\ b.ids[b.tid[b.heap[s]]] = s /\ b.tid[b.heap[s]] # f
             /\ b.time[b.heap[s]] = g.time[g.heap[s]]
  <2>1. g.heap[s] \in Entries /\ g.tid[g.heap[s]] \in Ids(g) /\ g.ids[g.tid[g.heap[s]]] = s
    BY <1>4 DEF Filled, Seated
  <2>2. b.heap[s] = g.heap[s] /\ b.tid[g.heap[s]] = g.tid[g.heap[s]] /\ b.time[g.heap[s]] = g.time[g.heap[s]]
    BY <1>3, <1>4, <1>5, <2>1
  <2>3. b.ids[g.tid[g.heap[s]]] = s /\ g.tid[g.heap[s]] \in Ids(b)
    BY <1>3, <1>4, <2>1 DEF Ids, M
  <2>4. g.tid[g.heap[s]] # f
    <3>1. s \in Nat
      BY <1>4 DEF Slots
    <3>2. g.ids[f] < 0
      BY <1>6
    <3> QED BY <2>1, <3>1, <3>2
  <2> QED BY <2>1, <2>2, <2>3, <2>4
<1>8. Hole(b, D, g.size, e)
  <2>1. b.tid[e] = f
    BY <1>3, <1>4
  <2>2. D \ {g.size} = Slots(g) /\ g.size \in D /\ D \subseteq Nat
    BY <1>4 DEF Slots
  <2>3. DOMAIN b.heap \cup {g.size} = D
    <3>1. DOMAIN b.heap = Slots(g)
      BY <1>3, <1>4 DEF Filled
    <3> QED BY <2>2, <3>1
  <2>4. \A s \in D \ {g.size} : Seated(b, s) /\ b.tid[b.heap[s]] # b.tid[e]
    BY <1>7, <2>1, <2>2 DEF Seated
  <2> QED BY <1>3, <1>6, <2>1, <2>2, <2>3, <2>4 DEF Hole
<1>9. UpFrom(b, D, g.size, e)
  <2> SUFFICES ASSUME NEW s \in D \ {g.size}, s > 0
               PROVE  Parent(s) # g.size /\ b.time[b.heap[Parent(s)]] <= b.time[b.heap[s]]
    BY DEF UpFrom
  <2>1. s \in Slots(g) /\ s \in Nat /\ s < g.size
    BY <1>4 DEF Slots
  <2>2. Parent(s) \in Nat /\ Parent(s) < s
    BY <2>1, Family
  <2>3. Parent(s) \in Slots(g) /\ Parent(s) # g.size
    BY <1>4, <2>1, <2>2 DEF Slots
  <2>4. g.time[g.heap[Parent(s)]] <= g.time[g.heap[s]]
    BY <1>4, <2>1 DEF Order
  <2> QED BY <1>7, <2>1, <2>3, <2>4
<1>10. FitsIn(b, c, D, g.size, e) /\ Order(c, D)
  <2> DEFINE k == g.size + 1
  <2>1. k \in Nat /\ D = 0 .. k - 1 /\ g.size \in 0 .. k - 1 /\ g.size <= b.size
    BY <1>3, <1>4
  <2> HIDE DEF k, D, c
  <2>2. Hole(b, 0 .. k - 1, g.size, e) /\ UpFrom(b, 0 .. k - 1, g.size, e)
    BY <1>8, <1>9, <2>1
  <2>3. c = ReheapUp(b, e, g.size)
    BY <1>3 DEF c
  <2> QED BY <2>1, <2>2, <2>3, UpOrders
<1> HIDE DEF c
<1>11. /\ Typed(c) /\ Rest(b, c) /\ Filled(c, D) /\ Order(c, D)
       /\ Held(c, D) = Held(b, D \ {g.size}) \cup {e}
       /\ c.ids[f] >= 0
       /\ \A i \in DOMAIN b.ids : i # f => c.ids[i] = b.ids[i] \/ (c.ids[i] >= 0 /\ b.ids[i] >= 0)
  <2>1. b.tid[e] = f
    BY <1>3, <1>4
  <2> QED BY <1>10, <2>1 DEF FitsIn
<1> HIDE DEF d
<1>12. /\ r.heap = c.heap /\ r.size = g.size + 1 /\ r.ids = c.ids /\ r.free = b.free
       /\ r.tid = b.tid /\ r.time = b.time /\ DOMAIN r = DOMAIN c
       /\ r.lock = IF e \in Locked THEN g.lock \cup {e} ELSE g.lock
       /\ r.refs = IF e \in Locked THEN g.refs + 1 ELSE g.refs
  <2>1. Fields \subseteq DOMAIN c
    BY <1>11 DEF Typed
  <2>2. /\ c.size = g.size /\ c.free = b.free /\ c.tid = b.tid /\ c.time = b.time
        /\ c.lock = g.lock /\ c.refs = g.refs
    BY <1>3, <1>11 DEF Rest
  <2>3. /\ d.heap = c.heap /\ d.size = g.size + 1 /\ d.ids = c.ids /\ d.free = c.free
        /\ d.tid = c.tid /\ d.time = c.time /\ d.lock = c.lock /\ d.refs = c.refs
        /\ DOMAIN d = DOMAIN c
    BY <2>1, <2>2 DEF d, Fields
  <2>4. CASE e \in Locked
    <3>1. r = [d EXCEPT !.lock = d.lock \cup {e}, !.refs = d.refs + 1]
      BY <1>2, <2>4
    <3> QED BY <2>1, <2>2, <2>3, <2>4, <3>1 DEF Fields
  <2>5. CASE e \notin Locked
    BY <1>2, <2>2, <2>3, <2>5
  <2> QED BY <2>4, <2>5
<1>13. MaxSize(r) = M /\ MaxSize(c) = M /\ Slots(r) = D
  <2>1. MaxSize(c) = M
    BY <1>11 DEF Rest, M
  <2> QED BY <1>4, <1>12, <2>1 DEF MaxSize, Slots
<1>14. Typed(r)
  <2>1. r.refs \in Int /\ r.lock \subseteq Entries
    <3>1. g.refs \in Int /\ g.lock \subseteq Entries
      BY <1>4 DEF Typed
    <3> QED BY <1>12, <3>1
  <2>2. r.size \in Nat
    BY <1>4, <1>12
  <2> QED BY <1>11, <1>12, <1>13, <2>1, <2>2 DEF Typed, Rest
<1>15. Filled(r, Slots(r)) /\ Order(r, Slots(r))
  BY <1>11, <1>12, <1>13 DEF Filled, Seated, Order, Rest, Ids
<1>16. Pending(r) = Pending(g) \cup {e}
  <2>1. D \ {g.size} = Slots(g)
    BY <1>4 DEF Slots
  <2>2. Pending(r) = Held(c, D)
    BY <1>12, <1>13 DEF Pending, Held
  <2>3. Held(b, D \ {g.size}) = Pending(g)
    BY <1>3, <2>1 DEF Pending, Held
  <2> QED BY <1>11, <2>2, <2>3
<1>17. Chained(r.ids, MaxSize(r), Unused(r), r.free, MaxSize(r) - 1 - r.size)
  <2>1. Ids(r) = Ids(b) /\ \A i \in Ids(b) : i \in DOMAIN b.ids
    BY <1>3, <1>13, FreeFacts DEF Ids, M
  <2>2. Unused(r) = Unused(b) \ {f}
    <3>1. \A i \in Ids(b) : r.ids[i] < 0 <=> i # f /\ b.ids[i] < 0
      <4> TAKE i \in Ids(b)
      <4>1. r.ids[i] \in Int /\ b.ids[i] \in Int
        BY <1>3, <1>14, <2>1, FreeFacts
      <4>2. i = f => r.ids[i] >= 0
        BY <1>11, <1>12
      <4>3. i # f => r.ids[i] = b.ids[i] \/ (r.ids[i] >= 0 /\ b.ids[i] >= 0)
        BY <1>11, <1>12, <2>1
      <4> QED BY <4>1, <4>2, <4>3
    <3> QED BY <2>1, <3>1 DEF Unused
  <2>3. \A p \in Unused(b) \ {f} : r.ids[p] = b.ids[p]
    <3> TAKE p \in Unused(b) \ {f}
    <3>1. p \in DOMAIN b.ids /\ b.ids[p] < 0 /\ b.ids[p] \in Int
      BY <1>3, <2>1, FreeFacts DEF Unused
    <3> QED BY <1>11, <1>12, <3>1
  <2>4. M - 2 - g.size = M - 1 - r.size
    BY <1>4, <1>12
  <2>5. Chained(r.ids, M, Unused(b) \ {f}, b.free, M - 2 - g.size)
    BY <1>3, <2>3, ChainSame
  <2> QED BY <1>12, <1>13, <2>2, <2>4, <2>5
<1>18. r.size + 2 <= MaxSize(r)
  BY <1>3, <1>4, <1>12, <1>13
<1>19. \A o \in Entries \ Pending(r) : r.tid[o] \in {-1, 0}
  <2> TAKE o \in Entries \ Pending(r)
  <2>1. o # e /\ o \in Entries \ Pending(g)
    BY <1>16
  <2>2. r.tid[o] = g.tid[o]
    BY <1>3, <1>4, <1>12, <2>1
  <2> QED BY <1>4, <2>1, <2>2
<1> QED BY <1>3, <1>12, <1>14, <1>15, <1>16, <1>17, <1>18, <1>19 DEF Sound


(* The heap g without the entry of the slot, before the last one fills it. *)
Emptied(g, b, slot) ==
    /\ Typed(b) /\ b.size = g.size - 1 /\ MaxSize(b) = MaxSize(g)
    /\ b.lock = g.lock /\ b.refs = g.refs
    /\ b.heap \in [0 .. b.size - 1 -> Entries]
    /\ \A s \in 0 .. b.size - 1 : b.heap[s] = g.heap[s]
    /\ Chained(b.ids, MaxSize(b), Unused(b), b.free, MaxSize(b) - 1 - b.size)
    /\ b.tid[g.heap[slot]] = -1
    /\ \A o \in Entries \ {g.heap[slot]} : b.tid[o] = g.tid[o] /\ b.time[o] = g.time[o]
    /\ \A s \in Slots(g) \ {slot} : /\ g.heap[s] \in Entries \ {g.heap[slot]}
                                    /\ b.tid[g.heap[s]] \in Ids(b)
                                    /\ b.ids[b.tid[g.heap[s]]] = s

(* push_freelist() gives the id back, and the array is one shorter.        *)
LEMMA PushEmpties ==
    ASSUME NEW g, Sound(g), NEW slot \in Slots(g), NEW b,
           b = [PushFreelist(g, g.heap[slot]) EXCEPT
                  !.size = g.size - 1, !.heap = Restrict(g.heap, 0 .. g.size - 2)]
    PROVE  Emptied(g, b, slot)
<1> DEFINE m == MaxSize(g)
           f == g.free
           x == g.heap[slot]
           j == g.tid[x]
           U == Unused(g)
           K == m - 1 - g.size
<1>1. /\ Typed(g) /\ g.size + 2 <= m /\ Chained(g.ids, m, U, f, K)
      /\ Fields \subseteq DOMAIN g /\ g.size \in Nat /\ f \in Nat /\ g.refs \in Int
      /\ m \in Nat /\ m >= 2 /\ g.ids \in [0 .. m - 1 -> Int] /\ g.ids[0] < 0
      /\ g.tid \in [Entries -> Int] /\ g.time \in [Entries -> Nat] /\ g.lock \subseteq Entries
      /\ g.heap \in [Slots(g) -> Entries] /\ \A s \in Slots(g) : Seated(g, s)
  BY DEF Sound, Typed, Filled
<1>2. U \subseteq 1 .. m - 1 /\ U \subseteq Nat /\ m \notin U
  BY <1>1, FreeFacts
<1>3. \A s \in Slots(g) : /\ g.heap[s] \in Entries /\ g.tid[g.heap[s]] \in 1 .. m - 1
                          /\ g.ids[g.tid[g.heap[s]]] = s /\ s \in Nat
  BY <1>1 DEF Seated, Ids, Slots
<1>4. x \in Entries /\ j \in 1 .. m - 1 /\ j \in Nat /\ g.ids[j] = slot /\ slot \in Nat
  BY <1>1, <1>3
<1>5. b = [[g EXCEPT !.ids = [g.ids EXCEPT ![j] = -f], !.free = j,
                     !.tid = [g.tid EXCEPT ![x] = -1], !.time = [g.time EXCEPT ![x] = 0]]
            EXCEPT !.size = g.size - 1, !.heap = Restrict(g.heap, 0 .. g.size - 2)]
  BY DEF PushFreelist
<1>6. /\ b.heap = Restrict(g.heap, 0 .. g.size - 2) /\ b.size = g.size - 1
      /\ b.ids = [g.ids EXCEPT ![j] = -f] /\ b.free = j
      /\ b.tid = [g.tid EXCEPT ![x] = -1] /\ b.time = [g.time EXCEPT ![x] = 0]
      /\ b.lock = g.lock /\ b.refs = g.refs /\ DOMAIN b = DOMAIN g
  <2> HIDE DEF j, x, f
  <2> QED BY <1>1, <1>5 DEF Fields
<1>7. j \notin U /\ K \in Nat /\ f \in Int /\ f >= 1
  <2>1. j \notin U
    BY <1>4 DEF U, Unused
  <2>2. f \in U \cup {m}
    BY <1>1 DEF Chained, Ranks
  <2>3. f >= 1
    BY <1>1, <1>2, <2>2
  <2> QED BY <1>1, <2>1, <2>3
<1>8. g.size \in Nat \ {0}
  BY <1>1 DEF Slots
<1> HIDE DEF m, f, x, j, U, K
<1>9. MaxSize(b) = m /\ Ids(b) = 1 .. m - 1
  BY <1>1, <1>6 DEF MaxSize, m, Ids
<1>10. /\ b.ids[j] = -f /\ \A i \in 0 .. m - 1 : i # j => b.ids[i] = g.ids[i]
       /\ b.tid[x] = -1 /\ \A o \in Entries \ {x} : b.tid[o] = g.tid[o] /\ b.time[o] = g.time[o]
       /\ b.ids \in [0 .. m - 1 -> Int]
  <2>1. j \in 0 .. m - 1
    BY <1>1, <1>4
  <2>2. b.ids[j] = -f /\ \A i \in 0 .. m - 1 : i # j => b.ids[i] = g.ids[i]
    BY <1>1, <1>6, <2>1
  <2>3. b.tid[x] = -1 /\ \A o \in Entries \ {x} : b.tid[o] = g.tid[o] /\ b.time[o] = g.time[o]
    <3>1. b.tid[x] = -1 /\ \A o \in Entries \ {x} : b.tid[o] = g.tid[o]
      BY <1>1, <1>4, <1>6
    <3>2. \A o \in Entries \ {x} : b.time[o] = g.time[o]
      BY <1>1, <1>4, <1>6
    <3> QED BY <3>1, <3>2
  <2>4. [g.ids EXCEPT ![j] = -f] \in [0 .. m - 1 -> Int]
    <3>1. -f \in Int
      BY <1>7
    <3> QED BY <1>1, <2>1, <3>1
  <2> QED BY <1>6, <2>2, <2>3, <2>4
<1>11. Typed(b)
  <2>1. b.ids[0] < 0
    <3>1. 0 \in 0 .. m - 1 /\ 0 # j
      BY <1>1, <1>4
    <3> QED BY <1>1, <1>10, <3>1
  <2>2. b.size \in Nat
    BY <1>6, <1>8
  <2>3. b.tid \in [Entries -> Int] /\ b.time \in [Entries -> Nat]
    <3>1. [g.tid EXCEPT ![x] = -1] \in [Entries -> Int]
      <4>1. PICK k \in Int : k = -1
        OBVIOUS
      <4> QED BY <1>1, <4>1
    <3>2. [g.time EXCEPT ![x] = 0] \in [Entries -> Nat]
      BY <1>1
    <3> QED BY <1>6, <3>1, <3>2
  <2> QED BY <1>1, <1>4, <1>6, <1>9, <1>10, <2>1, <2>2, <2>3 DEF Typed
<1>12. /\ b.heap \in [0 .. b.size - 1 -> Entries]
       /\ \A s \in 0 .. b.size - 1 : b.heap[s] = g.heap[s]
  <2>1. b.size - 1 = g.size - 2 /\ 0 .. g.size - 2 \subseteq Slots(g)
    BY <1>6, <1>8 DEF Slots
  <2>2. b.heap = [s \in 0 .. g.size - 2 |-> g.heap[s]]
    BY <1>6 DEF Restrict
  <2> QED BY <1>1, <2>1, <2>2
<1>13. Unused(b) = U \cup {j}
  <2>1. \A i \in 1 .. m - 1 : b.ids[i] < 0 <=> i \in U \/ i = j
    <3> TAKE i \in 1 .. m - 1
    <3>1. CASE i = j
      BY <1>7, <1>10, <3>1
    <3>2. CASE i # j
      <4>1. i \in 0 .. m - 1
        BY <1>1
      <4> QED BY <1>10, <3>2, <4>1 DEF U, Unused, Ids, m
    <3> QED BY <3>1, <3>2
  <2> QED BY <1>2, <1>4, <1>9, <2>1 DEF Unused
<1>14. Chained(b.ids, MaxSize(b), Unused(b), b.free, MaxSize(b) - 1 - b.size)
  <2>1. j # m /\ m - 1 - b.size = K + 1
    BY <1>1, <1>4, <1>6, <1>8 DEF K
  <2>2. \A p \in U : b.ids[p] = g.ids[p]
    <3> TAKE p \in U
    <3>1. p \in 0 .. m - 1 /\ p # j
      BY <1>1, <1>2, <1>7
    <3> QED BY <1>10, <3>1
  <2>3. Chained(b.ids, m, U \cup {j}, j, K + 1)
    <3>1. /\ m \in Nat /\ U \subseteq Nat /\ K \in Nat /\ j \in Nat /\ j \notin U /\ j # m
          /\ b.ids[j] = -f /\ Chained(g.ids, m, U, f, K)
      BY <1>1, <1>2, <1>4, <1>7, <1>10, <2>1
    <3> QED BY <2>2, <3>1, ChainPush
  <2> QED BY <1>6, <1>9, <1>13, <2>1, <2>3
<1>15. ASSUME NEW s \in Slots(g) \ {slot}
       PROVE  /\ g.heap[s] \in Entries \ {x} /\ b.tid[g.heap[s]] \in Ids(b)
              /\ b.ids[b.tid[g.heap[s]]] = s
  <2>1. g.heap[s] # x /\ g.tid[g.heap[s]] # j
    BY <1>3, <1>4 DEF j
  <2>2. b.tid[g.heap[s]] = g.tid[g.heap[s]] /\ g.heap[s] \in Entries \ {x}
    BY <1>3, <1>10, <2>1
  <2>3. g.tid[g.heap[s]] \in 0 .. m - 1
    BY <1>1, <1>3
  <2> QED BY <1>3, <1>9, <1>10, <2>1, <2>2, <2>3
<1> QED BY <1>6, <1>9, <1>10, <1>11, <1>12, <1>14, <1>15 DEF Emptied, m, x

(* Removing keeps a heap sound, and what it takes is the entry of the slot.*)
LEMMA RemoveSound ==
    ASSUME NEW g, Sound(g), NEW slot \in Slots(g), NEW r, r = RemoveNode(g, slot)
    PROVE  /\ Sound(r) /\ Pending(r) = Pending(g) \ {g.heap[slot]}
           /\ \A o \in Pending(r) : r.time[o] = g.time[o]
           /\ r.lock = g.lock /\ r.refs = g.refs
<1> DEFINE last == g.size - 1
           n == g.heap[last]
           x == g.heap[slot]
           b == [PushFreelist(g, x) EXCEPT !.size = last, !.heap = Restrict(g.heap, 0 .. last - 1)]
           D == 0 .. last - 1
           down == slot = 0 \/ g.time[n] >= g.time[g.heap[Parent(slot)]]
<1>1. r = IF slot = last THEN b ELSE IF down THEN ReheapDown(b, n, slot) ELSE ReheapUp(b, n, slot)
  <2>1. b = [PushFreelist(g, x) EXCEPT !.size = last, !.heap = Restrict(@, 0 .. last - 1)]
    BY DEF PushFreelist
  <2> QED BY <2>1 DEF RemoveNode
<1>2. /\ Typed(g) /\ g.size \in Nat \ {0} /\ Filled(g, Slots(g)) /\ Order(g, Slots(g))
      /\ g.time \in [Entries -> Nat] /\ g.size + 2 <= MaxSize(g) /\ MaxSize(g) \in Nat
      /\ \A e \in Entries \ Pending(g) : g.tid[e] \in {-1, 0}
      /\ slot \in Nat /\ slot <= last /\ last \in Nat
  BY DEF Sound, Typed, Slots
<1>3. Emptied(g, b, slot)
  <2>1. last - 1 = g.size - 2
    BY <1>2
  <2> QED BY <2>1, PushEmpties
<1> HIDE DEF b
<1>4. /\ Typed(b) /\ b.size = last /\ MaxSize(b) = MaxSize(g)
      /\ b.lock = g.lock /\ b.refs = g.refs
      /\ b.heap \in [D -> Entries] /\ \A s \in D : b.heap[s] = g.heap[s]
      /\ Chained(b.ids, MaxSize(b), Unused(b), b.free, MaxSize(b) - 1 - last)
      /\ b.tid[x] = -1
      /\ \A o \in Entries \ {x} : b.tid[o] = g.tid[o] /\ b.time[o] = g.time[o]
      /\ \A s \in Slots(g) \ {slot} : /\ g.heap[s] \in Entries \ {x}
                                      /\ b.tid[g.heap[s]] \in Ids(b)
                                      /\ b.ids[b.tid[g.heap[s]]] = s
  BY <1>3 DEF Emptied
<1>5. /\ \A s \in D : s \in Slots(g) /\ s # last /\ s \in Nat
      /\ last \in Slots(g) /\ \A s \in Slots(g) : s \in D \/ s = last
  BY <1>2 DEF Slots
<1> HIDE DEF n, x, last, down
<1>6. Pending(g) \ {x} = {g.heap[s] : s \in Slots(g) \ {slot}}
  BY <1>4 DEF Pending, x
<1>7. ASSUME Typed(r), r.size = last, MaxSize(r) = MaxSize(b), Filled(r, D), Order(r, D),
             Held(r, D) = {g.heap[s] : s \in Slots(g) \ {slot}},
             r.free = b.free, r.tid = b.tid, r.time = b.time, r.lock = b.lock, r.refs = b.refs,
             \A i \in DOMAIN b.ids : r.ids[i] = b.ids[i] \/ (r.ids[i] >= 0 /\ b.ids[i] >= 0)
      PROVE  /\ Sound(r) /\ Pending(r) = Pending(g) \ {x}
             /\ \A o \in Pending(r) : r.time[o] = g.time[o]
             /\ r.lock = g.lock /\ r.refs = g.refs
  <2>1. Slots(r) = D
    BY <1>7 DEF Slots
  <2>2. Pending(r) = Pending(g) \ {x}
    BY <1>6, <1>7, <2>1 DEF Pending, Held
  <2>3. \A o \in Pending(r) : o \in Entries \ {x} /\ r.time[o] = g.time[o]
    BY <1>4, <1>6, <1>7, <2>2
  <2>4. Unused(r) = Unused(b) /\ \A p \in Unused(b) : r.ids[p] = b.ids[p]
    <3>1. \A i \in Ids(b) : i \in DOMAIN b.ids /\ b.ids[i] \in Int /\ Ids(r) = Ids(b)
      BY <1>4, <1>7, FreeFacts DEF Ids
    <3>2. \A i \in Ids(r) : r.ids[i] \in Int
      BY <1>7, FreeFacts
    <3>3. \A i \in Ids(b) : r.ids[i] = b.ids[i] \/ (r.ids[i] >= 0 /\ b.ids[i] >= 0)
      BY <1>7, <3>1
    <3>4. \A i \in Ids(b) : r.ids[i] < 0 <=> b.ids[i] < 0
      BY <3>1, <3>2, <3>3
    <3>5. \A i \in Ids(b) : b.ids[i] < 0 => r.ids[i] = b.ids[i]
      BY <3>1, <3>3
    <3>6. Ids(r) = Ids(b)
      BY <1>7 DEF Ids
    <3> HIDE DEF Ids
    <3> QED BY <3>4, <3>5, <3>6 DEF Unused
  <2>5. Chained(r.ids, MaxSize(r), Unused(r), r.free, MaxSize(r) - 1 - r.size)
    <3>1. Chained(r.ids, MaxSize(b), Unused(b), b.free, MaxSize(b) - 1 - last)
      BY <1>4, <2>4, ChainSame
    <3> QED BY <1>7, <2>4, <3>1
  <2>6. ASSUME NEW o \in Entries \ Pending(r) PROVE r.tid[o] \in {-1, 0}
    <3>1. CASE o = x
      BY <1>4, <1>7, <3>1
    <3>2. CASE o # x
      BY <1>2, <1>4, <1>7, <2>2, <3>2
    <3> QED BY <3>1, <3>2
  <2>7. r.size + 2 <= MaxSize(r)
    BY <1>2, <1>4, <1>7 DEF last
  <2> QED BY <1>4, <1>7, <2>1, <2>2, <2>3, <2>5, <2>6, <2>7 DEF Sound
<1>8. \A s \in Slots(g) \ {slot} : b.time[g.heap[s]] = g.time[g.heap[s]] /\ g.time[g.heap[s]] \in Nat
  BY <1>2, <1>4
<1>9. \A s \in Slots(g) : s > 0 =>
        /\ g.time[g.heap[Parent(s)]] <= g.time[g.heap[s]] /\ g.time[g.heap[s]] \in Nat
        /\ Parent(s) \in D /\ Parent(s) < s /\ Parent(s) \in Nat /\ s \in Nat
        /\ g.time[g.heap[Parent(s)]] \in Nat
  <2> SUFFICES ASSUME NEW s \in Slots(g), s > 0
               PROVE  /\ g.time[g.heap[Parent(s)]] <= g.time[g.heap[s]] /\ g.time[g.heap[s]] \in Nat
                      /\ Parent(s) \in D /\ Parent(s) < s /\ Parent(s) \in Nat /\ s \in Nat
                      /\ g.time[g.heap[Parent(s)]] \in Nat
    OBVIOUS
  <2>1. s \in Nat /\ s <= last
    BY <1>2 DEF Slots, last
  <2>2. Parent(s) \in Nat /\ Parent(s) < s
    BY <2>1, Family
  <2>3. Parent(s) \in D
    BY <1>2, <2>1, <2>2
  <2>4. g.heap[s] \in Entries /\ g.heap[Parent(s)] \in Entries
    BY <1>2, <1>5, <2>3 DEF Filled
  <2> QED BY <1>2, <2>1, <2>2, <2>3, <2>4 DEF Order
<1>10. CASE slot = last
  <2>1. r = b
    BY <1>1, <1>10
  <2>2. D = Slots(g) \ {slot}
    BY <1>5, <1>10
  <2>3. Filled(b, D)
    BY <1>4, <2>2 DEF Filled, Seated
  <2>4. Order(b, D)
    <3> SUFFICES ASSUME NEW s \in D, s > 0 PROVE b.time[b.heap[Parent(s)]] <= b.time[b.heap[s]]
      BY DEF Order
    <3>1. Parent(s) \in D /\ g.time[g.heap[Parent(s)]] <= g.time[g.heap[s]]
      BY <1>5, <1>9
    <3> QED BY <1>4, <1>8, <2>2, <3>1
  <2>5. Held(b, D) = {g.heap[s] : s \in Slots(g) \ {slot}}
    BY <1>4, <2>2 DEF Held
  <2> QED BY <1>4, <1>7, <2>1, <2>3, <2>4, <2>5 DEF x
<1>11. CASE slot # last
  <2>1. slot \in D /\ last \in Slots(g) \ {slot}
    BY <1>2, <1>5, <1>11
  <2>2. /\ \A s \in D \ {slot} : /\ s \in Slots(g) \ {slot} /\ b.heap[s] = g.heap[s]
                                 /\ b.time[b.heap[s]] = g.time[g.heap[s]]
                                 /\ b.tid[b.heap[s]] # b.tid[n] /\ Seated(b, s)
        /\ n \in Entries /\ b.tid[n] \in Ids(b) /\ b.time[n] = g.time[n] /\ b.ids[b.tid[n]] = last
    <3>1. /\ n \in Entries /\ b.tid[n] \in Ids(b) /\ b.time[n] = g.time[n] /\ b.ids[b.tid[n]] = last
      BY <1>4, <1>8, <2>1 DEF n
    <3>2. ASSUME NEW s \in D \ {slot}
          PROVE  /\ s \in Slots(g) \ {slot} /\ b.heap[s] = g.heap[s]
                 /\ b.time[b.heap[s]] = g.time[g.heap[s]]
                 /\ b.tid[b.heap[s]] # b.tid[n] /\ Seated(b, s)
      <4>1. s \in Slots(g) \ {slot} /\ b.heap[s] = g.heap[s] /\ s # last
        BY <1>4, <1>5
      <4>2. b.ids[b.tid[b.heap[s]]] = s /\ b.tid[b.heap[s]] \in Ids(b) /\ b.heap[s] \in Entries
        BY <1>4, <4>1
      <4>3. b.tid[b.heap[s]] # b.tid[n]
        BY <3>1, <4>1, <4>2
      <4> QED BY <1>8, <4>1, <4>2, <4>3 DEF Seated
    <3> QED BY <3>1, <3>2
  <2>3. Hole(b, D, slot, n)
    <3>1. D \subseteq Nat /\ DOMAIN b.heap \cup {slot} = D
      <4>1. DOMAIN b.heap = D
        BY <1>4
      <4> HIDE DEF D
      <4> QED BY <1>5, <2>1, <4>1
    <3> QED BY <1>4, <2>1, <2>2, <3>1 DEF Hole
  <2>4. Held(b, D \ {slot}) \cup {n} = {g.heap[s] : s \in Slots(g) \ {slot}}
    <3>1. Slots(g) \ {slot} = (D \ {slot}) \cup {last}
      BY <1>5, <2>1
    <3> QED BY <2>2, <3>1 DEF Held, n
  <2>5. ASSUME NEW s \in D \ {slot}, s > 0
        PROVE  /\ Parent(s) # slot => b.time[b.heap[Parent(s)]] <= b.time[b.heap[s]]
               /\ Parent(s) = slot /\ slot > 0 => b.time[b.heap[Parent(slot)]] <= b.time[b.heap[s]]
               /\ Parent(s) = slot => g.time[x] <= b.time[b.heap[s]]
    <3>1. Parent(s) \in D /\ g.time[g.heap[Parent(s)]] <= g.time[g.heap[s]] /\ s \in Nat
      BY <1>5, <1>9, <2>5
    <3>2. b.time[b.heap[s]] = g.time[g.heap[s]] /\ g.time[g.heap[s]] \in Nat
      BY <1>8, <2>2
    <3>3. Parent(s) # slot => b.time[b.heap[Parent(s)]] = g.time[g.heap[Parent(s)]]
      BY <2>2, <3>1
    <3>4. ASSUME Parent(s) = slot, slot > 0
          PROVE  b.time[b.heap[Parent(slot)]] <= b.time[b.heap[s]]
      <4>1. /\ Parent(slot) \in D \ {slot} /\ g.time[g.heap[Parent(slot)]] <= g.time[x]
            /\ g.time[x] \in Nat /\ g.time[g.heap[Parent(slot)]] \in Nat
        BY <1>9, <3>4 DEF x
      <4>2. b.time[b.heap[Parent(slot)]] = g.time[g.heap[Parent(slot)]]
        BY <2>2, <4>1
      <4> QED BY <3>1, <3>2, <3>4, <4>1, <4>2 DEF x
    <3> QED BY <3>1, <3>2, <3>3, <3>4 DEF x
  <2>6. ASSUME slot > 0
        PROVE  /\ b.time[b.heap[Parent(slot)]] = g.time[g.heap[Parent(slot)]]
               /\ g.time[g.heap[Parent(slot)]] <= g.time[x]
               /\ g.time[g.heap[Parent(slot)]] \in Nat /\ g.time[x] \in Nat
    <3>1. /\ Parent(slot) \in D \ {slot} /\ g.time[g.heap[Parent(slot)]] <= g.time[x]
          /\ g.time[g.heap[Parent(slot)]] \in Nat /\ g.time[x] \in Nat
      BY <1>9, <2>6 DEF x
    <3> QED BY <2>2, <3>1
  <2>7. FitsIn(b, r, D, slot, n) /\ Order(r, D)
    <3>1. CASE down
      <4>1. r = ReheapDown(b, n, slot)
        BY <1>1, <1>11, <3>1
      <4>2. DownFrom(b, D, slot, n)
        <5>1. slot > 0 => b.time[b.heap[Parent(slot)]] <= b.time[n]
          <6>1. slot > 0 => g.time[n] >= g.time[g.heap[Parent(slot)]]
            BY <1>2, <3>1 DEF down
          <6>2. g.time[n] \in Nat
            BY <1>2, <2>2
          <6> QED BY <2>2, <2>6, <6>1, <6>2
        <5> QED BY <2>5, <5>1 DEF DownFrom
      <4>3. D = 0 .. b.size - 1 /\ slot \in 0 .. b.size - 1
        BY <1>4, <2>1
      <4> HIDE DEF D
      <4> QED BY <2>3, <4>1, <4>2, <4>3, DownOrders
    <3>2. CASE ~down
      <4>1. r = ReheapUp(b, n, slot)
        BY <1>1, <1>11, <3>2
      <4>2. slot > 0 /\ g.time[n] < g.time[g.heap[Parent(slot)]]
        <5>1. slot > 0 /\ ~(g.time[n] >= g.time[g.heap[Parent(slot)]])
          BY <1>2, <3>2 DEF down
        <5>2. g.time[n] \in Nat
          BY <1>2, <2>2
        <5> QED BY <2>6, <5>1, <5>2
      <4>3. UpFrom(b, D, slot, n)
        <5> SUFFICES ASSUME NEW s \in D \ {slot}, s > 0, Parent(s) = slot
                     PROVE  b.time[n] <= b.time[b.heap[s]]
          BY <2>5 DEF UpFrom
        <5>1. g.time[x] <= b.time[b.heap[s]] /\ b.time[b.heap[s]] \in Nat /\ g.time[n] \in Nat
          BY <1>2, <1>8, <2>2, <2>5
        <5> QED BY <2>2, <2>6, <4>2, <5>1
      <4>4. last \in Nat /\ slot \in 0 .. last - 1 /\ slot <= b.size
        BY <1>2, <1>4, <2>1
      <4> QED BY <2>3, <4>1, <4>3, <4>4, UpOrders
    <3> QED BY <3>1, <3>2
  <2>8. /\ Typed(r) /\ Rest(b, r) /\ Filled(r, D) /\ Order(r, D)
        /\ Held(r, D) = {g.heap[s] : s \in Slots(g) \ {slot}}
        /\ r.ids[b.tid[n]] >= 0
        /\ \A i \in DOMAIN b.ids : i # b.tid[n] =>
             r.ids[i] = b.ids[i] \/ (r.ids[i] >= 0 /\ b.ids[i] >= 0)
    BY <2>4, <2>7 DEF FitsIn
  <2>9. b.ids[b.tid[n]] >= 0
    BY <1>2, <2>2
  <2> QED BY <1>4, <1>7, <2>8, <2>9 DEF Rest, x
<1> QED BY <1>10, <1>11


(* The first entry is the earliest.                                        *)
LEMMA FirstLemma ==
    ASSUME NEW g, Sound(g), g.size > 0
    PROVE  /\ 0 \in Slots(g) /\ g.heap[0] \in Pending(g) /\ Pending(g) \subseteq Entries
           /\ \A o \in Pending(g) : g.time[g.heap[0]] <= g.time[o]
<1> DEFINE T(s) == g.time[g.heap[s]]
           Late == {s \in Slots(g) : T(s) < T(0)}
<1>1. /\ g.size \in Nat /\ g.time \in [Entries -> Nat] /\ Order(g, Slots(g))
      /\ \A s \in Slots(g) : g.heap[s] \in Entries
  BY DEF Sound, Typed, Filled
<1>2. 0 \in Slots(g) /\ \A s \in Slots(g) : s \in Nat /\ s < g.size /\ T(s) \in Nat
  BY <1>1 DEF Slots
<1>3. Late = {}
  <2> SUFFICES ASSUME Late # {} PROVE FALSE
    OBVIOUS
  <2>1. Late \subseteq Nat
    BY <1>2
  <2>2. PICK s \in Late : \A j \in Late : s <= j
    BY <2>1, LeastNumber
  <2> HIDE DEF T
  <2>3. s \in Slots(g) /\ T(s) < T(0) /\ s \in Nat /\ s < g.size
    BY <1>2
  <2>4. s > 0
    BY <1>2, <2>3
  <2>5. Parent(s) \in Nat /\ Parent(s) < s
    BY <2>3, <2>4, Family
  <2>6. Parent(s) \in Slots(g)
    BY <1>1, <2>3, <2>5 DEF Slots
  <2>7. T(Parent(s)) <= T(s)
    BY <1>1, <2>3, <2>4 DEF Order, T
  <2>8. Parent(s) \in Late
    <3>1. T(Parent(s)) \in Nat /\ T(s) \in Nat /\ T(0) \in Nat
      BY <1>2, <2>3, <2>6
    <3>2. T(Parent(s)) < T(0)
      BY <2>3, <2>7, <3>1
    <3> QED BY <2>6, <3>2
  <2> HIDE DEF Late
  <2> QED BY <2>1, <2>2, <2>3, <2>5, <2>8
<1>4. \A s \in Slots(g) : T(0) <= T(s)
  BY <1>2, <1>3
<1> QED BY <1>1, <1>2, <1>4 DEF Pending

(* cancel() finds the entries in the heap, and no other.                   *)
LEMMA FoundLemma ==
    ASSUME NEW g, Sound(g), NEW e \in Entries
    PROVE  /\ FoundBy(g, e) <=> e \in Pending(g)
           /\ e \in Pending(g) => /\ g.ids[g.tid[e]] \in Slots(g) /\ g.heap[g.ids[g.tid[e]]] = e
                                  /\ g.tid[e] >= 1
<1>1. /\ MaxSize(g) \in Nat /\ g.ids[0] < 0 /\ g.ids \in [0 .. MaxSize(g) - 1 -> Int] /\ g.size \in Nat
      /\ MaxSize(g) >= 2
      /\ \A o \in Entries \ Pending(g) : g.tid[o] \in {-1, 0}
      /\ \A s \in Slots(g) : /\ g.tid[g.heap[s]] \in Ids(g)
                             /\ g.ids[g.tid[g.heap[s]]] = s
  BY DEF Sound, Typed, Filled, Seated
<1>2. CASE e \in Pending(g)
  <2>1. PICK s \in Slots(g) : g.heap[s] = e
    BY <1>2 DEF Pending
  <2>2. g.tid[e] \in Ids(g) /\ g.ids[g.tid[e]] = s /\ s >= 0
    BY <1>1, <2>1 DEF Slots
  <2>3. g.tid[e] >= 1 /\ g.tid[e] <= MaxSize(g) /\ g.tid[e] >= 0
    BY <1>1, <2>2 DEF Ids
  <2> QED BY <1>2, <2>1, <2>2, <2>3 DEF FoundBy
<1>3. CASE e \notin Pending(g)
  <2>1. g.tid[e] \in {-1, 0}
    BY <1>1, <1>3
  <2>2. ~(g.tid[e] >= 0 /\ g.ids[g.tid[e]] >= 0)
    <3>1. 0 \in DOMAIN g.ids /\ g.ids[0] \in Int
      BY <1>1
    <3> QED BY <1>1, <2>1, <3>1
  <2> QED BY <1>3, <2>2 DEF FoundBy
<1> QED BY <1>2, <1>3

(* Only the references differ.                                             *)
Relock(g, lock, refs) == [g EXCEPT !.lock = lock, !.refs = refs]
Relocked(g, r, lock, refs) ==
    /\ Sound(r) /\ Pending(r) = Pending(g) /\ r.time = g.time
    /\ r.size = g.size /\ r.heap = g.heap /\ r.lock = lock /\ r.refs = refs

(* The references are no part of a sound heap.                             *)
LEMMA SoundElse ==
    ASSUME NEW g, Sound(g), NEW lock \in SUBSET Entries, NEW refs \in Int
    PROVE  Relocked(g, Relock(g, lock, refs), lock, refs)
<1> DEFINE r == Relock(g, lock, refs)
<1>1. Fields \subseteq DOMAIN g
  BY DEF Sound, Typed
<1>2. /\ r.heap = g.heap /\ r.size = g.size /\ r.ids = g.ids /\ r.free = g.free /\ r.tid = g.tid
      /\ r.time = g.time /\ r.lock = lock /\ r.refs = refs /\ DOMAIN r = DOMAIN g
  BY <1>1 DEF Fields, Relock
<1> HIDE DEF r
<1>3. MaxSize(r) = MaxSize(g) /\ Slots(r) = Slots(g) /\ Ids(r) = Ids(g)
  BY <1>2 DEF MaxSize, Slots, Ids
<1>4. Pending(r) = Pending(g) /\ Unused(r) = Unused(g)
  BY <1>2, <1>3 DEF Pending, Unused
<1>5. Typed(r)
  BY <1>2, <1>3 DEF Sound, Typed
<1>6. Filled(r, Slots(r)) /\ Order(r, Slots(r))
  BY <1>2, <1>3 DEF Sound, Filled, Seated, Order
<1> QED BY <1>2, <1>3, <1>4, <1>5, <1>6 DEF Sound, Relocked, r

(* What leaves the heap, and what comes to it.                             *)
Drops(g, r, e) == /\ Sound(r) /\ Pending(r) = Pending(g) \ {e}
                  /\ \A o \in Pending(r) : r.time[o] = g.time[o]
                  /\ r.lock = g.lock \ {e}

(* cancel_timer() takes the entry out, and its reference back.             *)
LEMMA CancelDrops ==
    ASSUME NEW g, Sound(g), NEW e \in Entries, e \in Pending(g), NEW r, r = CancelTimer(g, e)
    PROVE  /\ Drops(g, r, e)
           /\ r.refs = IF e \in g.lock THEN g.refs - 1 ELSE g.refs
<1> DEFINE k == g.ids[g.tid[e]]
           c == RemoveNode(g, k)
<1>1. FoundBy(g, e) /\ k \in Slots(g) /\ g.heap[k] = e
  BY FoundLemma
<1>2. /\ Sound(c) /\ Pending(c) = Pending(g) \ {e} /\ \A o \in Pending(c) : c.time[o] = g.time[o]
      /\ c.lock = g.lock /\ c.refs = g.refs
  <2> HIDE DEF k
  <2> QED BY <1>1, RemoveSound
<1>3. r = IF e \in c.lock THEN [c EXCEPT !.lock = c.lock \ {e}, !.refs = c.refs - 1] ELSE c
  BY <1>1, <1>2 DEF CancelTimer
<1> HIDE DEF c
<1>4. c.lock \in SUBSET Entries /\ c.refs \in Int
  BY <1>2 DEF Sound, Typed
<1>5. CASE e \in c.lock
  <2>1. r = Relock(c, c.lock \ {e}, c.refs - 1)
    BY <1>3, <1>5 DEF Relock
  <2>2. c.lock \ {e} \in SUBSET Entries /\ c.refs - 1 \in Int
    BY <1>4
  <2>3. Relocked(c, r, c.lock \ {e}, c.refs - 1)
    BY <1>2, <2>1, <2>2, SoundElse
  <2> QED BY <1>2, <1>5, <2>3 DEF Drops, Relocked
<1>6. CASE e \notin c.lock
  BY <1>2, <1>3, <1>6 DEF Drops
<1> QED BY <1>5, <1>6

(* A poll takes the first entry, and its reference with it.                *)
LEMMA PollDrops ==
    ASSUME NEW g, Sound(g), g.size > 0, NEW r,
           r = [RemoveNode(g, 0) EXCEPT !.lock = @ \ {g.heap[0]}]
    PROVE  Drops(g, r, g.heap[0]) /\ r.refs = g.refs
<1> DEFINE e == g.heap[0]
           c == RemoveNode(g, 0)
<1>1. 0 \in Slots(g)
  BY FirstLemma
<1>2. /\ Sound(c) /\ Pending(c) = Pending(g) \ {e} /\ \A o \in Pending(c) : c.time[o] = g.time[o]
      /\ c.lock = g.lock /\ c.refs = g.refs
  BY <1>1, RemoveSound
<1>3. r = [c EXCEPT !.lock = c.lock \ {e}]
  OBVIOUS
<1> HIDE DEF c, e
<1>4. c.lock \in SUBSET Entries /\ c.refs \in Int /\ Fields \subseteq DOMAIN c
  BY <1>2 DEF Sound, Typed
<1>5. r = Relock(c, c.lock \ {e}, c.refs)
  BY <1>3, <1>4 DEF Fields, Relock
<1>6. c.lock \ {e} \in SUBSET Entries
  BY <1>4
<1>7. Relocked(c, r, c.lock \ {e}, c.refs)
  <2>1. PICK lock \in SUBSET Entries : lock = c.lock \ {e}
    BY <1>6
  <2>2. PICK refs \in Int : refs = c.refs
    BY <1>4
  <2>3. Relocked(c, Relock(c, lock, refs), lock, refs)
    BY <1>2, SoundElse
  <2> QED BY <1>5, <2>1, <2>2, <2>3
<1> QED BY <1>2, <1>7 DEF Drops, Relocked, e


-----------------------------------------------------------------------------
(* The heap and those that work with it.                                   *)

(* Who runs a callback does so for an entry that was due.                  *)
Polling ==
    /\ poll \in [Pollers -> [at : Nat, count : Nat, entry : Entries \cup {None}, ref : BOOLEAN]]
    /\ \A w \in Pollers : poll[w] # Idle => poll[w].entry \in Entries /\ poll[w].at <= now

(* What is about to be inserted is in the heap neither now nor by another. *)
Scheduling ==
    /\ todo \in [Schedulers -> [entry : Entries \cup {None}, expires : Nat]]
    /\ \A s \in Schedulers : todo[s] # Nothing =>
         /\ todo[s].entry \in Entries \ Pending(h) /\ todo[s].expires <= MaxTime
         /\ \A x \in Schedulers : todo[x].entry = todo[s].entry => x = s

HeapIInv == /\ Sound(h) /\ now \in 0 .. MaxTime
            /\ Polling /\ Scheduling /\ LocksAccounted

Calling(p) == {w \in Pollers : p[w].ref}

(* What every state says of the heap, the pollers and the locks.           *)
LEMMA StateFacts ==
    ASSUME HeapIInv
    PROVE  /\ Sound(h) /\ now \in Nat /\ MaxTime \in Nat /\ now <= MaxTime
           /\ Pending(h) \subseteq Entries /\ h.lock \subseteq Entries /\ h.refs \in Int
           /\ h.lock = Pending(h) \cap Locked /\ h.refs = Cardinality(h.lock) + Cardinality(Calling(poll))
           /\ IsFiniteSet(h.lock) /\ IsFiniteSet(Calling(poll))
           /\ Cardinality(h.lock) \in Nat /\ Cardinality(Calling(poll)) \in Nat
           /\ \A w \in Pollers : poll[w].ref \in BOOLEAN
<1>1. Sound(h) /\ now \in 0 .. MaxTime /\ MaxTime \in Nat /\ LocksAccounted /\ Polling
  BY HeapAssumption DEF HeapIInv
<1>2. h.lock \subseteq Entries /\ h.refs \in Int
  BY <1>1 DEF Sound, Typed
<1>3. Pending(h) \subseteq Entries
  BY <1>1 DEF Sound, Filled, Pending
<1>4. IsFiniteSet(h.lock) /\ IsFiniteSet(Calling(poll))
  BY <1>2, HeapAssumption, FS_Subset DEF Calling
<1>5. h.lock = Pending(h) \cap Locked /\ h.refs = Cardinality(h.lock) + Cardinality(Calling(poll))
  BY <1>1 DEF LocksAccounted, Calling
<1>6. Cardinality(h.lock) \in Nat /\ Cardinality(Calling(poll)) \in Nat
  BY <1>4, FS_CardinalityType
<1>7. \A w \in Pollers : poll[w].ref \in BOOLEAN
  BY <1>1 DEF Polling
<1> QED BY <1>1, <1>2, <1>3, <1>4, <1>5, <1>6, <1>7

(* The references, when an entry and a poller change their ways.           *)
LEMMA RefsChange ==
    ASSUME HeapIInv, NEW e, NEW w, NEW lock, NEW calls, NEW refs,
           lock \ {e} = h.lock \ {e}, calls \ {w} = Calling(poll) \ {w},
           refs = h.refs + One(e \in lock) - One(e \in h.lock)
                         + One(w \in calls) - One(w \in Calling(poll))
    PROVE  refs = Cardinality(lock) + Cardinality(calls)
<1>1. Cardinality(lock) = Cardinality(h.lock) + One(e \in lock) - One(e \in h.lock)
  BY StateFacts, CardinalityChange
<1>2. Cardinality(calls) = Cardinality(Calling(poll)) + One(w \in calls) - One(w \in Calling(poll))
  BY StateFacts, CardinalityChange
<1>3. \A b : One(b) \in Int
  BY DEF One
<1> QED BY <1>1, <1>2, <1>3, StateFacts

(* A poll, the first of a call or a later one.                             *)
LEMMA HandStep ==
    ASSUME HeapIInv, NEW w \in Pollers, NEW g, NEW t \in Nat, t <= now, NEW c \in Nat,
           Relocked(h, g, h.lock, h.refs - One(poll[w].ref)),
           Hand(g, w, t, c), UNCHANGED <<now, todo>>
    PROVE  /\ HeapIInv' /\ g.heap[0] \in Pending(h)
           /\ Drops(h, h', g.heap[0]) /\ h.time[g.heap[0]] <= now
           /\ \A o \in Pending(h) : h.time[g.heap[0]] <= h.time[o]
           /\ poll' = [poll EXCEPT ![w] = [at |-> t, count |-> c + 1, entry |-> g.heap[0],
                                           ref |-> g.heap[0] \in h.lock]]
<1> DEFINE e == g.heap[0]
<1>1. /\ Sound(g) /\ Pending(g) = Pending(h) /\ g.time = h.time /\ g.lock = h.lock
      /\ g.refs = h.refs - One(poll[w].ref)
  BY DEF Relocked
<1>2. /\ g.size > 0 /\ g.time[e] <= t
      /\ h' = [RemoveNode(g, 0) EXCEPT !.lock = @ \ {e}]
      /\ poll' = [poll EXCEPT ![w] = [at |-> t, count |-> c + 1, entry |-> e, ref |-> e \in g.lock]]
  BY DEF Hand
<1>3. Drops(g, h', e) /\ h'.refs = g.refs
  BY <1>1, <1>2, PollDrops
<1>4. /\ e \in Pending(h) /\ e \in Entries /\ \A o \in Pending(h) : h.time[e] <= h.time[o]
  BY <1>1, <1>2, FirstLemma
<1>5. Drops(h, h', e)
  BY <1>1, <1>3 DEF Drops
<1>6. h.time[e] <= now
  <2>1. h.time[e] \in Nat
    BY <1>1, <1>4 DEF Sound, Typed
  <2> QED BY <1>1, <1>2, <2>1, StateFacts
<1>7. poll' = [poll EXCEPT ![w] = [at |-> t, count |-> c + 1, entry |-> e, ref |-> e \in h.lock]]
  BY <1>1, <1>2
<1> HIDE DEF e
<1>8. Polling'
  <2>1. [at |-> t, count |-> c + 1, entry |-> e, ref |-> e \in h.lock]
          \in [at : Nat, count : Nat, entry : Entries \cup {None}, ref : BOOLEAN]
    BY <1>4
  <2>2. Polling
    BY DEF HeapIInv
  <2> QED BY <1>4, <1>7, <2>1, <2>2 DEF Polling
<1>9. Scheduling'
  <2>1. Pending(h') \subseteq Pending(h) /\ todo' = todo
    BY <1>5 DEF Drops
  <2> QED BY <2>1 DEF HeapIInv, Scheduling
<1>10. LocksAccounted'
  <2>1. h.lock = Pending(h) \cap Locked /\ h'.lock = h.lock \ {e} /\ Pending(h') = Pending(h) \ {e}
    BY <1>5, StateFacts DEF Drops
  <2>2. h'.lock = Pending(h') \cap Locked
    BY <2>1
  <2>3. poll \in [Pollers -> [at : Nat, count : Nat, entry : Entries \cup {None}, ref : BOOLEAN]]
    BY DEF HeapIInv, Polling
  <2>4. poll'[w].ref = (e \in h.lock) /\ \A x \in Pollers \ {w} : poll'[x] = poll[x]
    BY <1>7, <2>3
  <2>5. Calling(poll') \ {w} = Calling(poll) \ {w}
    BY <2>4 DEF Calling
  <2>6. One(w \in Calling(poll')) = One(e \in h.lock) /\ One(w \in Calling(poll)) = One(poll[w].ref)
    BY <2>4 DEF Calling, One
  <2>7. One(e \in h'.lock) = 0
    BY <2>1 DEF One
  <2>8. h'.refs = h.refs + One(e \in h'.lock) - One(e \in h.lock)
                         + One(w \in Calling(poll')) - One(w \in Calling(poll))
    <3>1. One(e \in h.lock) \in Int /\ One(poll[w].ref) \in Int /\ h.refs \in Int
      BY StateFacts DEF One
    <3> QED BY <1>1, <1>3, <2>6, <2>7, <3>1
  <2>9. h'.lock \ {e} = h.lock \ {e}
    BY <2>1
  <2>10. h'.refs = Cardinality(h'.lock) + Cardinality(Calling(poll'))
    BY <2>5, <2>8, <2>9, RefsChange
  <2> QED BY <2>2, <2>10 DEF LocksAccounted, Calling
<1>11. Sound(h') /\ now' \in 0 .. MaxTime
  BY <1>5 DEF Drops, HeapIInv
<1> QED BY <1>4, <1>5, <1>6, <1>7, <1>8, <1>9, <1>10, <1>11 DEF HeapIInv, e

(* The reference of a callback that is over.                               *)
LEMMA ReleasedLemma ==
    ASSUME HeapIInv, NEW w \in Pollers
    PROVE  Relocked(h, Released(w), h.lock, h.refs - One(poll[w].ref))
<1>1. h.lock \in SUBSET Entries /\ h.refs \in Int /\ poll[w].ref \in BOOLEAN /\ Sound(h)
  BY StateFacts
<1>2. Fields \subseteq DOMAIN h
  BY <1>1 DEF Sound, Typed
<1>3. CASE poll[w].ref
  <2>1. Released(w) = Relock(h, h.lock, h.refs - 1)
    BY <1>2, <1>3 DEF Released, Relock, Fields
  <2>2. h.refs - 1 \in Int /\ One(poll[w].ref) = 1
    BY <1>1, <1>3 DEF One
  <2>3. Relocked(h, Relock(h, h.lock, h.refs - 1), h.lock, h.refs - 1)
    BY <1>1, <2>2, SoundElse
  <2> QED BY <2>1, <2>2, <2>3
<1>4. CASE ~poll[w].ref
  <2>1. Released(w) = h /\ One(poll[w].ref) = 0 /\ h.refs - 0 = h.refs
    BY <1>1, <1>4 DEF Released, One
  <2> QED BY <1>1, <2>1 DEF Relocked
<1> QED BY <1>3, <1>4


-----------------------------------------------------------------------------
(* The steps.  Each keeps the invariant and is a step of the service.      *)

(* What the service sees.                                                  *)
Times(g) == [e \in Pending(g) |-> g.time[e]]
Running(p) == [w \in Pollers |-> {p[w].entry} \ {None}]

(* What is dropped is gone for the service, and nothing else.              *)
LEMMA TimesDrop ==
    ASSUME NEW g, NEW r, NEW e, Drops(g, r, e)
    PROVE  Times(r) = Restrict(Times(g), DOMAIN Times(g) \ {e})
BY DEF Drops, Times, Restrict

(* The clock goes on.                                                      *)
LEMMA TickStep ==
    ASSUME HeapIInv, Tick
    PROVE  HeapIInv' /\ Service!Tick
<1>1. now < MaxTime /\ now' = now + 1 /\ h' = h /\ poll' = poll /\ todo' = todo
  BY DEF Tick
<1>2. now \in 0 .. MaxTime /\ MaxTime \in Nat
  BY HeapAssumption DEF HeapIInv
<1>3. Polling'
  <2>1. \A w \in Pollers : poll[w].at \in Nat
    BY DEF HeapIInv, Polling
  <2>2. \A w \in Pollers : poll[w].at <= now => poll[w].at <= now'
    BY <1>1, <1>2, <2>1
  <2> QED BY <1>1, <2>2 DEF HeapIInv, Polling
<1>4. Scheduling' /\ LocksAccounted' /\ Sound(h')
  BY <1>1 DEF HeapIInv, Scheduling, LocksAccounted
<1>5. now' \in 0 .. MaxTime
  BY <1>1, <1>2
<1> QED BY <1>1, <1>3, <1>4, <1>5 DEF HeapIInv, Service!Tick

(* An entry that passes the test has no place in the heap.                 *)
LEMMA ScheduleStep ==
    ASSUME HeapIInv, NEW s \in Schedulers, NEW e \in Entries, Schedule(s, e)
    PROVE  HeapIInv' /\ UNCHANGED Service!service
<1>1. /\ todo[s] = Nothing /\ h.tid[e] < 1 /\ \A x \in Schedulers : todo[x].entry # e
      /\ h' = h /\ now' = now /\ poll' = poll
  BY DEF Schedule
<1>2. PICK t \in now .. MaxTime : todo' = [todo EXCEPT ![s] = [entry |-> e, expires |-> t]]
  BY DEF Schedule
<1>3. t \in Nat /\ t <= MaxTime
  BY StateFacts
<1>4. e \notin Pending(h)
  <2>1. Sound(h) /\ h.tid[e] \in Int
    BY DEF HeapIInv, Sound, Typed
  <2> QED BY <1>1, <2>1, FoundLemma
<1>5. Scheduling'
  <2>1. todo \in [Schedulers -> [entry : Entries \cup {None}, expires : Nat]]
    BY DEF HeapIInv, Scheduling
  <2>2. [entry |-> e, expires |-> t] \in [entry : Entries \cup {None}, expires : Nat]
    BY <1>3
  <2>3. todo'[s] = [entry |-> e, expires |-> t] /\ \A x \in Schedulers \ {s} : todo'[x] = todo[x]
    BY <1>2, <2>1
  <2>4. todo' \in [Schedulers -> [entry : Entries \cup {None}, expires : Nat]]
    BY <1>2, <2>1, <2>2
  <2>5. ASSUME NEW x \in Schedulers, todo'[x] # Nothing
        PROVE  /\ todo'[x].entry \in Entries \ Pending(h) /\ todo'[x].expires <= MaxTime
               /\ \A y \in Schedulers : todo'[y].entry = todo'[x].entry => y = x
    <3>1. CASE x = s
      BY <1>1, <1>3, <1>4, <2>3, <3>1
    <3>2. CASE x # s
      <4>1. /\ todo[x].entry \in Entries \ Pending(h) /\ todo[x].expires <= MaxTime
            /\ \A y \in Schedulers : todo[y].entry = todo[x].entry => y = x
        BY <2>3, <2>5, <3>2 DEF HeapIInv, Scheduling
      <4> QED BY <1>1, <2>3, <3>2, <4>1
    <3> QED BY <3>1, <3>2
  <2> QED BY <1>1, <2>4, <2>5 DEF Scheduling
<1>6. Polling' /\ LocksAccounted' /\ Sound(h') /\ now' \in 0 .. MaxTime
  BY <1>1 DEF HeapIInv, Polling, LocksAccounted
<1> QED BY <1>1, <1>5, <1>6 DEF HeapIInv, Service!service

(* What the test let pass is inserted under the lock.                      *)
LEMMA ScheduleLockedStep ==
    ASSUME HeapIInv, NEW s \in Schedulers, ScheduleLocked(s)
    PROVE  HeapIInv' /\ \E e \in Entries : Service!Set(e)
<1>1. todo[s] # Nothing
  BY DEF ScheduleLocked
<1>2. PICK e \in Entries : e = todo[s].entry
  BY <1>1 DEF HeapIInv, Scheduling
<1>3. PICK t \in Nat : t = todo[s].expires
  BY DEF HeapIInv, Scheduling
<1>4. /\ todo[s] # Nothing /\ h' = ScheduleEntry(h, e, t) /\ todo' = [todo EXCEPT ![s] = Nothing]
      /\ now' = now /\ poll' = poll
  BY <1>2, <1>3 DEF ScheduleLocked
<1>5. todo \in [Schedulers -> [entry : Entries \cup {None}, expires : Nat]]
  BY DEF HeapIInv, Scheduling
<1>6. /\ e \in Entries /\ e \notin Pending(h) /\ t \in Nat /\ t <= MaxTime
      /\ \A x \in Schedulers : todo[x].entry = e => x = s
  BY <1>4, <1>5, <1>2, <1>3 DEF HeapIInv, Scheduling
<1>7. Sound(h) /\ h.time \in [Entries -> Nat]
  BY DEF HeapIInv, Sound, Typed
<1>8. /\ Sound(h') /\ Pending(h') = Pending(h) \cup {e}
      /\ h'.time = [h.time EXCEPT ![e] = t]
      /\ h'.lock = IF e \in Locked THEN h.lock \cup {e} ELSE h.lock
      /\ h'.refs = IF e \in Locked THEN h.refs + 1 ELSE h.refs
  <2>1. h' = ScheduleEntry(h, e, t)
    BY <1>4
  <2>2. e \in Entries /\ e \notin Pending(h) /\ t \in Nat /\ Sound(h)
    BY <1>6, <1>7
  <2> QED BY ONLY <2>1, <2>2, ScheduleSound
<1>9. Scheduling'
  <2>1. todo'[s] = Nothing /\ \A x \in Schedulers \ {s} : todo'[x] = todo[x]
    BY <1>4, <1>5
  <2>2. todo' \in [Schedulers -> [entry : Entries \cup {None}, expires : Nat]]
    BY <1>4, <1>5 DEF Nothing
  <2>3. ASSUME NEW x \in Schedulers, todo'[x] # Nothing
        PROVE  /\ todo'[x].entry \in Entries \ Pending(h') /\ todo'[x].expires <= MaxTime
               /\ \A y \in Schedulers : todo'[y].entry = todo'[x].entry => y = x
    <3>1. x # s /\ todo'[x] = todo[x]
      BY <2>1, <2>3
    <3>2. /\ todo[x].entry \in Entries \ Pending(h) /\ todo[x].expires <= MaxTime
          /\ \A y \in Schedulers : todo[y].entry = todo[x].entry => y = x
      BY <2>3, <3>1 DEF HeapIInv, Scheduling
    <3>3. todo[x].entry # e
      BY <1>6, <3>1
    <3>4. todo'[s].entry # todo[x].entry
      BY <2>1, <3>2, HeapAssumption DEF Nothing
    <3> QED BY <1>8, <2>1, <3>1, <3>2, <3>3, <3>4
  <2> QED BY <2>2, <2>3 DEF Scheduling
<1>10. LocksAccounted'
  <2>1. h.lock = Pending(h) \cap Locked
    BY StateFacts
  <2>2. h'.lock = Pending(h') \cap Locked
    BY <1>8, <2>1
  <2>3. Calling(poll') = Calling(poll)
    BY <1>4
  <2>4. e \notin h.lock
    BY <1>6, <2>1
  <2>5. h'.refs = h.refs + One(e \in h'.lock) - One(e \in h.lock) + One(s \in Calling(poll)) - One(s \in Calling(poll))
    <3>1. h.refs \in Int /\ One(s \in Calling(poll)) \in Int
      BY StateFacts DEF One
    <3>2. One(e \in h.lock) = 0 /\ One(e \in h'.lock) = IF e \in Locked THEN 1 ELSE 0
      BY <1>8, <2>4 DEF One
    <3> QED BY <1>8, <3>1, <3>2
  <2>6. h'.lock \ {e} = h.lock \ {e}
    BY <1>8
  <2>7. h'.refs = Cardinality(h'.lock) + Cardinality(Calling(poll))
    BY <2>5, <2>6, RefsChange
  <2> QED BY <2>2, <2>3, <2>7 DEF LocksAccounted, Calling
<1>11. Polling' /\ now' \in 0 .. MaxTime
  BY <1>4 DEF HeapIInv, Polling
<1>12. Service!Set(e)
  <2>1. Times(h') = [o \in DOMAIN Times(h) \cup {e} |-> IF o = e THEN t ELSE Times(h)[o]]
    <3>1. Pending(h) \subseteq Entries
      BY StateFacts
    <3> QED BY <1>6, <1>7, <1>8, <3>1 DEF Times
  <2>2. t \in 0 .. MaxTime /\ e \notin DOMAIN Times(h)
    BY <1>6, StateFacts DEF Times
  <2> QED BY <1>4, <2>1, <2>2 DEF Service!Set, Times
<1>13. HeapIInv'
  BY <1>8, <1>9, <1>10, <1>11 DEF HeapIInv
<1> QED BY <1>6, <1>12, <1>13

(* A cancel takes a pending entry off.                                     *)
LEMMA CancelStep ==
    ASSUME HeapIInv, NEW e \in Entries, Cancel(e)
    PROVE  HeapIInv' /\ Service!Cancel(e)
<1>1. /\ FoundBy(h, e) \/ e \in h.lock
      /\ h' = CancelTimer(h, e) /\ now' = now /\ poll' = poll /\ todo' = todo
  BY DEF Cancel
<1>2. Sound(h) /\ h.lock = Pending(h) \cap Locked
  BY StateFacts
<1>3. e \in Pending(h)
  BY <1>1, <1>2, FoundLemma
<1>4. Drops(h, h', e) /\ h'.refs = IF e \in h.lock THEN h.refs - 1 ELSE h.refs
  BY <1>1, <1>2, <1>3, CancelDrops
<1>5. LocksAccounted'
  <2>1. h'.lock = Pending(h') \cap Locked
    BY <1>2, <1>4 DEF Drops
  <2>2. Calling(poll') = Calling(poll)
    BY <1>1
  <2>3. h'.lock = h.lock \ {e} /\ h'.lock \ {e} = h.lock \ {e}
    BY <1>4 DEF Drops
  <2>4. h'.refs = h.refs + One(e \in h'.lock) - One(e \in h.lock) + One(e \in Calling(poll)) - One(e \in Calling(poll))
    <3>1. h.refs \in Int /\ One(e \in Calling(poll)) \in Int
      BY StateFacts DEF One
    <3>2. One(e \in h'.lock) = 0 /\ One(e \in h.lock) = IF e \in h.lock THEN 1 ELSE 0
      BY <2>3 DEF One
    <3> QED BY <1>4, <3>1, <3>2
  <2>5. h'.refs = Cardinality(h'.lock) + Cardinality(Calling(poll))
    BY <2>3, <2>4, RefsChange
  <2> QED BY <2>1, <2>2, <2>5 DEF LocksAccounted, Calling
<1>6. Scheduling'
  <2>1. Pending(h') \subseteq Pending(h)
    BY <1>4 DEF Drops
  <2> QED BY <1>1, <2>1 DEF HeapIInv, Scheduling
<1>7. Polling' /\ now' \in 0 .. MaxTime /\ Sound(h')
  BY <1>1, <1>4 DEF HeapIInv, Polling, Drops
<1>8. Service!Cancel(e)
  <2>1. Times(h') = Restrict(Times(h), DOMAIN Times(h) \ {e})
    BY <1>4, TimesDrop
  <2>2. e \in DOMAIN Times(h)
    BY <1>3 DEF Times
  <2> QED BY <1>1, <2>1, <2>2 DEF Service!Cancel, Service!Remove, Times, Restrict, Service!Restrict
<1> QED BY <1>5, <1>6, <1>7, <1>8 DEF HeapIInv

(* A poll that takes an entry runs its callback.                           *)
LEMMA PollStep ==
    ASSUME HeapIInv, NEW w \in Pollers, Poll(w) \/ PollNext(w)
    PROVE  HeapIInv' /\ \E e \in Entries : Service!Take(w, e)
<1> DEFINE Taken(g, t, c) ==
         /\ t <= now /\ Relocked(h, g, h.lock, h.refs - One(poll[w].ref))
         /\ Hand(g, w, t, c) /\ UNCHANGED <<now, todo>>
<1>1. \E g : \E t, c \in Nat : Taken(g, t, c)
  <2>1. CASE Poll(w)
    <3>1. poll[w] = Idle /\ Hand(h, w, now, 0) /\ UNCHANGED <<now, todo>>
      BY <2>1 DEF Poll
    <3>2. now \in Nat /\ now <= now /\ 0 \in Nat
      BY StateFacts
    <3>3. Relocked(h, h, h.lock, h.refs - One(poll[w].ref))
      <4>1. One(poll[w].ref) = 0 /\ h.refs - 0 = h.refs /\ Sound(h)
        BY <3>1, StateFacts DEF Idle, One
      <4> QED BY <4>1 DEF Relocked
    <3> QED BY <3>1, <3>2, <3>3
  <2>2. CASE PollNext(w)
    <3>1. poll[w] # Idle /\ Hand(Released(w), w, poll[w].at, poll[w].count) /\ UNCHANGED <<now, todo>>
      BY <2>2 DEF PollNext
    <3>2. poll[w].at \in Nat /\ poll[w].count \in Nat /\ poll[w].at <= now
      BY <3>1 DEF HeapIInv, Polling
    <3> QED BY <3>1, <3>2, ReleasedLemma
  <2> QED BY <2>1, <2>2
<1>2. PICK g : \E t, c \in Nat : Taken(g, t, c)
  BY <1>1
<1>3. PICK t \in Nat, c \in Nat : Taken(g, t, c)
  BY <1>2
<1>4. /\ HeapIInv' /\ g.heap[0] \in Pending(h)
      /\ Drops(h, h', g.heap[0]) /\ h.time[g.heap[0]] <= now
      /\ \A o \in Pending(h) : h.time[g.heap[0]] <= h.time[o]
      /\ poll' = [poll EXCEPT ![w] = [at |-> t, count |-> c + 1, entry |-> g.heap[0],
                                      ref |-> g.heap[0] \in h.lock]]
  BY <1>3, HandStep
<1>5. PICK e \in Entries : e = g.heap[0]
  BY <1>4, StateFacts
<1>6. e \in DOMAIN Times(h) /\ Times(h)[e] <= now /\ \A o \in DOMAIN Times(h) : Times(h)[e] <= Times(h)[o]
  BY <1>4, <1>5 DEF Times
<1>7. Times(h') = Restrict(Times(h), DOMAIN Times(h) \ {e})
  BY <1>4, <1>5, TimesDrop
<1>8. Running(poll') = [Running(poll) EXCEPT ![w] = {e}]
  <2>1. poll \in [Pollers -> [at : Nat, count : Nat, entry : Entries \cup {None}, ref : BOOLEAN]]
    BY DEF HeapIInv, Polling
  <2>2. poll'[w].entry = e /\ \A x \in Pollers \ {w} : poll'[x] = poll[x]
    BY <1>4, <1>5, <2>1
  <2>3. {e} \ {None} = {e}
    BY HeapAssumption
  <2> QED BY <2>2, <2>3 DEF Running
<1>9. Service!Take(w, e)
  BY <1>3, <1>6, <1>7, <1>8 DEF Service!Take, Service!Earliest, Service!Remove, Service!Restrict,
     Restrict, Times, Running
<1> QED BY <1>4, <1>9

(* A poll ends, and its callback with it.                                  *)
LEMMA PollDoneStep ==
    ASSUME HeapIInv, NEW w \in Pollers, PollDone(w)
    PROVE  HeapIInv' /\ Service!Return(w)
<1>1. /\ poll[w] # Idle /\ h' = Released(w) /\ poll' = [poll EXCEPT ![w] = Idle]
      /\ now' = now /\ todo' = todo
  BY DEF PollDone
<1>2. Relocked(h, h', h.lock, h.refs - One(poll[w].ref))
  BY <1>1, ReleasedLemma
<1>3. /\ Sound(h') /\ Pending(h') = Pending(h) /\ h'.time = h.time /\ h'.lock = h.lock
      /\ h'.refs = h.refs - One(poll[w].ref)
  BY <1>2 DEF Relocked
<1>4. poll \in [Pollers -> [at : Nat, count : Nat, entry : Entries \cup {None}, ref : BOOLEAN]]
  BY DEF HeapIInv, Polling
<1>5. poll'[w] = Idle /\ \A x \in Pollers \ {w} : poll'[x] = poll[x]
  BY <1>1, <1>4
<1>6. Polling'
  <2>1. Idle \in [at : Nat, count : Nat, entry : Entries \cup {None}, ref : BOOLEAN]
    BY DEF Idle
  <2>2. poll' \in [Pollers -> [at : Nat, count : Nat, entry : Entries \cup {None}, ref : BOOLEAN]]
    BY <1>1, <1>4, <2>1
  <2> QED BY <1>1, <1>5, <2>2 DEF HeapIInv, Polling
<1>7. Scheduling'
  BY <1>1, <1>3 DEF HeapIInv, Scheduling
<1>8. LocksAccounted'
  <2>1. h.lock = Pending(h) \cap Locked
    BY StateFacts
  <2>2. Calling(poll') \ {w} = Calling(poll) \ {w}
    BY <1>5 DEF Calling
  <2>3. One(w \in Calling(poll')) = 0 /\ One(w \in Calling(poll)) = One(poll[w].ref)
    BY <1>5 DEF Calling, One, Idle
  <2>4. h'.refs = h.refs + One(w \in h'.lock) - One(w \in h.lock)
                         + One(w \in Calling(poll')) - One(w \in Calling(poll))
    <3>1. One(w \in h.lock) \in Int /\ One(poll[w].ref) \in Int /\ h.refs \in Int
      BY StateFacts DEF One
    <3> QED BY <1>3, <2>3, <3>1
  <2>5. h'.lock \ {w} = h.lock \ {w}
    BY <1>3
  <2>6. h'.refs = Cardinality(h'.lock) + Cardinality(Calling(poll'))
    BY <2>2, <2>4, <2>5, RefsChange
  <2> QED BY <1>3, <2>1, <2>6 DEF LocksAccounted, Calling
<1>9. now' \in 0 .. MaxTime
  BY <1>1 DEF HeapIInv
<1>10. Service!Return(w)
  <2>1. Running(poll)[w] # {}
    <3>1. poll[w].entry \in Entries
      BY <1>1 DEF HeapIInv, Polling
    <3> QED BY <3>1, HeapAssumption DEF Running
  <2>2. Running(poll') = [Running(poll) EXCEPT ![w] = {}]
    <3>1. {Idle.entry} \ {None} = {}
      BY DEF Idle
    <3> QED BY <1>5, <3>1 DEF Running
  <2>3. Times(h') = Times(h)
    BY <1>3 DEF Times
  <2> QED BY <1>1, <2>1, <2>2, <2>3 DEF Service!Return, Times, Running
<1> QED BY <1>3, <1>6, <1>7, <1>8, <1>9, <1>10 DEF HeapIInv

(* Every step keeps the invariant and is one of the service.               *)
LEMMA HeapStep ==
    ASSUME HeapIInv, [HeapNext]_heapVars
    PROVE  HeapIInv' /\ [Service!Next]_(Service!service)
<1>1. CASE UNCHANGED heapVars
  <2>1. h' = h /\ now' = now /\ poll' = poll /\ todo' = todo
    BY <1>1 DEF heapVars
  <2> QED BY <2>1 DEF HeapIInv, Polling, Scheduling, LocksAccounted, Service!service
<1>2. CASE Tick
  BY <1>2, TickStep DEF Service!Next
<1>3. ASSUME NEW s \in Schedulers, NEW e \in Entries, Schedule(s, e)
      PROVE  HeapIInv' /\ [Service!Next]_(Service!service)
  BY <1>3, ScheduleStep
<1>4. ASSUME NEW s \in Schedulers, ScheduleLocked(s)
      PROVE  HeapIInv' /\ [Service!Next]_(Service!service)
  BY <1>4, ScheduleLockedStep DEF Service!Next
<1>5. ASSUME NEW e \in Entries, Cancel(e)
      PROVE  HeapIInv' /\ [Service!Next]_(Service!service)
  BY <1>5, CancelStep DEF Service!Next
<1>6. ASSUME NEW w \in Pollers, Poll(w) \/ PollNext(w)
      PROVE  HeapIInv' /\ [Service!Next]_(Service!service)
  BY <1>6, PollStep DEF Service!Next
<1>7. ASSUME NEW w \in Pollers, PollDone(w)
      PROVE  HeapIInv' /\ [Service!Next]_(Service!service)
  BY <1>7, PollDoneStep DEF Service!Next
<1> QED BY <1>1, <1>2, <1>3, <1>4, <1>5, <1>6, <1>7 DEF HeapNext

(* A new heap satisfies the invariant, and is a new service.               *)
LEMMA HeapStarts ==
    ASSUME HeapInit
    PROVE  HeapIInv /\ Service!Init
<1>1. /\ h = NewHeap /\ now = 0 /\ poll = [w \in Pollers |-> Idle]
      /\ todo = [s \in Schedulers |-> Nothing]
  BY DEF HeapInit
<1>2. Sound(h) /\ Pending(h) = {} /\ h.lock = {} /\ h.refs = 0
  BY <1>1, NewSound
<1>3. Polling
  <2>1. Idle \in [at : Nat, count : Nat, entry : Entries \cup {None}, ref : BOOLEAN]
    BY DEF Idle
  <2> QED BY <1>1, <2>1 DEF Polling
<1>4. Scheduling
  <2>1. Nothing \in [entry : Entries \cup {None}, expires : Nat]
    BY DEF Nothing
  <2> QED BY <1>1, <2>1 DEF Scheduling
<1>5. LocksAccounted
  <2>1. {w \in Pollers : poll[w].ref} = {}
    BY <1>1 DEF Idle
  <2>2. Cardinality({}) = 0
    BY FS_EmptySet
  <2> QED BY <1>2, <2>1, <2>2 DEF LocksAccounted
<1>6. now \in 0 .. MaxTime
  BY <1>1, HeapAssumption
<1>7. Service!Init
  <2>1. Times(h) = << >>
    BY <1>2 DEF Times
  <2>2. {Idle.entry} \ {None} = {}
    BY DEF Idle
  <2> QED BY <1>1, <2>1, <2>2 DEF Service!Init, Times
<1> QED BY <1>2, <1>3, <1>4, <1>5, <1>6, <1>7 DEF HeapIInv

(* The array, its order, the table of ids and its chain of free places     *)
(* hold together, and so do the pollers, the schedulers and the references *)
(* on the group locks, for whatever heap, however many work with it and in *)
(* whatever order they come.                                               *)
THEOREM HeapSound == HeapSpec => []HeapIInv
<1>1. HeapInit => HeapIInv
  BY HeapStarts
<1>2. HeapIInv /\ [HeapNext]_heapVars => HeapIInv'
  BY HeapStep
<1> QED BY <1>1, <1>2, PTL DEF HeapSpec

(* cancel() finds what is pending at its own slot and nothing else, and    *)
(* the free ids never run out, in a heap of any size.                      *)
THEOREM HeapLocated == HeapSpec => []Located
<1>1. HeapIInv => Located
  <2> SUFFICES ASSUME Sound(h) PROVE Located
    BY DEF HeapIInv
  <2> DEFINE unused == {i \in 1 .. MaxSize(h) - 1 : h.ids[i] < 0}
             K == MaxSize(h) - 1 - h.size
  <2>1. /\ Typed(h) /\ h.size + 2 <= MaxSize(h) /\ Filled(h, Slots(h))
        /\ Chained(h.ids, MaxSize(h), Unused(h), h.free, K)
        /\ \A e \in Entries \ Pending(h) : h.tid[e] \in {-1, 0}
    BY DEF Sound
  <2>2. unused = Unused(h)
    BY DEF Unused, Ids
  <2>3. \A s \in Slots(h) : /\ h.tid[h.heap[s]] \in 1 .. MaxSize(h) - 1
                            /\ h.ids[h.tid[h.heap[s]]] = s
    BY <2>1 DEF Filled, Seated, Ids
  <2>4. /\ Unused(h) \subseteq Nat /\ IsFiniteSet(Unused(h)) /\ MaxSize(h) \notin Unused(h)
        /\ MaxSize(h) \in Nat /\ K \in Nat /\ K >= 1 /\ h.free \in Nat
    <3>1. h.size \in Nat /\ MaxSize(h) \in Nat /\ h.free \in Nat
      BY <2>1 DEF Typed
    <3> QED BY <2>1, <3>1, FreeFacts
  <2> HIDE DEF K
  <2>5. Path([i \in Unused(h) |-> -h.ids[i]], h.free) = Unused(h) \cup {MaxSize(h)}
    BY <2>1, <2>4, ChainPath
  <2>6. Cardinality(Unused(h)) = K
    BY <2>1, <2>4, ChainPath
  <2>7. h.free \in Unused(h)
    BY <2>1, <2>4, ChainPop
  <2> USE DEF K
  <2>8. Cardinality(Unused(h)) = MaxSize(h) - 1 - h.size
    BY <2>6
  <2> QED BY <2>1, <2>2, <2>3, <2>5, <2>7, <2>8 DEF Located
<1> QED BY <1>1, HeapSound, PTL

(* No reference on a group lock is lost and none is kept.                  *)
THEOREM LocksHeld == HeapSpec => []LocksAccounted
<1>1. HeapIInv => LocksAccounted
  BY DEF HeapIInv
<1> QED BY <1>1, HeapSound, PTL

(* The heap, with what its users do under its lock and outside of it,      *)
(* implements the service: whatever the array and the table go through,    *)
(* a poll takes the earliest entry, when its time has come, and once.      *)
THEOREM HeapServes == HeapSpec => ServiceSpec
<1>1. HeapInit => Service!Init
  BY HeapStarts
<1>2. HeapIInv /\ [HeapNext]_heapVars => [Service!Next]_(Service!service)
  BY HeapStep
<1> QED BY <1>1, <1>2, HeapSound, PTL DEF HeapSpec, ServiceSpec, Service!Spec
=============================================================================
