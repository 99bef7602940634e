-------------------------- MODULE RegistrationProofs --------------------------
(***************************************************************************)
(* The registration is freed once and only when nobody is inside, its      *)
(* operation is that of the one request that is out, and its refresh is    *)
(* not lost: proved for any number of threads, callbacks and faults.       *)
(***************************************************************************)
EXTENDS Registration, FiniteSetTheorems, TLAPS

(* A condition as a number.                                                *)
One(b) == IF b THEN 1 ELSE 0

(* Two finite sets that differ in x at most.                               *)
LEMMA CardinalityChange ==
  ASSUME NEW S, NEW T, NEW x, IsFiniteSet(S), S \ {x} = T \ {x}
  PROVE  /\ IsFiniteSet(T)
         /\ Cardinality(T) = Cardinality(S) + One(x \in T) - One(x \in S)
<1>1. /\ IsFiniteSet(S \cup {x}) /\ IsFiniteSet(S \ {x}) /\ Cardinality(S) \in Nat
      /\ Cardinality(S \cup {x}) = IF x \in S THEN Cardinality(S) ELSE Cardinality(S) + 1
      /\ Cardinality(S \ {x}) = IF x \in S THEN Cardinality(S) - 1 ELSE Cardinality(S)
  BY FS_AddElement, FS_RemoveElement, FS_CardinalityType
<1>2. CASE x \in T
  <2>1. T = S \cup {x}
    BY <1>2
  <2> QED BY <1>1, <1>2, <2>1 DEF One
<1>3. CASE x \notin T
  <2>1. T = S \ {x}
    BY <1>3
  <2> QED BY <1>1, <1>3, <2>1 DEF One
<1> QED BY <1>2, <1>3

SendPlaces == {"lock", "busy", "transmit", "sent", "unsent"}
AppPlaces == {"idle", "send", "check"} \cup SendPlaces
WorkerPlaces == {"idle", "popped", "refresh", "report", "tsx_cb", "tell", "exit", "check"}
                \cup SendPlaces
Places == AppPlaces \cup WorkerPlaces

Fits(t, l) == /\ t \in Apps => l \in AppPlaces
              /\ t \in Workers => l \in WorkerPlaces

Regcs == [has : BOOLEAN, op : Ops, busy : Nat, del : BOOLEAN, auto : BOOLEAN,
          id : BOOLEAN, heap : BOOLEAN, tsx_cb : BOOLEAN, tries : Nat, freed : BOOLEAN]

TypeOK == /\ regc \in Regcs
          /\ pc \in [Threads -> Places] /\ \A t \in Threads : Fits(t, pc[t])
          /\ req \in [Threads -> Ops] /\ out \in Ops
          /\ bound \in BOOLEAN /\ told \in BOOLEAN /\ gone \in BOOLEAN

(* Between pjsip_regc_send() and the end of the callback there is one      *)
(* request at most, and has_tsx is set as long as there is one: a thread   *)
(* is about to send it, it is out, or a callback has just been entered.    *)
Asking == {"transmit", "report"}

OneRequest ==
    /\ out # "IDLE" => regc.has /\ \A t \in Threads : pc[t] \notin Asking
    /\ \A t \in Threads : pc[t] \in Asking =>
         regc.has /\ \A x \in Threads : x # t => pc[x] \notin Asking

(* Without the user's tsx_cb, current_op is that request's.                *)
OpKept ==
    /\ \A t \in Threads : pc[t] = "tsx_cb" => regc.tsx_cb
    /\ ~regc.tsx_cb => /\ ~regc.has => regc.op = "IDLE"
                       /\ out # "IDLE" => regc.op = out
                       /\ \A t \in Threads : pc[t] = "transmit" => regc.op = req[t]

(* Where a thread is that will see to the refresh.                         *)
Caring == {"send", "lock", "popped", "refresh", "tsx_cb"}

Refreshed == bound /\ regc.auto /\ ~regc.del /\ ~regc.freed
             => regc.heap \/ regc.has \/ \E t \in Threads : pc[t] \in Caring

IInv == TypeOK /\ BusyAccounted /\ FreedQuiet /\ OneRequest /\ OpKept /\ Refreshed

(* What a thread at l has in busy_ctr.                                     *)
Share(t, l) == One(l \in Inside) + One(t \in Workers /\ l \in SendPlaces)

-----------------------------------------------------------------------------
(* The threads inside can be counted.                                      *)
LEMMA FiniteInsiders ==
  /\ IsFiniteSet(Insiders) /\ IsFiniteSet(Refreshers)
  /\ Cardinality(Insiders) \in Nat /\ Cardinality(Refreshers) \in Nat
<1>1. IsFiniteSet(Workers) /\ IsFiniteSet(Threads)
  BY RegistrationAssumption, FS_Union DEF Threads
<1>2. Insiders \in SUBSET Threads /\ Refreshers \in SUBSET Workers
  BY DEF Insiders, Refreshers
<1> QED BY <1>1, <1>2, FS_Subset, FS_CardinalityType

(* A thread that changes its share changes the counter by as much.         *)
LEMMA Balance ==
  ASSUME IInv, NEW t \in Threads,
         \A x \in Threads : x # t => pc'[x] = pc[x],
         regc'.busy = regc.busy + Share(t, pc'[t]) - Share(t, pc[t])
  PROVE  BusyAccounted'
<1>1. Workers \subseteq Threads
  BY DEF Threads
<1>2. /\ Insiders \subseteq Threads /\ Insiders' \subseteq Threads
      /\ Refreshers \subseteq Workers /\ Refreshers' \subseteq Workers
      /\ \A x \in Threads : x \in Insiders <=> pc[x] \in Inside
      /\ \A x \in Threads : x \in Insiders' <=> pc'[x] \in Inside
      /\ \A x \in Workers : x \in Refreshers <=> pc[x] \in SendPlaces
      /\ \A x \in Workers : x \in Refreshers' <=> pc'[x] \in SendPlaces
  BY DEF Insiders, Refreshers, SendPlaces
<1>3. Cardinality(Insiders') = Cardinality(Insiders) + One(t \in Insiders') - One(t \in Insiders)
  <2>1. Insiders \ {t} = Insiders' \ {t}
    BY <1>2
  <2> QED BY <2>1, FiniteInsiders, CardinalityChange
<1>4. Cardinality(Refreshers')
        = Cardinality(Refreshers) + One(t \in Refreshers') - One(t \in Refreshers)
  <2>1. Refreshers \ {t} = Refreshers' \ {t}
    BY <1>1, <1>2
  <2> QED BY <2>1, FiniteInsiders, CardinalityChange
<1>5. /\ t \in Insiders <=> pc[t] \in Inside
      /\ t \in Insiders' <=> pc'[t] \in Inside
      /\ t \in Refreshers <=> (t \in Workers /\ pc[t] \in SendPlaces)
      /\ t \in Refreshers' <=> (t \in Workers /\ pc'[t] \in SendPlaces)
  BY <1>2
<1>6. regc.busy = Cardinality(Insiders) + Cardinality(Refreshers)
  BY DEF IInv, BusyAccounted
<1> QED BY <1>3, <1>4, <1>5, <1>6, FiniteInsiders DEF Share, One, BusyAccounted

(* A counter of zero has nobody inside, and covers any thread's share.     *)
LEMMA Covered ==
  ASSUME IInv, NEW t \in Threads
  PROVE  regc.busy >= Share(t, pc[t]) /\ (regc.busy = 0 => Insiders = {})
<1>1. /\ t \in Insiders <=> pc[t] \in Inside
      /\ t \in Refreshers <=> (t \in Workers /\ pc[t] \in SendPlaces)
  BY DEF Insiders, Refreshers, SendPlaces
<1>2. t \in Insiders => Cardinality(Insiders) # 0
  BY FiniteInsiders, FS_EmptySet
<1>3. t \in Refreshers => Cardinality(Refreshers) # 0
  BY FiniteInsiders, FS_EmptySet
<1>4. Cardinality(Insiders) = 0 => Insiders = {}
  BY FiniteInsiders, FS_EmptySet
<1> QED BY <1>1, <1>2, <1>3, <1>4, FiniteInsiders DEF IInv, BusyAccounted, Share, One

(* What a step of one thread has to show.                                  *)
LEMMA After ==
  ASSUME IInv, NEW t \in Threads, NEW l \in Places, Fits(t, l),
         pc' = [pc EXCEPT ![t] = l],
         regc' \in Regcs, regc'.busy = regc.busy + Share(t, l) - Share(t, pc[t]),
         req' \in [Threads -> Ops], out' \in Ops,
         bound' \in BOOLEAN, told' \in BOOLEAN, gone' \in BOOLEAN,
         FreedQuiet', OneRequest', OpKept', Refreshed'
  PROVE  IInv'
<1>1. /\ \A x \in Threads : x # t => pc'[x] = pc[x]
      /\ pc'[t] = l
  BY DEF IInv, TypeOK
<1>2. TypeOK'
  <2>1. \A x \in Threads : Fits(x, pc'[x])
    BY <1>1 DEF IInv, TypeOK
  <2> QED BY <2>1 DEF IInv, TypeOK
<1>3. BusyAccounted'
  BY <1>1, Balance
<1> QED BY <1>2, <1>3 DEF IInv

(* A step that leaves the request alone and sees to the refresh, or does   *)
(* not have to.                                                            *)
LEMMA Quietly ==
  ASSUME IInv, ~regc.freed, NEW t \in Threads, NEW l \in Places, Fits(t, l),
         pc' = [pc EXCEPT ![t] = l], l \notin Asking \cup {"tsx_cb"},
         regc' \in Regcs, regc'.busy = regc.busy + Share(t, l) - Share(t, pc[t]),
         regc'.has = regc.has, regc'.op = regc.op, regc'.tsx_cb = regc.tsx_cb,
         regc'.del = regc.del, regc'.freed = regc.freed,
         \/ l \in Caring \/ regc.has
         \/ pc[t] \notin Caring /\ regc'.heap = regc.heap /\ regc'.auto = regc.auto,
         req' \in [Threads -> Ops], \A x \in Threads : x # t => req'[x] = req[x],
         out' = out, bound' = bound, told' \in BOOLEAN, gone' = gone
  PROVE  IInv'
<1>1. /\ \A x \in Threads : x # t => pc'[x] = pc[x]
      /\ pc'[t] = l
  BY DEF IInv, TypeOK
<1>2. FreedQuiet'
  BY DEF FreedQuiet
<1>3. OneRequest'
  BY <1>1 DEF IInv, OneRequest
<1>4. OpKept'
  BY <1>1 DEF IInv, OpKept, Asking
<1>5. Refreshed'
  BY <1>1 DEF IInv, Refreshed
<1> QED BY <1>2, <1>3, <1>4, <1>5, After DEF IInv, TypeOK

(* What the invariant says of a thread.                                    *)
LEMMA Where ==
  ASSUME IInv
  PROVE  /\ regc \in Regcs /\ req \in [Threads -> Ops] /\ out \in Ops
         /\ bound \in BOOLEAN /\ told \in BOOLEAN /\ gone \in BOOLEAN
         /\ \A a \in Apps : a \in Threads /\ a \notin Workers /\ pc[a] \in AppPlaces
         /\ \A w \in Workers : w \in Threads /\ w \notin Apps /\ pc[w] \in WorkerPlaces
         /\ \A t \in Threads : t \in Apps \/ t \in Workers
  BY RegistrationAssumption DEF IInv, TypeOK, Fits, Threads

-----------------------------------------------------------------------------
(* What the sections leave of the registration.                            *)
Alike(r, q) == /\ q \in Regcs /\ q.busy = r.busy /\ q.has = r.has /\ q.op = r.op
               /\ q.tsx_cb = r.tsx_cb /\ q.del = r.del /\ q.freed = r.freed

(* The timer operations leave everything that the accounting speaks of;    *)
(* and a refresh is scheduled wherever auto_reg is on.                     *)
LEMMA TimerAlike ==
  ASSUME NEW r \in Regcs, NEW autoreg \in BOOLEAN
  PROVE  /\ Alike(r, CancelTimer(r)) /\ CancelTimer(r).auto = r.auto
         /\ Alike(r, Register(r, autoreg))
         /\ Alike(r, Schedule(r)) /\ Schedule(r).auto = r.auto
         /\ r.auto => Schedule(r).heap
<1>1. Alike(r, CancelTimer(r)) /\ CancelTimer(r).auto = r.auto
  BY DEF Alike, CancelTimer, Regcs
<1>2. Alike(r, Register(r, autoreg))
  <2>1. Register(r, autoreg) = [CancelTimer(r) EXCEPT !.auto = autoreg]
    BY DEF Register
  <2> QED BY <1>1, <2>1 DEF Alike, Regcs
<1>3. Alike(r, Schedule(r)) /\ Schedule(r).auto = r.auto /\ (r.auto => Schedule(r).heap)
  BY DEF Alike, Schedule, Regcs
<1> QED BY <1>1, <1>2, <1>3

Entering(r, q) == /\ q \in Regcs /\ q.busy = r.busy + 1 /\ q.has = r.has /\ q.op = r.op
                  /\ q.tsx_cb = r.tsx_cb /\ q.del = r.del /\ q.freed = r.freed

(* Entering a section changes nothing but the counter.                     *)
LEMMA Entered ==
  ASSUME NEW r \in Regcs
  PROVE  Entering(r, Enter(r))
<1>1. r.busy \in Nat /\ r.busy + 1 \in Nat
  BY DEF Regcs
<1>2. PICK n \in Nat : n = r.busy + 1 /\ Enter(r) = [r EXCEPT !.busy = n]
  BY <1>1 DEF Enter
<1> QED BY <1>2 DEF Entering, Regcs

-----------------------------------------------------------------------------
(* The user's calls.                                                       *)

(* The user's register and unregister calls keep the invariant: they       *)
(* cancel the timer, but their request is about to be sent.                *)
LEMMA RequestCallStep ==
  ASSUME IInv, NEW a \in Apps,
         (\E autoreg \in BOOLEAN : RegisterCall(a, autoreg)) \/ UnregisterCall(a)
  PROVE  IInv'
<1>1. /\ a \in Threads /\ a \notin Workers /\ pc[a] = "idle" /\ ~regc.freed
      /\ pc' = [pc EXCEPT ![a] = "send"]
      /\ out' = out /\ bound' = bound /\ told' = told /\ gone' = gone
  BY Where DEF RegisterCall, UnregisterCall, At, Goto
<1>2. /\ req' \in [Threads -> Ops] /\ \A x \in Threads : x # a => req'[x] = req[x]
  BY Where DEF RegisterCall, UnregisterCall, Ops
<1>3. /\ regc' \in Regcs /\ regc'.busy = regc.busy
      /\ regc'.has = regc.has /\ regc'.op = regc.op /\ regc'.tsx_cb = regc.tsx_cb
      /\ regc'.del = regc.del /\ regc'.freed = regc.freed
  <2>1. Alike(regc, regc')
    BY Where, TimerAlike DEF RegisterCall, UnregisterCall, Unregister
  <2> QED BY <2>1 DEF Alike
<1>4. /\ Share(a, "send") = 0 /\ Share(a, pc[a]) = 0
      /\ Fits(a, "send") /\ "send" \in Places /\ "send" \in Caring
      /\ "send" \notin Asking \cup {"tsx_cb"}
  BY <1>1 DEF Share, One, Inside, SendPlaces, Fits, AppPlaces, Places, Caring, Asking
<1>5. regc'.busy = regc.busy + Share(a, "send") - Share(a, pc[a])
  BY <1>3, <1>4, Where DEF Regcs
<1> QED BY <1>1, <1>2, <1>3, <1>4, <1>5, Where, Quietly

(* So does another delay, which schedules the timer again that it cancels. *)
LEMMA SetDelayStep ==
  ASSUME IInv, NEW a \in Apps, SetDelayCall(a)
  PROVE  IInv'
<1>1. /\ a \in Threads /\ pc[a] = "idle" /\ ~regc.freed
      /\ UNCHANGED <<pc, req, out, bound, told, gone>>
  BY Where DEF SetDelayCall, At
<1>2. /\ regc' \in Regcs /\ regc'.busy = regc.busy
      /\ regc'.has = regc.has /\ regc'.op = regc.op /\ regc'.tsx_cb = regc.tsx_cb
      /\ regc'.del = regc.del /\ regc'.freed = regc.freed /\ regc'.auto = regc.auto
      /\ regc.heap /\ regc.auto => regc'.heap
  BY Where DEF SetDelayCall, Delayed, Schedule, CancelTimer, Regcs
<1>3. FreedQuiet' /\ OneRequest' /\ OpKept' /\ Refreshed'
  BY <1>1, <1>2 DEF IInv, FreedQuiet, OneRequest, OpKept, Refreshed
<1>4. BusyAccounted' /\ TypeOK'
  BY <1>1, <1>2 DEF IInv, BusyAccounted, Insiders, Refreshers, TypeOK
<1> QED BY <1>3, <1>4 DEF IInv

(* Destroying frees the registration only when nobody is inside and no     *)
(* request is out.                                                         *)
LEMMA Destroyed ==
  ASSUME IInv, ~regc.freed
  PROVE  /\ Destroy(regc) \in Regcs /\ Destroy(regc).busy = regc.busy
         /\ Destroy(regc).has = regc.has /\ Destroy(regc).op = regc.op
         /\ Destroy(regc).tsx_cb = regc.tsx_cb
         /\ Destroy(regc).del \/ Destroy(regc).freed
         /\ Destroy(regc).freed => out = "IDLE" /\ ~regc.has /\ Insiders = {}
<1>1. /\ Destroy(regc) \in Regcs /\ Destroy(regc).busy = regc.busy
      /\ Destroy(regc).has = regc.has /\ Destroy(regc).op = regc.op
      /\ Destroy(regc).tsx_cb = regc.tsx_cb
      /\ Destroy(regc).del \/ Destroy(regc).freed
      /\ Destroy(regc).freed => ~regc.has /\ regc.busy = 0
  BY Where DEF Destroy, CancelTimer, Regcs
<1>2. ~regc.has => out = "IDLE"
  BY DEF IInv, OneRequest
<1>3. regc.busy = 0 => Insiders = {}
  <2>1. CASE Threads = {}
    BY <2>1 DEF Insiders
  <2>2. CASE Threads # {}
    BY <2>2, Covered
  <2> QED BY <2>1, <2>2
<1> QED BY <1>1, <1>2, <1>3

(* So does pjsip_regc_destroy(), which frees only what is idle.            *)
LEMMA DestroyCallStep ==
  ASSUME IInv, NEW a \in Apps, DestroyCall(a)
  PROVE  IInv'
<1>1. /\ ~regc.freed /\ regc' = Destroy(regc) /\ UNCHANGED <<pc, req, out>>
      /\ gone' \in BOOLEAN /\ bound' \in BOOLEAN /\ told' \in BOOLEAN
      /\ bound' = FALSE
  BY DEF DestroyCall, At
<1>2. BusyAccounted' /\ TypeOK'
  BY <1>1, Destroyed DEF IInv, BusyAccounted, Insiders, Refreshers, TypeOK
<1>3. FreedQuiet' /\ OneRequest' /\ OpKept' /\ Refreshed'
  BY <1>1, Destroyed DEF IInv, FreedQuiet, Insiders, OneRequest, OpKept, Refreshed
<1> QED BY <1>2, <1>3 DEF IInv

-----------------------------------------------------------------------------
(* Sending.                                                                *)

(* So does the beginning of pjsip_regc_send(): the thread counts itself.   *)
LEMMA SendEnterStep ==
  ASSUME IInv, NEW t \in Threads, SendEnter(t)
  PROVE  IInv'
<1>1. /\ pc[t] = "send" /\ ~regc.freed /\ pc' = [pc EXCEPT ![t] = "lock"]
      /\ UNCHANGED <<req, out, bound, told, gone>> /\ regc' = Enter(regc)
  BY DEF SendEnter, At, Goto
<1>2. t \in Apps /\ t \notin Workers
  BY <1>1, Where DEF WorkerPlaces, SendPlaces
<1>3. /\ regc' \in Regcs /\ regc'.busy = regc.busy + 1 /\ regc.busy \in Nat
      /\ regc'.has = regc.has /\ regc'.op = regc.op /\ regc'.tsx_cb = regc.tsx_cb
      /\ regc'.del = regc.del /\ regc'.freed = regc.freed
  BY <1>1, Where DEF Enter, Regcs
<1>4. /\ Share(t, "lock") = 1 /\ Share(t, pc[t]) = 0
      /\ Fits(t, "lock") /\ "lock" \in Places /\ "lock" \in Caring
      /\ "lock" \notin Asking \cup {"tsx_cb"}
  BY <1>1, <1>2 DEF Share, One, Inside, SendPlaces, Fits, AppPlaces, Places, Caring, Asking
<1>5. regc'.busy = regc.busy + Share(t, "lock") - Share(t, pc[t])
  BY <1>3, <1>4
<1> QED BY <1>1, <1>3, <1>4, <1>5, Where, Quietly

(* Under the lock it takes the registration for its request, or finds it   *)
(* busy.                                                                   *)
LEMMA SendLockedStep ==
  ASSUME IInv, NEW t \in Threads, SendLocked(t)
  PROVE  IInv'
<1>1. /\ pc[t] = "lock" /\ ~regc.freed
      /\ UNCHANGED <<req, out, bound, told, gone>> /\ regc.busy \in Nat
  BY Where DEF SendLocked, At, Regcs
<1>2. \A l \in {"busy", "transmit"} :
         /\ Share(t, l) = Share(t, pc[t]) /\ Share(t, pc[t]) \in Nat
         /\ Fits(t, l) /\ l \in Places
  BY <1>1, Where DEF Share, One, Inside, SendPlaces, Fits, AppPlaces, WorkerPlaces, Places
<1>3. CASE regc.has /\ Goto(t, "busy") /\ UNCHANGED regc
  <2>1. regc'.busy = regc.busy + Share(t, "busy") - Share(t, pc[t])
    BY <1>1, <1>2, <1>3
  <2>2. "busy" \notin Asking \cup {"tsx_cb"}
    BY DEF Asking
  <2> QED BY <1>1, <1>2, <1>3, <2>1, <2>2, Where, Quietly DEF Goto
<1>4. CASE /\ ~regc.has /\ Goto(t, "transmit")
           /\ regc' = Begin([regc EXCEPT !.tries = 0], req[t])
  <2>1. /\ regc' \in Regcs /\ regc'.busy = regc.busy /\ regc'.has /\ regc'.op = req[t]
        /\ regc'.tsx_cb = regc.tsx_cb /\ ~regc'.freed
    BY <1>1, <1>4, Where DEF Begin, Regcs
  <2>2. pc' = [pc EXCEPT ![t] = "transmit"]
        /\ \A x \in Threads : pc'[x] = IF x = t THEN "transmit" ELSE pc[x]
    BY <1>4 DEF Goto, IInv, TypeOK
  <2>3. out = "IDLE" /\ \A x \in Threads : pc[x] \notin Asking
    BY <1>4 DEF IInv, OneRequest
  <2>4. FreedQuiet' /\ OneRequest' /\ Refreshed'
    BY <1>1, <2>1, <2>2, <2>3 DEF FreedQuiet, OneRequest, Refreshed
  <2>5. OpKept'
    BY <1>1, <2>1, <2>2, <2>3 DEF IInv, OpKept, Asking
  <2>6. regc'.busy = regc.busy + Share(t, "transmit") - Share(t, pc[t])
    BY <1>1, <1>2, <2>1
  <2> QED BY <1>1, <1>2, <2>1, <2>2, <2>4, <2>5, <2>6, Where, After
<1> QED BY <1>3, <1>4 DEF SendLocked

(* A send refused as another is under way drops the counter only; the      *)
(* request that was there is still there.                                  *)
LEMMA SendBusyStep ==
  ASSUME IInv, NEW t \in Threads, SendBusy(t)
  PROVE  IInv'
<1>1. PICK l \in {"idle", "tell"} :
         /\ pc' = [pc EXCEPT ![t] = l] /\ l = IF t \in Apps THEN "idle" ELSE "tell"
  BY DEF SendBusy, Goto
<1>2. /\ pc[t] = "busy" /\ ~regc.freed /\ regc' = Leave(regc)
      /\ UNCHANGED <<out, bound, told, gone>>
      /\ req' \in [Threads -> Ops] /\ \A x \in Threads : x # t => req'[x] = req[x]
  BY Where DEF SendBusy, At, Ops
<1>3. /\ Share(t, pc[t]) = Share(t, l) + 1 /\ Share(t, l) \in Nat
      /\ Fits(t, l) /\ l \in Places /\ l \notin Asking \cup {"tsx_cb"} /\ pc[t] \notin Caring
  BY <1>1, <1>2, Where DEF Share, One, Inside, SendPlaces, Fits, AppPlaces, WorkerPlaces,
                           Places, Caring, Asking
<1>4. /\ regc' \in Regcs /\ regc'.busy = regc.busy - 1 /\ regc.busy \in Nat
      /\ regc'.has = regc.has /\ regc'.op = regc.op /\ regc'.tsx_cb = regc.tsx_cb
      /\ regc'.del = regc.del /\ regc'.freed = regc.freed
      /\ regc'.heap = regc.heap /\ regc'.auto = regc.auto
  <2>1. regc.busy \in Nat /\ regc.busy >= 1
    BY <1>3, Covered, Where DEF Regcs
  <2> QED BY <1>2, <2>1, Where DEF Leave, Regcs
<1>5. regc'.busy = regc.busy + Share(t, l) - Share(t, pc[t])
  BY <1>3, <1>4
<1> QED BY <1>1, <1>2, <1>3, <1>4, <1>5, Where, Quietly

(* The request goes out, or is refused and stays pending for ever.         *)
LEMMA TransmitStep ==
  ASSUME IInv, NEW t \in Threads, Transmit(t)
  PROVE  IInv'
<1>1. /\ pc[t] = "transmit" /\ ~regc.freed /\ regc' = regc /\ bound' = bound /\ gone' = gone
      /\ req' = [req EXCEPT ![t] = "IDLE"] /\ told' \in BOOLEAN
  BY DEF Transmit, At
<1>2. regc \in Regcs /\ regc.has /\ regc.busy \in Nat /\ req[t] \in Ops
  BY <1>1, Where DEF IInv, OneRequest, Asking, Regcs
<1>3. /\ req' \in [Threads -> Ops] /\ \A x \in Threads : x # t => req'[x] = req[x]
  BY <1>1, Where DEF Ops
<1>4. \A l \in {"sent", "unsent"} :
         /\ Share(t, l) = Share(t, pc[t]) /\ Share(t, pc[t]) \in Nat
         /\ Fits(t, l) /\ l \in Places /\ l \notin Asking \cup {"tsx_cb"}
  BY <1>1, Where DEF Share, One, Inside, SendPlaces, Fits, AppPlaces, WorkerPlaces, Places, Asking
<1>5. PICK l \in {"sent", "unsent"} :
         pc' = [pc EXCEPT ![t] = l] /\ (out' = req[t] \/ out' = out)
  BY DEF Transmit, Sending, Goto
<1>6. regc'.busy = regc.busy + Share(t, l) - Share(t, pc[t])
  BY <1>1, <1>2, <1>4
<1>7. CASE out' = out
  BY <1>1, <1>2, <1>3, <1>4, <1>5, <1>6, <1>7, Quietly
<1>8. CASE out' = req[t]
  <2>1. \A x \in Threads : pc'[x] = IF x = t THEN l ELSE pc[x]
    BY <1>5 DEF IInv, TypeOK
  <2>2. \A x \in Threads : x # t => pc[x] \notin Asking
    BY <1>1 DEF IInv, OneRequest, Asking
  <2>3. FreedQuiet' /\ OneRequest' /\ Refreshed'
    BY <1>1, <1>2, <1>4, <2>1, <2>2 DEF FreedQuiet, OneRequest, Refreshed
  <2>4. OpKept'
    <3>1. ~regc.tsx_cb => regc.op = req[t]
      BY <1>1 DEF IInv, OpKept
    <3> QED BY <1>1, <1>2, <1>4, <1>8, <2>1, <2>2, <3>1 DEF IInv, OpKept, Asking
  <2> QED BY <1>1, <1>2, <1>3, <1>4, <1>5, <1>6, <1>8, <2>3, <2>4, Where, After
<1> QED BY <1>5, <1>7, <1>8

(* A thread that has sent gives its count back and frees nothing itself.   *)
LEMMA SendLeaveStep ==
  ASSUME IInv, NEW t \in Threads, SendLeave(t)
  PROVE  IInv'
<1>1. PICK l \in {"idle", "check", "exit", "tell"} :
         /\ pc' = [pc EXCEPT ![t] = l] /\ (t \in Workers <=> l \in {"exit", "tell"})
  BY DEF SendLeave, Goto
<1>2. /\ pc[t] \in {"sent", "unsent"} /\ ~regc.freed /\ regc' = Leave(regc)
      /\ UNCHANGED <<req, out, bound, told, gone>>
  BY DEF SendLeave, At
<1>3. /\ Share(t, pc[t]) = Share(t, l) + 1 /\ Share(t, l) \in Nat
      /\ Fits(t, l) /\ l \in Places /\ l \notin Asking \cup {"tsx_cb"} /\ pc[t] \notin Caring
  BY <1>1, <1>2, Where DEF Share, One, Inside, SendPlaces, Fits, AppPlaces, WorkerPlaces,
                           Places, Caring, Asking
<1>4. /\ regc' \in Regcs /\ regc'.busy = regc.busy - 1 /\ regc.busy \in Nat
      /\ regc'.has = regc.has /\ regc'.op = regc.op /\ regc'.tsx_cb = regc.tsx_cb
      /\ regc'.del = regc.del /\ regc'.freed = regc.freed
      /\ regc'.heap = regc.heap /\ regc'.auto = regc.auto
  <2>1. regc.busy \in Nat /\ regc.busy >= 1
    BY <1>3, Covered, Where DEF Regcs
  <2> QED BY <1>2, <2>1, Where DEF Leave, Regcs
<1>5. regc'.busy = regc.busy + Share(t, l) - Share(t, pc[t])
  BY <1>3, <1>4
<1> QED BY <1>1, <1>2, <1>3, <1>4, <1>5, Where, Quietly

(* The last one out destroys a registration that the user has given up     *)
(* only if no request is out.                                              *)
LEMMA CheckStep ==
  ASSUME IInv, NEW t \in Threads, Check(t)
  PROVE  IInv'
<1>1. /\ pc[t] = "check" /\ ~regc.freed /\ pc' = [pc EXCEPT ![t] = "idle"]
      /\ UNCHANGED <<req, out, bound, told, gone>>
      /\ regc' = IF regc.del THEN Destroy(regc) ELSE regc
  BY DEF Check, At, Goto
<1>2. /\ Share(t, "idle") = 0 /\ Share(t, pc[t]) = 0
      /\ Fits(t, "idle") /\ "idle" \in Places /\ "idle" \notin Asking \cup {"tsx_cb"}
      /\ pc[t] \notin Caring
  BY <1>1 DEF Share, One, Inside, SendPlaces, Fits, AppPlaces, WorkerPlaces, Places, Caring, Asking
<1>3. /\ regc' \in Regcs /\ regc'.busy = regc.busy /\ regc.busy \in Nat
      /\ regc'.has = regc.has /\ regc'.op = regc.op /\ regc'.tsx_cb = regc.tsx_cb
  BY <1>1, Destroyed, Where DEF Regcs
<1>4. regc'.busy = regc.busy + Share(t, "idle") - Share(t, pc[t])
  BY <1>2, <1>3
<1>5. CASE ~regc.del
  BY <1>1, <1>2, <1>3, <1>4, <1>5, Where, Quietly
<1>6. CASE regc.del
  <2>1. \A x \in Threads : pc'[x] = IF x = t THEN "idle" ELSE pc[x]
    BY <1>1 DEF IInv, TypeOK
  <2>2. OneRequest' /\ OpKept'
    BY <1>1, <1>2, <1>3, <2>1 DEF IInv, OneRequest, OpKept, Asking
  <2>3. FreedQuiet'
    BY <1>1, <1>2, <1>6, <2>1, Destroyed DEF FreedQuiet, Insiders, Inside
  <2>4. Refreshed'
    BY <1>1, <1>6, Destroyed DEF Refreshed
  <2> QED BY <1>1, <1>2, <1>3, <1>4, <2>2, <2>3, <2>4, Where, After
<1> QED BY <1>5, <1>6

-----------------------------------------------------------------------------
(* The refresh timer.                                                      *)

(* The refresh counts itself before it builds its request.                 *)
LEMMA RefreshEntered ==
  ASSUME IInv
  PROVE  Entering(regc, Enter(Register(regc, TRUE)))
<1>1. regc \in Regcs /\ Alike(regc, Register(regc, TRUE))
  BY Where, TimerAlike
<1>2. PICK r \in Regcs : r = Register(regc, TRUE) /\ Alike(regc, r)
  BY <1>1 DEF Alike
<1>3. Entering(r, Enter(r))
  BY Entered
<1> QED BY <1>2, <1>3 DEF Alike, Entering

(* The refresh timer keeps the invariant from the heap to its send: a      *)
(* thread that has the refresh in hand takes the place of the entry.       *)
LEMMA RefreshTimerStep ==
  ASSUME IInv, NEW w \in Workers, Pop(w) \/ RefreshEnter(w) \/ Refresh(w)
  PROVE  IInv'
<1>1. w \in Threads /\ regc \in Regcs /\ regc.busy \in Nat /\ ~regc.freed
  BY Where DEF Regcs, Pop, RefreshEnter, Refresh, At
<1>2. PICK l \in {"popped", "refresh", "lock"} :
         /\ pc' = [pc EXCEPT ![w] = l]
         /\ regc'.busy = regc.busy + Share(w, l) - Share(w, pc[w])
  <2>1. CASE Pop(w)
    <3>1. pc[w] = "idle" /\ pc' = [pc EXCEPT ![w] = "popped"] /\ regc'.busy = regc.busy
      BY <1>1, <2>1 DEF Pop, At, Goto, Regcs
    <3>2. Share(w, "popped") = 0 /\ Share(w, pc[w]) = 0
      BY <3>1 DEF Share, One, Inside, SendPlaces
    <3>3. regc'.busy = regc.busy + Share(w, "popped") - Share(w, pc[w])
      BY <1>1, <3>1, <3>2
    <3> QED BY <3>1, <3>3
  <2>2. CASE RefreshEnter(w)
    <3>1. pc[w] = "popped" /\ pc' = [pc EXCEPT ![w] = "refresh"] /\ regc'.busy = regc.busy + 1
      BY <1>1, <2>2 DEF RefreshEnter, At, Goto, Enter, Regcs
    <3>2. Share(w, "refresh") = 1 /\ Share(w, pc[w]) = 0
      BY <3>1 DEF Share, One, Inside, SendPlaces
    <3>3. regc'.busy = regc.busy + Share(w, "refresh") - Share(w, pc[w])
      BY <1>1, <3>1, <3>2
    <3> QED BY <3>1, <3>3
  <2>3. CASE Refresh(w)
    <3>1. pc[w] = "refresh" /\ pc' = [pc EXCEPT ![w] = "lock"]
      BY <2>3 DEF Refresh, At, Goto
    <3>2. Share(w, "lock") = 2 /\ Share(w, pc[w]) = 1
      BY <3>1 DEF Share, One, Inside, SendPlaces
    <3>3. regc'.busy = regc.busy + 1
      BY <2>3, RefreshEntered DEF Refresh, Entering
    <3>4. regc'.busy = regc.busy + Share(w, "lock") - Share(w, pc[w])
      BY <1>1, <3>2, <3>3
    <3> QED BY <3>1, <3>4
  <2> QED BY <2>1, <2>2, <2>3
<1>3. /\ regc' \in Regcs
      /\ regc'.has = regc.has /\ regc'.op = regc.op /\ regc'.tsx_cb = regc.tsx_cb
      /\ regc'.del = regc.del /\ regc'.freed = regc.freed
  <2>1. CASE Pop(w)
    BY <1>1, <2>1 DEF Pop, Regcs
  <2>2. CASE RefreshEnter(w)
    <3>1. Entering(regc, Enter(regc)) /\ regc' = [Enter(regc) EXCEPT !.id = FALSE]
      BY <1>1, <2>2, Entered DEF RefreshEnter
    <3> QED BY <3>1 DEF Entering, Regcs
  <2>3. CASE Refresh(w)
    BY <2>3, RefreshEntered DEF Refresh, Entering
  <2> QED BY <2>1, <2>2, <2>3
<1>4. /\ Fits(w, l) /\ l \in Places /\ l \in Caring /\ l \notin Asking \cup {"tsx_cb"}
      /\ UNCHANGED <<out, bound, told, gone>>
      /\ req' \in [Threads -> Ops] /\ \A x \in Threads : x # w => req'[x] = req[x]
  BY Where DEF Fits, AppPlaces, WorkerPlaces, SendPlaces, Places, Caring, Asking, Ops,
               Pop, RefreshEnter, Refresh
<1> QED BY <1>1, <1>2, <1>3, <1>4, Where, Quietly

-----------------------------------------------------------------------------
(* The callback of the transaction.                                        *)

(* A transaction that reports takes the one request out; the thread of the *)
(* callback has it now.                                                    *)
LEMMA ReportStep ==
  ASSUME IInv, NEW w \in Workers, Report(w)
  PROVE  IInv'
<1>1. /\ w \in Threads /\ pc[w] = "idle" /\ ~regc.freed /\ out # "IDLE" /\ out' = "IDLE"
      /\ regc' = Enter(regc) /\ pc' = [pc EXCEPT ![w] = "report"]
      /\ UNCHANGED <<req, bound, told, gone>>
  BY Where DEF Report, At, Goto
<1>2. regc.has /\ \A x \in Threads : pc[x] \notin Asking
  BY <1>1 DEF IInv, OneRequest
<1>3. /\ regc' \in Regcs /\ regc'.busy = regc.busy + 1 /\ regc.busy \in Nat
      /\ regc'.has = regc.has /\ regc'.op = regc.op /\ regc'.tsx_cb = regc.tsx_cb
      /\ regc'.freed = regc.freed
  BY <1>1, Where DEF Enter, Regcs
<1>4. /\ Share(w, "report") = 1 /\ Share(w, pc[w]) = 0
      /\ Fits(w, "report") /\ "report" \in Places /\ "IDLE" \in Ops
  BY <1>1, Where DEF Share, One, Inside, SendPlaces, Fits, AppPlaces, WorkerPlaces, Places, Ops
<1>5. regc'.busy = regc.busy + Share(w, "report") - Share(w, pc[w])
  BY <1>3, <1>4
<1>6. \A x \in Threads : pc'[x] = IF x = w THEN "report" ELSE pc[x]
  BY <1>1 DEF IInv, TypeOK
<1>7. FreedQuiet' /\ OneRequest' /\ Refreshed'
  BY <1>1, <1>2, <1>3, <1>6 DEF FreedQuiet, OneRequest, Refreshed
<1>8. OpKept'
  BY <1>1, <1>2, <1>3, <1>6 DEF IInv, OpKept, Asking
<1> QED BY <1>1, <1>3, <1>4, <1>5, <1>7, <1>8, Where, After

(* While the user's tsx_cb runs has_tsx is reset, so that a second request *)
(* may begin; the thread is counted.                                       *)
LEMMA CallTsxCbStep ==
  ASSUME IInv, NEW w \in Workers, CallTsxCb(w)
  PROVE  IInv'
<1>1. /\ w \in Threads /\ pc[w] = "report" /\ ~regc.freed /\ regc.tsx_cb
      /\ regc' = Reported(regc) /\ pc' = [pc EXCEPT ![w] = "tsx_cb"]
      /\ UNCHANGED <<req, out, bound, told, gone>>
  BY Where DEF CallTsxCb, CallsTsxCb, At, Goto
<1>2. out = "IDLE" /\ \A x \in Threads : x # w => pc[x] \notin Asking
  BY <1>1 DEF IInv, OneRequest, Asking
<1>3. /\ regc' \in Regcs /\ regc'.busy = regc.busy /\ regc.busy \in Nat
      /\ regc'.tsx_cb /\ ~regc'.freed
  BY <1>1, Where DEF Reported, Regcs
<1>4. /\ Share(w, "tsx_cb") = 1 /\ Share(w, pc[w]) = 1
      /\ Fits(w, "tsx_cb") /\ "tsx_cb" \in Places
  BY <1>1, Where DEF Share, One, Inside, SendPlaces, Fits, AppPlaces, WorkerPlaces, Places
<1>5. regc'.busy = regc.busy + Share(w, "tsx_cb") - Share(w, pc[w])
  BY <1>3, <1>4
<1>6. \A x \in Threads : pc'[x] = IF x = w THEN "tsx_cb" ELSE pc[x]
  BY <1>1 DEF IInv, TypeOK
<1>7. FreedQuiet' /\ OneRequest' /\ OpKept'
  BY <1>1, <1>2, <1>3, <1>6 DEF FreedQuiet, OneRequest, OpKept, Asking
<1>8. Refreshed'
  BY <1>1, <1>6 DEF Refreshed, Caring
<1> QED BY <1>1, <1>3, <1>4, <1>5, <1>7, <1>8, Where, After

(* The section finds the registration with the request it answers taken    *)
(* off; only a transaction that the user's tsx_cb began is pending.        *)
LEMMA HandlesWhere ==
  ASSUME IInv, NEW w \in Workers, NEW r \in {regc, Reported(regc)}, Handles(w, r)
  PROVE  /\ pc[w] \in {"report", "tsx_cb"} /\ ~regc.freed
         /\ r \in Regcs /\ r.busy = regc.busy /\ r.tsx_cb = regc.tsx_cb
         /\ r.del = regc.del /\ r.freed = regc.freed
         /\ r.has => regc.has /\ regc.tsx_cb
         /\ ~r.has => out = "IDLE" /\ \A x \in Threads : x # w => pc[x] \notin Asking
         /\ ~r.has \/ pc[w] = "tsx_cb"
<1>1. w \in Threads
  BY Where
<1>2. CASE pc[w] = "report" /\ r = Reported(regc) /\ ~regc.freed
  <2>1. out = "IDLE" /\ \A x \in Threads : x # w => pc[x] \notin Asking
    BY <1>1, <1>2 DEF IInv, OneRequest, Asking
  <2> QED BY <1>2, <2>1, Where DEF Reported, Regcs
<1>3. CASE pc[w] = "tsx_cb" /\ r = regc /\ ~regc.freed
  <2>1. regc.tsx_cb
    BY <1>1, <1>3 DEF IInv, OpKept
  <2>2. ~regc.has => out = "IDLE" /\ \A x \in Threads : pc[x] \notin Asking
    BY DEF IInv, OneRequest
  <2> QED BY <1>3, <2>1, <2>2, Where
<1> QED BY <1>2, <1>3 DEF Handles, At

(* What the section has to show: it leaves the request that is pending     *)
(* alone or sends one, and sees to the refresh or loses the registration.  *)
LEMMA Handled ==
  ASSUME IInv, NEW w \in Workers, NEW r \in {regc, Reported(regc)}, Handles(w, r),
         NEW l \in {"exit", "tell"}, pc' = [pc EXCEPT ![w] = l],
         regc' \in Regcs, regc'.busy = r.busy, regc'.tsx_cb = r.tsx_cb, regc'.freed = r.freed,
         \/ regc'.has = r.has /\ out' = out /\ (~r.has => regc'.op = "IDLE")
         \/ ~r.has /\ regc'.has /\ (out' = out \/ out' = regc'.op),
         regc'.has \/ ~bound' \/ regc'.del \/ (regc'.auto => regc'.heap),
         req' = req, bound' \in BOOLEAN, told' \in BOOLEAN, gone' = gone
  PROVE  IInv'
<1>1. w \in Threads /\ regc.busy \in Nat /\ out \in Ops /\ regc'.op \in Ops
  BY Where DEF Regcs
<1>2. /\ Share(w, l) = 1 /\ Share(w, pc[w]) = 1 /\ Fits(w, l) /\ l \in Places
      /\ l \notin Asking \cup {"tsx_cb"}
  BY <1>1, HandlesWhere, Where DEF Share, One, Inside, SendPlaces, Fits, AppPlaces,
                                   WorkerPlaces, Places, Asking
<1>3. regc'.busy = regc.busy + Share(w, l) - Share(w, pc[w])
  BY <1>1, <1>2, HandlesWhere
<1>4. \A x \in Threads : pc'[x] = IF x = w THEN l ELSE pc[x]
  BY DEF IInv, TypeOK
<1>5. FreedQuiet' /\ Refreshed'
  BY HandlesWhere DEF FreedQuiet, Refreshed
<1>6. OneRequest'
  <2>1. CASE r.has
    <3>1. regc.has /\ regc'.has /\ out' = out
      BY <2>1, HandlesWhere
    <3> QED BY <1>2, <1>4, <3>1 DEF IInv, OneRequest
  <2>2. CASE ~r.has
    <3>1. \A x \in Threads : pc'[x] \notin Asking
      BY <1>2, <1>4, <2>2, HandlesWhere
    <3>2. out' # "IDLE" => regc'.has
      BY <2>2, HandlesWhere
    <3> QED BY <3>1, <3>2 DEF OneRequest
  <2> QED BY <2>1, <2>2
<1>7. OpKept'
  <2>1. \A x \in Threads : pc'[x] = "tsx_cb" => regc'.tsx_cb
    BY <1>2, <1>4, HandlesWhere DEF IInv, OpKept
  <2>2. CASE regc'.tsx_cb
    BY <2>1, <2>2 DEF OpKept
  <2>3. CASE ~regc'.tsx_cb
    <3>1. ~r.has /\ out = "IDLE" /\ \A x \in Threads : pc'[x] \notin Asking
      BY <1>2, <1>4, <2>3, HandlesWhere
    <3> QED BY <2>1, <3>1 DEF OpKept, Asking
  <2> QED BY <2>2, <2>3
<1> QED BY <1>1, <1>2, <1>3, <1>5, <1>6, <1>7, Where, After

(* The section sends the request again.                                    *)
LEMMA Resent ==
  ASSUME IInv, NEW w \in Workers, NEW r \in {regc, Reported(regc)}, Handles(w, r),
         NEW q \in Regcs, q.busy = r.busy, q.has = r.has, q.tsx_cb = r.tsx_cb,
         q.freed = r.freed, NEW o \in Ops, Resend(w, q, o),
         req' = req, bound' = bound, gone' = gone
  PROVE  IInv'
<1>1. bound' \in BOOLEAN /\ told' \in BOOLEAN
  BY Where DEF Resend
<1>2. CASE r.has
  <2>1. regc' = q /\ out' = out /\ pc' = [pc EXCEPT ![w] = "tell"]
    BY <1>2 DEF Resend, Goto
  <2> QED BY <1>1, <1>2, <2>1, Handled
<1>3. CASE ~r.has
  <2>1. regc' = Begin([q EXCEPT !.tries = @ + 1], o) /\ Sending(w, o, "exit", "tell")
    BY <1>3 DEF Resend
  <2>2. /\ regc' \in Regcs /\ regc'.busy = r.busy /\ regc'.has /\ regc'.op = o
        /\ regc'.tsx_cb = r.tsx_cb /\ regc'.freed = r.freed
    <3>1. PICK n \in Nat : regc' = Begin([q EXCEPT !.tries = n], o)
      BY <2>1 DEF Regcs
    <3> QED BY <3>1 DEF Begin, Regcs
  <2>3. PICK l \in {"exit", "tell"} :
           pc' = [pc EXCEPT ![w] = l] /\ (out' = out \/ out' = o)
    BY <2>1 DEF Sending, Goto
  <2> QED BY <1>1, <1>3, <2>2, <2>3, Handled
<1> QED BY <1>2, <1>3

(* Whatever the callback makes of the response (success, failure, a        *)
(* challenge or a request sent again), it keeps the one request, its       *)
(* operation and the refresh in order.                                     *)
LEMMA HandleStep ==
  ASSUME IInv, NEW w \in Workers, Handle(w)
  PROVE  IInv'
<1>1. PICK r \in {regc, Reported(regc)} :
         \/ Challenged(w, r) \/ TooBrief(w, r) \/ Forgotten(w, r)
         \/ \E success \in BOOLEAN : Final(w, r, success)
  BY DEF Handle
<1>2. Handles(w, r) /\ req' = req /\ gone' = gone
  BY <1>1 DEF Challenged, TooBrief, Forgotten, Final
<1>3. r \in Regcs
  BY <1>2, HandlesWhere
<1>4. /\ Idle(r) \in Regcs /\ Idle(r).busy = r.busy /\ Idle(r).has = r.has
      /\ Idle(r).tsx_cb = r.tsx_cb /\ Idle(r).freed = r.freed /\ Idle(r).del = r.del
  BY <1>3 DEF Idle, Regcs, Ops
<1>5. \A q \in Regcs : /\ Over(q) \in Regcs /\ Over(q).busy = q.busy /\ Over(q).has = q.has
                       /\ Over(q).op = "IDLE" /\ Over(q).tsx_cb = q.tsx_cb
                       /\ Over(q).freed = q.freed /\ Over(q).del = q.del
                       /\ Over(q).auto = q.auto /\ Over(q).heap = q.heap
  BY DEF Over, Idle, Regcs, Ops
<1>6. CASE Challenged(w, r)
  <2>1. CASE Resend(w, Idle(r), r.op) /\ UNCHANGED bound
    <3>1. r.op \in Ops
      BY <1>3 DEF Regcs
    <3> QED BY <1>2, <1>4, <2>1, <3>1, Resent
  <2>2. CASE regc' = Over(r) /\ bound' = FALSE /\ Goto(w, "tell") /\ UNCHANGED <<out, told>>
    BY <1>2, <1>3, <1>5, <2>2, Where, Handled DEF Goto
  <2> QED BY <1>6, <2>1, <2>2 DEF Challenged
<1>7. CASE TooBrief(w, r)
  <2>1. /\ Resend(w, Register(Idle(r), r.auto), "REGISTERING") /\ UNCHANGED bound
        /\ r.auto \in BOOLEAN /\ "REGISTERING" \in Ops
    BY <1>3, <1>7 DEF TooBrief, Regcs, Ops
  <2>2. Alike(Idle(r), Register(Idle(r), r.auto))
    BY <1>4, <2>1, TimerAlike
  <2> QED BY <1>2, <1>4, <2>1, <2>2, Resent DEF Alike
<1>8. CASE Forgotten(w, r)
  BY <1>2, <1>3, <1>5, <1>8, Where, Handled DEF Forgotten, Goto
<1>9. CASE \E success \in BOOLEAN : Final(w, r, success)
  <2>1. PICK granted \in BOOLEAN :
           /\ regc' = Over(IF granted THEN Schedule(r) ELSE r)
           /\ bound' = granted /\ pc' = [pc EXCEPT ![w] = "tell"]
           /\ UNCHANGED <<out, told>>
    BY <1>9 DEF Final, Goto
  <2>2. Alike(r, Schedule(r)) /\ Schedule(r).auto = r.auto /\ (r.auto => Schedule(r).heap)
    BY <1>3, TimerAlike
  <2>3. CASE granted
    <3>1. regc' = Over(Schedule(r)) /\ Schedule(r) \in Regcs
      BY <2>1, <2>2, <2>3 DEF Alike
    <3>2. /\ regc' \in Regcs /\ regc'.busy = r.busy /\ regc'.has = r.has /\ regc'.op = "IDLE"
          /\ regc'.tsx_cb = r.tsx_cb /\ regc'.freed = r.freed /\ (regc'.auto => regc'.heap)
      BY <1>5, <2>2, <3>1 DEF Alike
    <3> QED BY <1>2, <2>1, <2>3, <3>2, Where, Handled
  <2>4. CASE ~granted
    BY <1>2, <1>3, <1>5, <2>1, <2>4, Where, Handled
  <2> QED BY <2>3, <2>4
<1> QED BY <1>1, <1>6, <1>7, <1>8, <1>9

(* The user's callback is called with the thread counted.                  *)
LEMMA TellStep ==
  ASSUME IInv, NEW w \in Workers, Tell(w)
  PROVE  IInv'
<1>1. /\ w \in Threads /\ pc[w] = "tell" /\ ~regc.freed /\ pc' = [pc EXCEPT ![w] = "exit"]
      /\ UNCHANGED <<regc, req, out, bound, gone>> /\ told' \in BOOLEAN
  BY Where DEF Tell, At, Goto, Regcs
<1>2. /\ Share(w, "exit") = 1 /\ Share(w, pc[w]) = 1
      /\ Fits(w, "exit") /\ "exit" \in Places /\ "exit" \notin Asking \cup {"tsx_cb"}
      /\ pc[w] \notin Caring
  BY <1>1, Where DEF Share, One, Inside, SendPlaces, Fits, AppPlaces, WorkerPlaces, Places,
                     Caring, Asking
<1>3. regc'.busy = regc.busy + Share(w, "exit") - Share(w, pc[w])
  BY <1>1, <1>2, Where DEF Regcs
<1> QED BY <1>1, <1>2, <1>3, Where, Quietly

(* And the section ends with the same test as a send.                      *)
LEMMA ExitStep ==
  ASSUME IInv, NEW w \in Workers, Exit(w)
  PROVE  IInv'
<1>1. PICK l \in {"idle", "check"} : pc' = [pc EXCEPT ![w] = l]
  BY DEF Exit, Goto
<1>2. /\ w \in Threads /\ pc[w] = "exit" /\ ~regc.freed /\ regc' = Leave(regc)
      /\ UNCHANGED <<req, out, bound, told, gone>>
  BY Where DEF Exit, At
<1>3. /\ Share(w, pc[w]) = 1 /\ Share(w, l) = 0
      /\ Fits(w, l) /\ l \in Places /\ l \notin Asking \cup {"tsx_cb"} /\ pc[w] \notin Caring
  BY <1>1, <1>2, Where DEF Share, One, Inside, SendPlaces, Fits, AppPlaces, WorkerPlaces,
                           Places, Caring, Asking
<1>4. /\ regc' \in Regcs /\ regc'.busy = regc.busy - 1 /\ regc.busy \in Nat
      /\ regc'.has = regc.has /\ regc'.op = regc.op /\ regc'.tsx_cb = regc.tsx_cb
      /\ regc'.del = regc.del /\ regc'.freed = regc.freed
      /\ regc'.heap = regc.heap /\ regc'.auto = regc.auto
  <2>1. regc.busy \in Nat /\ regc.busy >= 1
    BY <1>2, <1>3, Covered, Where DEF Regcs
  <2> QED BY <1>2, <2>1, Where DEF Leave, Regcs
<1>5. regc'.busy = regc.busy + Share(w, l) - Share(w, pc[w])
  BY <1>3, <1>4
<1> QED BY <1>1, <1>2, <1>3, <1>4, <1>5, Where, Quietly

-----------------------------------------------------------------------------
(* The invariant holds in the initial states.                              *)
LEMMA Initially == Init => IInv
<1> SUFFICES ASSUME Init PROVE IInv
  OBVIOUS
<1>1. PICK cb \in TsxCbs : regc = New(cb)
  BY DEF Init
<1>2. cb \in BOOLEAN
  BY RegistrationAssumption
<1>3. /\ pc = [t \in Threads |-> "idle"] /\ req = [t \in Threads |-> "IDLE"]
      /\ out = "IDLE" /\ bound = FALSE /\ told = FALSE /\ gone = FALSE
  BY DEF Init
<1>4. TypeOK
  BY <1>1, <1>2, <1>3 DEF TypeOK, New, Regcs, Ops, Places, AppPlaces, WorkerPlaces, Fits
<1>5. Insiders = {} /\ Refreshers = {}
  BY <1>3 DEF Insiders, Refreshers, Inside, Threads
<1>6. BusyAccounted
  BY <1>1, <1>5, FS_EmptySet DEF BusyAccounted, New
<1>7. FreedQuiet /\ OneRequest /\ OpKept /\ Refreshed
  BY <1>1, <1>3 DEF FreedQuiet, OneRequest, OpKept, Refreshed, New, Asking
<1> QED BY <1>4, <1>6, <1>7 DEF IInv

(* And every step keeps it.                                                *)
LEMMA Inductive == IInv /\ [Next]_vars => IInv'
<1> SUFFICES ASSUME IInv, [Next]_vars PROVE IInv'
  OBVIOUS
<1>1. ASSUME NEW a \in Apps, Calls(a) PROVE IInv'
  BY <1>1, RequestCallStep, SetDelayStep, DestroyCallStep DEF Calls
<1>2. ASSUME NEW t \in Threads, Sends(t) PROVE IInv'
  BY <1>2, SendEnterStep, SendLockedStep, SendBusyStep, TransmitStep, SendLeaveStep, CheckStep
     DEF Sends
<1>3. ASSUME NEW w \in Workers, Works(w) PROVE IInv'
  BY <1>3, RefreshTimerStep, ReportStep, CallTsxCbStep, HandleStep, TellStep, ExitStep
     DEF Works
<1>4. CASE UNCHANGED vars
  BY <1>4 DEF vars, IInv, TypeOK, BusyAccounted, Insiders, Refreshers, FreedQuiet,
              OneRequest, OpKept, Refreshed
<1> QED BY <1>1, <1>2, <1>3, <1>4 DEF Next

-----------------------------------------------------------------------------
(* busy_ctr is the number of threads inside of the registration, twice a   *)
(* refresh that sends: nobody who is inside was not counted, or counted    *)
(* and forgotten, in whatever order the threads enter and leave.           *)
THEOREM BusyCorrect == Spec => []BusyAccounted
<1>1. IInv => BusyAccounted
  BY DEF IInv
<1> QED BY <1>1, Initially, Inductive, PTL DEF Spec

(* When pjsip_regc_destroy(), called by the user or by the last one out,   *)
(* frees the registration, no transaction is out that would report to it   *)
(* and no thread is inside that goes on to use it.                         *)
THEOREM FreedCorrect == Spec => []FreedQuiet
<1>1. IInv => FreedQuiet
  BY DEF IInv
<1> QED BY <1>1, Initially, Inductive, PTL DEF Spec

(* The response a transaction reports is handled under the current_op of   *)
(* the request it answers, unless the user's tsx_cb was called before, and *)
(* pjsip_regc_send()'s assertion that no operation is current holds.       *)
THEOREM OpCorrect == Spec => []OpTracked
<1>1. IInv => OpTracked
  BY DEF IInv, OneRequest, OpKept, OpTracked
<1> QED BY <1>1, Initially, Inductive, PTL DEF Spec

(* What is registered with auto_reg has its timer scheduled or a request   *)
(* on its way, however calls, refreshes and responses interleave.          *)
THEOREM RefreshKept == Spec => []NoLostRefresh
<1>1. IInv => NoLostRefresh
  BY DEF IInv, Refreshed, Caring, NoLostRefresh, Underway
<1> QED BY <1>1, Initially, Inductive, PTL DEF Spec
=============================================================================
