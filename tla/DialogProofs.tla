----------------------------- MODULE DialogProofs -----------------------------
(***************************************************************************)
(* The counts of a dialog, its destruction, and the order of the locks:    *)
(* proved for any number of threads and of transactions.                   *)
(***************************************************************************)
EXTENDS Dialog, FiniteSetTheorems, TLAPS

(* A condition as a number.                                                *)
One(b) == IF b THEN 1 ELSE 0

(* Two finite sets that differ in x at most.                               *)
LEMMA CardinalityChange ==
  ASSUME NEW S, NEW T, NEW x, IsFiniteSet(S), S \ {x} = T \ {x}
  PROVE  /\ IsFiniteSet(T)
         /\ Cardinality(T) = Cardinality(S) + One(x \in T) - One(x \in S)
<1>1. /\ IsFiniteSet(S \cup {x}) /\ IsFiniteSet(S \ {x}) /\ Cardinality(S) \in Nat
      /\ Cardinality(S \cup {x}) = IF x \in S THEN Cardinality(S) ELSE Cardinality(S) + 1
      /\ Cardinality(S \ {x}) = IF x \in S THEN Cardinality(S) - 1 ELSE Cardinality(S)
  BY FS_AddElement, FS_RemoveElement, FS_CardinalityType
<1>2. CASE x \in T
  <2>1. T = S \cup {x}
    BY <1>2
  <2> QED BY <1>1, <1>2, <2>1 DEF One
<1>3. CASE x \notin T
  <2>1. T = S \ {x}
    BY <1>3
  <2> QED BY <1>1, <1>3, <2>1 DEF One
<1> QED BY <1>2, <1>3

Holding == {"cancel", "ack", "answer"}
Watching == {"event", "report"}
Leaving == {"gap", "destroy"}
Done == {"terminated", "destroyed"}

(* Who holds the locks: a thread waits with the dialog's for another, and  *)
(* with the user agent's only for the INVITE's.                            *)
Locked ==
    /\ \A x \in Threads : own["dlg"] = x <=> th[x].at \in Holding \cup {"destroy", "failed"}
    /\ \A x \in Threads : own["ua"] = x => th[x].at = "find"
    /\ \A x \in Threads : th[x].at = "event" => own[th[x].t] = x

(* The transactions of which a thread is going to tell the dialog.         *)
Known ==
    /\ \A t \in Tsxs : tsx[t].st = "none" => ~tsx[t].att
    /\ \A x \in Threads : th[x].at \in Watching => th[x].t \in Tsxs /\ tsx[th[x].t].st # "none"
    /\ \A x \in Threads : th[x].at = "report" => tsx[th[x].t].st \in Done
    /\ \A x \in Threads : th[x].at = "answer" => dlg.call

(* While no race was lost: they are attached, and only one that is         *)
(* destroyed is told of by two threads.                                    *)
Watched ==
    dlg.lost = {} =>
    /\ \A x \in Threads : th[x].at \in Watching => tsx[th[x].t].att
    /\ \A x, y \in Threads :
         x # y /\ th[x].at \in Watching /\ th[y].at \in Watching /\ th[x].t = th[y].t
         => tsx[th[x].t].st = "destroyed"

(* While no race was lost: the thread that is going to destroy the dialog  *)
(* is the only one, and nothing counts on the dialog any more.             *)
Final ==
    /\ dlg.freed <=> ~dlg.reg
    /\ dlg.lost = {} =>
       /\ \A x \in Threads : th[x].at # "failed"
       /\ \A x, y \in Threads : th[x].at \in Leaving /\ th[y].at \in Leaving => x = y
       /\ \A x \in Threads : th[x].at \in Leaving => ~dlg.freed
       /\ dlg.freed \/ (\E x \in Threads : th[x].at \in Leaving)
          => dlg.sess = 0 /\ dlg.tsx = 0

IInv == TypeOK /\ CountsAccounted /\ Locked /\ Known /\ Watched /\ Final

-----------------------------------------------------------------------------
Dlgs == [sess : Nat, tsx : Nat, call : BOOLEAN, reg : BOOLEAN, freed : BOOLEAN,
         lost : SUBSET {"gap", "terminate"}]
Tsx == [st : TsxStates, att : BOOLEAN, server : BOOLEAN]

Att(f) == {t \in Tsxs : f[t].att}

(* What the invariant says of the types, in the form that the steps use;   *)
(* and the locks and threads that have names of their own.                 *)
LEMMA Where ==
  ASSUME IInv
  PROVE  /\ dlg \in Dlgs /\ tsx \in [Tsxs -> Tsx]
         /\ own \in [Locks -> Threads \cup {None}] /\ None \notin Threads
         /\ th \in [Threads -> [at : Points, t : Tsxs \cup {None}]]
         /\ Inv \in Tsxs /\ Workers \subseteq Threads /\ Users \subseteq Threads
         /\ Fresh \subseteq Tsxs /\ Inv \notin Fresh
         /\ "dlg" \in Locks /\ "ua" \in Locks /\ Tsxs \subseteq Locks
         /\ "dlg" \notin Tsxs /\ "ua" \notin Tsxs
  BY DialogAssumption DEF IInv, TypeOK, Dlgs, Tsx, Threads, Tsxs, Locks, Fresh

(* The transactions that have the dialog to notify can be counted.         *)
LEMMA FiniteTsxs ==
  ASSUME NEW f
  PROVE  IsFiniteSet(Att(f)) /\ Cardinality(Att(f)) \in Nat
<1>1. IsFiniteSet(Tsxs)
  BY DialogAssumption, FS_Singleton, FS_Union DEF Tsxs
<1> QED BY <1>1, FS_Subset, FS_CardinalityType DEF Att

(* One transaction is attached, or detached.                               *)
LEMMA OneAttached ==
  ASSUME NEW f, NEW g, NEW t \in Tsxs, \A s \in Tsxs : s # t => (g[s].att <=> f[s].att)
  PROVE  Cardinality(Att(g)) = Cardinality(Att(f)) + One(g[t].att) - One(f[t].att)
<1>1. Att(f) \ {t} = Att(g) \ {t}
  BY DEF Att
<1>2. (t \in Att(f) <=> f[t].att) /\ (t \in Att(g) <=> g[t].att)
  BY DEF Att
<1>3. Cardinality(Att(g)) = Cardinality(Att(f)) + One(t \in Att(g)) - One(t \in Att(f))
  BY <1>1, FiniteTsxs, CardinalityChange
<1> QED BY <1>2, <1>3 DEF One

(* A thread is inside of the dialog, or comes in as its lock is free.      *)
Outside == {"idle", "find"} \cup Watching
Inside(x) == \/ th[x].at \in Outside /\ Free("dlg")
             \/ th[x].at \in Holding

(* Nobody else is inside: the sessions are the call and this thread.       *)
LEMMA Alone ==
  ASSUME IInv, NEW x \in Threads, Inside(x)
  PROVE  /\ \A y \in Threads : y # x => th[y].at \notin Holding \cup {"destroy", "failed"}
         /\ th[x].at \notin {"gap", "destroy", "failed"}
         /\ dlg.sess = One(dlg.call) + One(th[x].at \in Holding)
<1>1. \A y \in Threads : y # x => th[y].at \notin Holding \cup {"destroy", "failed"}
  BY Where DEF Inside, Outside, Watching, Holding, Free, IInv, Locked
<1>2. th[x].at \notin {"gap", "destroy", "failed"}
  BY DEF Inside, Outside, Watching, Holding
<1>3. Cardinality(Holders) = One(th[x].at \in Holding)
  <2>1. CASE th[x].at \in Holding
    <3>1. Holders = {x}
      BY <1>1, <2>1 DEF Holders, Holding
    <3> QED BY <2>1, <3>1, FS_Singleton DEF One
  <2>2. CASE th[x].at \notin Holding
    <3>1. Holders = {}
      BY <1>1, <2>2 DEF Holders, Holding
    <3> QED BY <2>2, <3>1, FS_EmptySet DEF One
  <2> QED BY <2>1, <2>2
<1> QED BY <1>1, <1>2, <1>3 DEF IInv, CountsAccounted, One

(* The dialog d and the transactions f with which x goes out of it, or     *)
(* waits inside of it.                                                     *)
Consistent(x, d, f) ==
    /\ d \in Dlgs /\ d.reg = dlg.reg /\ d.freed = dlg.freed
    /\ d.sess = One(d.call) + 1
    /\ f \in [Tsxs -> Tsx] /\ d.tsx = Cardinality(Att(f))
    /\ \A t \in Tsxs : /\ f[t].st = "none" => ~f[t].att
                       /\ tsx[t].st # "none" => f[t].st # "none"
                       /\ tsx[t].st \in Done => f[t].st \in Done
    /\ d.lost = {} =>
       /\ dlg.lost = {} /\ ~dlg.freed /\ \A y \in Threads : th[y].at \notin Leaving
       /\ \A y \in Threads : y # x /\ th[y].at \in Watching
            => f[th[y].t].att /\ f[th[y].t].st = tsx[th[y].t].st

(* What holds of the other threads, and of this one outside.               *)
LEMMA LeaveStep ==
  ASSUME IInv, NEW x \in Threads, Inside(x), NEW d, Consistent(x, d, tsx'),
         NEW held \in Tsxs \cup {None}, th[x].at = "find" => d.tsx # 0,
         Leave(x, d, held)
  PROVE  IInv'
<1> DEFINE last == d.sess = 1 /\ d.tsx = 0
<1>1. /\ d \in Dlgs /\ d.sess \in Nat /\ d.tsx \in Nat /\ d.call \in BOOLEAN
      /\ d.sess = One(d.call) + 1
  BY DEF Consistent, Dlgs
<1>2. /\ dlg' \in Dlgs /\ dlg'.sess = One(d.call) /\ dlg'.tsx = d.tsx /\ dlg'.call = d.call
      /\ dlg'.reg = d.reg /\ dlg'.freed = d.freed /\ dlg'.lost = d.lost
  <2>1. PICK n \in Nat : n = One(d.call) /\ dlg' = [d EXCEPT !.sess = n]
    BY <1>1 DEF Leave, One
  <2> QED BY <1>1, <2>1 DEF Dlgs
<1>3. PICK p \in [at : {"idle", "gap"}, t : Tsxs \cup {None}] :
         th' = [th EXCEPT ![x] = p] /\ (p.at = "gap" <=> last)
  <2>1. CASE last
    <3>1. th' = [th EXCEPT ![x] = [at |-> "gap", t |-> held]]
      BY <2>1 DEF Leave, Goes
    <3>2. [at |-> "gap", t |-> held] \in [at : {"idle", "gap"}, t : Tsxs \cup {None}]
      OBVIOUS
    <3> QED BY <2>1, <3>1, <3>2
  <2>2. CASE ~last
    <3>1. th' = [th EXCEPT ![x] = Idle]
      BY <2>2 DEF Leave
    <3>2. Idle \in [at : {"idle", "gap"}, t : Tsxs \cup {None}] /\ Idle.at # "gap"
      BY DEF Idle
    <3> QED BY <2>2, <3>1, <3>2
  <2> QED BY <2>1, <2>2
<1>4. own' = [l \in Locks |-> IF l = "dlg" \/ (~last /\ own[l] = x) THEN None ELSE own[l]]
  BY DEF Leave
<1>5. th'[x] = p /\ \A y \in Threads : y # x => th'[y] = th[y]
  BY <1>3, Where
<1>6. \A y \in Threads : th'[y].at \notin Holding \cup {"destroy", "failed"}
  BY <1>3, <1>5, Alone DEF Holding
<1>7. TypeOK'
  <2>1. own' \in [Locks -> Threads \cup {None}]
    BY <1>4, Where
  <2>2. th' \in [Threads -> [at : Points, t : Tsxs \cup {None}]]
    BY <1>3, Where DEF Points
  <2> QED BY <1>2, <2>1, <2>2 DEF TypeOK, Dlgs, Tsx, Consistent
<1>8. CountsAccounted'
  <2>1. Holders' = {}
    BY <1>6 DEF Holders, Holding
  <2> QED BY <1>2, <2>1, FS_EmptySet DEF CountsAccounted, Consistent, Att, One
<1>9. Locked'
  <2>1. own'["dlg"] = None
    BY <1>4, Where
  <2>2. \A y \in Threads : own'["ua"] = y => th'[y].at = "find"
    <3> SUFFICES ASSUME NEW y \in Threads, own'["ua"] = y PROVE th'[y].at = "find"
      OBVIOUS
    <3>1. own["ua"] = y /\ (y = x => last)
      BY <1>4, Where
    <3>2. th[y].at = "find"
      BY <3>1 DEF IInv, Locked
    <3> QED BY <1>5, <3>1, <3>2
  <2>3. \A y \in Threads : th'[y].at = "event" => own'[th'[y].t] = y
    <3> SUFFICES ASSUME NEW y \in Threads, th'[y].at = "event" PROVE own'[th'[y].t] = y
      OBVIOUS
    <3>1. y # x /\ th'[y] = th[y] /\ own[th[y].t] = y /\ th[y].t \in Tsxs
      BY <1>3, <1>5 DEF IInv, Locked, Known, Watching
    <3> QED BY <1>4, <3>1, Where
  <2> QED BY <1>6, <2>1, <2>2, <2>3, Where DEF Locked
<1>10. Known' /\ Watched'
  <2>1. \A y \in Threads : th'[y].at \in Watching => y # x /\ th'[y] = th[y]
    BY <1>3, <1>5 DEF Watching
  <2>2. \A y \in Threads : th'[y].at \in {"report", "answer"} => y # x /\ th'[y] = th[y]
    BY <1>3, <1>5
  <2>3. Known'
    BY <1>6, <2>1, <2>2 DEF IInv, Known, Consistent, Watching, Holding
  <2>4. Watched'
    BY <1>2, <2>1 DEF IInv, Known, Watched, Consistent
  <2> QED BY <2>3, <2>4
<1>11. Final'
  <2>1. dlg'.freed <=> ~dlg'.reg
    BY <1>2 DEF IInv, Final, Consistent
  <2>2. ASSUME dlg'.lost = {}
        PROVE  /\ ~dlg'.freed /\ \A y \in Threads : th'[y].at \in Leaving => y = x /\ last
    BY <1>2, <1>3, <1>5, <2>2 DEF Consistent, Leaving
  <2>3. last => dlg'.sess = 0 /\ dlg'.tsx = 0
    BY <1>1, <1>2 DEF One
  <2> QED BY <1>6, <2>1, <2>2, <2>3 DEF Final
<1> QED BY <1>7, <1>8, <1>9, <1>10, <1>11 DEF IInv

(* A thread that goes to wait inside of the dialog, for the INVITE's lock, *)
(* keeps the invariant.                                                    *)
LEMMA WaitsStep ==
  ASSUME IInv, NEW x \in Threads, Inside(x), NEW d, Consistent(x, d, tsx'),
         NEW at \in Holding, at = "answer" => d.call, Waits(x, d, at)
  PROVE  IInv'
<1>1. dlg' = d /\ d \in Dlgs
  BY DEF Waits, Consistent
<1>2. own' = [l \in Locks |-> IF l = "dlg" THEN x ELSE IF own[l] = x THEN None ELSE own[l]]
  BY DEF Waits
<1>3. /\ th' = [th EXCEPT ![x] = [at |-> at, t |-> Inv]]
      /\ th'[x] = [at |-> at, t |-> Inv] /\ \A y \in Threads : y # x => th'[y] = th[y]
  BY Where DEF Waits, Goes
<1>4. \A y \in Threads : th'[y].at \in Holding \cup {"destroy", "failed"} <=> y = x
  BY <1>3, Alone DEF Holding
<1>5. TypeOK'
  <2>1. own' \in [Locks -> Threads \cup {None}]
    BY <1>2, Where
  <2>2. th' \in [Threads -> [at : Points, t : Tsxs \cup {None}]]
    BY <1>3, Where DEF Points, Holding
  <2> QED BY <1>1, <2>1, <2>2 DEF TypeOK, Dlgs, Tsx, Consistent
<1>6. CountsAccounted'
  <2>1. Holders' = {x}
    BY <1>3, <1>4 DEF Holders, Holding
  <2> QED BY <1>1, <2>1, FS_Singleton DEF CountsAccounted, Consistent, Att, One
<1>7. Locked'
  <2>1. own'["dlg"] = x
    BY <1>2, Where
  <2>2. \A y \in Threads : own'["ua"] = y => y # x /\ own["ua"] = y
    BY <1>2, Where
  <2>3. \A y \in Threads : th'[y].at = "event" => own'[th'[y].t] = y
    <3> SUFFICES ASSUME NEW y \in Threads, th'[y].at = "event" PROVE own'[th'[y].t] = y
      OBVIOUS
    <3>1. y # x /\ th'[y] = th[y] /\ own[th[y].t] = y /\ th[y].t \in Tsxs
      BY <1>3 DEF IInv, Locked, Known, Watching, Holding
    <3> QED BY <1>2, <3>1, Where
  <2> QED BY <1>3, <1>4, <2>1, <2>2, <2>3 DEF IInv, Locked
<1>8. Known' /\ Watched'
  <2>1. \A y \in Threads : th'[y].at \in Watching => y # x /\ th'[y] = th[y]
    BY <1>3 DEF Watching, Holding
  <2>2. \A y \in Threads : th'[y].at = "answer" => dlg'.call
    BY <1>1, <1>3, <1>4 DEF Holding
  <2>3. Known'
    BY <2>1, <2>2 DEF IInv, Known, Consistent, Watching
  <2>4. Watched'
    BY <1>1, <2>1 DEF IInv, Known, Watched, Consistent
  <2> QED BY <2>3, <2>4
<1>9. Final'
  <2>1. dlg'.freed <=> ~dlg'.reg
    BY <1>1 DEF IInv, Final, Consistent
  <2>2. ASSUME dlg'.lost = {}
        PROVE  /\ ~dlg'.freed /\ \A y \in Threads : th'[y].at \notin Leaving
               /\ \A y \in Threads : th'[y].at # "failed"
    BY <1>1, <1>3, <1>4, <2>2 DEF Consistent, Leaving, Holding
  <2> QED BY <2>1, <2>2 DEF Final
<1> QED BY <1>5, <1>6, <1>7, <1>8, <1>9 DEF IInv

-----------------------------------------------------------------------------
(* Going in and out.                                                       *)

(* A dialog that something counts on is not on its way to be freed.        *)
LEMMA Alive ==
  ASSUME IInv, dlg.lost = {}, dlg.call \/ Holders # {} \/ \E t \in Tsxs : tsx[t].att
  PROVE  ~dlg.freed /\ \A y \in Threads : th[y].at \notin Leaving
<1>1. CASE dlg.call \/ Holders # {}
  <2>1. IsFiniteSet(Holders)
    <3>1. IsFiniteSet(Threads)
      BY DialogAssumption, FS_Union DEF Threads
    <3> QED BY <3>1, FS_Subset DEF Holders
  <2>2. Cardinality(Holders) \in Nat /\ (Holders # {} => Cardinality(Holders) # 0)
    BY <2>1, FS_CardinalityType, FS_EmptySet
  <2>3. dlg.sess # 0
    BY <1>1, <2>2 DEF IInv, CountsAccounted
  <2> QED BY <2>3 DEF IInv, Final
<1>2. CASE \E t \in Tsxs : tsx[t].att
  <2>1. Att(tsx) # {}
    BY <1>2 DEF Att
  <2>2. dlg.tsx # 0
    BY <2>1, FiniteTsxs, FS_EmptySet DEF IInv, CountsAccounted, Att
  <2> QED BY <2>2 DEF IInv, Final
<1> QED BY <1>1, <1>2

(* What pjsip_dlg_inc_lock() leaves of the dialog.                         *)
LEMMA Coming ==
  ASSUME IInv, NEW x \in Threads, th[x].at \in Outside, Free("dlg")
  PROVE  /\ Inside(x) /\ Entered(dlg) \in Dlgs
         /\ Entered(dlg).sess = One(dlg.call) + 1 /\ Entered(dlg).tsx = dlg.tsx
         /\ Entered(dlg).call = dlg.call /\ Entered(dlg).reg = dlg.reg
         /\ Entered(dlg).freed = dlg.freed
         /\ Entered(dlg).lost = {} => /\ dlg.lost = {}
                                      /\ \A y \in Threads : th[y].at \notin Leaving
<1>1. Inside(x) /\ dlg.sess = One(dlg.call) /\ dlg \in Dlgs
  BY Alone, Where DEF Inside, Outside, Watching, Holding, One, Dlgs
<1>2. PICK n \in Nat, L \in SUBSET {"gap", "terminate"} :
         /\ n = One(dlg.call) + 1
         /\ Entered(dlg) = [dlg EXCEPT !.sess = n, !.lost = L]
         /\ L = {} => dlg.lost = {} /\ \A y \in Threads : th[y].at # "gap"
  <2> DEFINE L == IF \E y \in Threads : th[y].at = "gap" THEN dlg.lost \cup {"gap"} ELSE dlg.lost
  <2>1. One(dlg.call) + 1 \in Nat /\ L \in SUBSET {"gap", "terminate"}
    BY <1>1 DEF One, Dlgs
  <2>2. Entered(dlg) = [dlg EXCEPT !.sess = One(dlg.call) + 1, !.lost = L]
    BY <1>1 DEF Entered
  <2>3. L = {} => dlg.lost = {} /\ \A y \in Threads : th[y].at # "gap"
    OBVIOUS
  <2> QED BY <2>1, <2>2, <2>3
<1>3. \A y \in Threads : th[y].at # "destroy"
  BY Where DEF IInv, Locked, Free
<1> QED BY <1>1, <1>2, <1>3 DEF Dlgs, Leaving

(* A transaction of this dialog begins.                                    *)
With(f, t, r) == [f EXCEPT ![t] = r]

(* A transaction that begins attached to the dialog adds one to those      *)
(* counted, and no thread was going to tell of it.                         *)
LEMMA Joined ==
  ASSUME IInv, NEW f \in [Tsxs -> Tsx], NEW t \in Fresh, NEW r \in Tsx, r.att, ~f[t].att
  PROVE  /\ With(f, t, r) \in [Tsxs -> Tsx]
         /\ Cardinality(Att(With(f, t, r))) = Cardinality(Att(f)) + 1
         /\ With(f, t, r)[t] = r /\ \A s \in Tsxs : s # t => With(f, t, r)[s] = f[s]
         /\ tsx[t].st = "none" /\ ~tsx[t].att
         /\ \A y \in Threads : th[y].at \in Watching => th[y].t # t
<1> DEFINE g == With(f, t, r)
<1>1. t \in Tsxs /\ tsx[t].st = "none" /\ ~tsx[t].att
  BY Where DEF Fresh, IInv, Known
<1>2. g \in [Tsxs -> Tsx] /\ g[t] = r /\ \A s \in Tsxs : s # t => g[s] = f[s]
  BY <1>1 DEF With
<1>3. Cardinality(Att(g)) = Cardinality(Att(f)) + One(g[t].att) - One(f[t].att)
  BY <1>1, <1>2, OneAttached
<1>4. Cardinality(Att(g)) = Cardinality(Att(f)) + 1
  BY <1>2, <1>3, FiniteTsxs DEF One
<1>5. \A y \in Threads : th[y].at \in Watching => th[y].t # t
  BY <1>1 DEF IInv, Known
<1> QED BY <1>1, <1>2, <1>4, <1>5

(* The dialog after the call has ended.                                    *)
LEMMA CallEnds ==
  ASSUME NEW d \in Dlgs, d.call, d.sess = One(d.call) + 1
  PROVE  /\ Ended(d) \in Dlgs /\ Ended(d).sess = One(Ended(d).call) + 1
         /\ Ended(d).tsx = d.tsx /\ Ended(d).reg = d.reg
         /\ Ended(d).freed = d.freed /\ Ended(d).lost = d.lost
<1>1. PICK e : e = [d EXCEPT !.call = FALSE, !.sess = 1] /\ Ended(d) = e
  BY DEF Ended, One
<1>2. /\ e \in Dlgs /\ ~e.call /\ e.sess = 1 /\ e.tsx = d.tsx /\ e.reg = d.reg
      /\ e.freed = d.freed /\ e.lost = d.lost
  <2>1. e \in Dlgs
    <3>1. PICK b \in BOOLEAN, n \in Nat : e = [d EXCEPT !.call = b, !.sess = n]
      BY <1>1
    <3> QED BY <3>1 DEF Dlgs
  <2>2. ~e.call /\ e.sess = 1
    BY <1>1 DEF Dlgs
  <2>3. e.tsx = d.tsx /\ e.reg = d.reg /\ e.freed = d.freed /\ e.lost = d.lost
    BY <1>1 DEF Dlgs
  <2> QED BY <2>1, <2>2, <2>3
<1> QED BY <1>1, <1>2 DEF One

(* The thread comes in with a new transaction, or with none; in between it *)
(* may end the call.                                                       *)
LEMMA Begins ==
  ASSUME IInv, NEW x \in Threads, th[x].at \in Outside, Free("dlg"),
         NEW t \in Fresh, NEW r \in Tsx, r.att, r.st # "none", tsx' = [tsx EXCEPT ![t] = r],
         NEW d \in {Entered(dlg), Ended(Entered(dlg))}, d = Entered(dlg) \/ dlg.call,
         dlg.lost = {} => ~dlg.freed
  PROVE  /\ Inside(x) /\ Consistent(x, [d EXCEPT !.tsx = @ + 1], tsx')
         /\ [d EXCEPT !.tsx = @ + 1].tsx # 0 /\ [d EXCEPT !.tsx = @ + 1].call = d.call
<1>1. /\ tsx' \in [Tsxs -> Tsx] /\ Cardinality(Att(tsx')) = Cardinality(Att(tsx)) + 1
      /\ tsx'[t] = r /\ \A s \in Tsxs : s # t => tsx'[s] = tsx[s]
      /\ tsx[t].st = "none"
      /\ \A y \in Threads : th[y].at \in Watching => th[y].t # t
  <2>1. tsx \in [Tsxs -> Tsx] /\ ~tsx[t].att
    BY Where DEF Fresh, IInv, Known
  <2>2. tsx' = With(tsx, t, r)
    BY DEF With
  <2>3. With(tsx, t, r) \in [Tsxs -> Tsx]
    BY <2>1, Joined
  <2>4. Cardinality(Att(With(tsx, t, r))) = Cardinality(Att(tsx)) + 1
    BY <2>1, Joined
  <2>5. \A y \in Threads : th[y].at \in Watching => th[y].t # t
    BY <2>1, Joined
  <2>6. tsx[t].st = "none" /\ With(tsx, t, r)[t] = r /\ \A s \in Tsxs : s # t => With(tsx, t, r)[s] = tsx[s]
    BY <2>1, Joined
  <2> QED BY <2>2, <2>3, <2>4, <2>5, <2>6
<1>2. dlg.tsx = Cardinality(Att(tsx)) /\ dlg.tsx \in Nat
  BY Where DEF IInv, CountsAccounted, Att, Dlgs
<1>3. /\ d \in Dlgs /\ d.sess = One(d.call) + 1 /\ d.tsx = dlg.tsx /\ d.reg = dlg.reg
      /\ d.freed = dlg.freed /\ d.lost = Entered(dlg).lost
  <2>1. CASE d = Entered(dlg)
    BY <2>1, Coming
  <2>2. CASE d = Ended(Entered(dlg)) /\ dlg.call
    BY <2>2, Coming, CallEnds
  <2> QED BY <2>1, <2>2
<1>4. PICK n \in Nat : n = Cardinality(Att(tsx')) /\ [d EXCEPT !.tsx = @ + 1] = [d EXCEPT !.tsx = n]
  <2>1. Cardinality(Att(tsx')) \in Nat /\ Cardinality(Att(tsx')) = d.tsx + 1
    BY <1>1, <1>2, <1>3, FiniteTsxs
  <2> QED BY <2>1
<1>5. /\ [d EXCEPT !.tsx = n] \in Dlgs /\ [d EXCEPT !.tsx = n].sess = d.sess
      /\ [d EXCEPT !.tsx = n].tsx = n /\ [d EXCEPT !.tsx = n].call = d.call
      /\ [d EXCEPT !.tsx = n].reg = d.reg /\ [d EXCEPT !.tsx = n].freed = d.freed
      /\ [d EXCEPT !.tsx = n].lost = d.lost
  BY <1>3 DEF Dlgs
<1>6. \A s \in Tsxs : /\ tsx'[s].st = "none" => ~tsx'[s].att
                      /\ tsx[s].st # "none" => tsx'[s].st # "none"
                      /\ tsx[s].st \in Done => tsx'[s].st \in Done
  BY <1>1 DEF IInv, Known, Done
<1>7. ASSUME d.lost = {}
      PROVE  /\ dlg.lost = {} /\ ~dlg.freed /\ \A y \in Threads : th[y].at \notin Leaving
             /\ \A y \in Threads : y # x /\ th[y].at \in Watching
                  => tsx'[th[y].t].att /\ tsx'[th[y].t].st = tsx[th[y].t].st
  BY <1>1, <1>3, <1>7, Coming DEF IInv, Known, Watched
<1>8. n # 0
  BY <1>1, <1>2, <1>4
<1>9. Consistent(x, [d EXCEPT !.tsx = n], tsx')
  BY <1>1, <1>3, <1>4, <1>5, <1>6, <1>7 DEF Consistent
<1> QED BY <1>4, <1>5, <1>8, <1>9, Coming

(* The thread comes in and no transaction is attached or detached.         *)
LEMMA Enters ==
  ASSUME IInv, NEW x \in Threads, th[x].at \in Outside, Free("dlg"),
         tsx' \in [Tsxs -> Tsx], dlg.lost = {} => ~dlg.freed,
         \A t \in Tsxs : /\ tsx'[t].att <=> tsx[t].att
                         /\ tsx[t].st # "none" => tsx'[t] = tsx[t]
  PROVE  Inside(x) /\ Consistent(x, Entered(dlg), tsx')
<1>1. Att(tsx') = Att(tsx)
  BY DEF Att
<1>2. dlg.tsx = Cardinality(Att(tsx))
  BY DEF IInv, CountsAccounted, Att
<1>3. \A t \in Tsxs : /\ tsx'[t].st = "none" => ~tsx'[t].att
                      /\ tsx[t].st # "none" => tsx'[t].st # "none"
                      /\ tsx[t].st \in Done => tsx'[t].st \in Done
  BY DEF IInv, Known, Done
<1>4. ASSUME dlg.lost = {}, NEW y \in Threads, th[y].at \in Watching
      PROVE  tsx'[th[y].t].att /\ tsx'[th[y].t].st = tsx[th[y].t].st
  BY <1>4 DEF IInv, Known, Watched
<1> QED BY <1>1, <1>2, <1>3, <1>4, Coming DEF Consistent

-----------------------------------------------------------------------------
(* Requests of the other end.                                              *)

(* What a request of the other end, and one of this end, make of a         *)
(* transaction that was not there.                                         *)
LEMMA Serves ==
  ASSUME IInv, NEW t \in Fresh
  PROVE  /\ [st |-> "completed", att |-> TRUE, server |-> TRUE] \in Tsx
         /\ Serve(t) = [tsx EXCEPT ![t] = [st |-> "completed", att |-> TRUE, server |-> TRUE]]
         /\ Client \in Tsx /\ Client.att /\ Client.st # "none"
  BY DEF Tsx, TsxStates, Serve, Client

(* A request of the other end, which mod_ua_on_rx_request() passes to the  *)
(* dialog, keeps the invariant.                                            *)
LEMMA RequestStep ==
  ASSUME IInv, NEW w \in Workers, Request(w)
  PROVE  IInv'
<1>1. PICK t \in Fresh :
         /\ th[w].at = "idle" /\ dlg.reg /\ Free("dlg") /\ tsx' = Serve(t)
         /\ Leave(w, [Entered(dlg) EXCEPT !.tsx = @ + 1], None)
  BY DEF Request
<1>2. w \in Threads /\ th[w].at \in Outside /\ (dlg.lost = {} => ~dlg.freed)
  BY <1>1, Where DEF Outside, IInv, Final
<1>3. /\ Inside(w) /\ Consistent(w, [Entered(dlg) EXCEPT !.tsx = @ + 1], tsx')
  BY <1>1, <1>2, Serves, Begins
<1> QED BY <1>1, <1>2, <1>3, LeaveStep

(* So does a BYE, which takes the call's session away and may have to wait *)
(* for the INVITE's lock.                                                  *)
LEMMA ByeStep ==
  ASSUME IInv, NEW w \in Workers, Bye(w)
  PROVE  IInv'
<1> DEFINE d == [Ended(Entered(dlg)) EXCEPT !.tsx = @ + 1]
<1>1. PICK t \in Fresh :
         /\ th[w].at = "idle" /\ dlg.reg /\ Free("dlg") /\ dlg.call /\ tsx' = Serve(t)
         /\ Waits(w, d, "cancel") \/ Leave(w, d, None)
  BY DEF Bye
<1>2. w \in Threads /\ th[w].at \in Outside /\ (dlg.lost = {} => ~dlg.freed)
  BY <1>1, Where DEF Outside, IInv, Final
<1>3. Inside(w) /\ Consistent(w, d, tsx')
  BY <1>1, <1>2, Serves, Begins
<1>4. CASE Waits(w, d, "cancel")
  BY <1>2, <1>3, <1>4, WaitsStep DEF Holding
<1>5. CASE Leave(w, d, None)
  BY <1>1, <1>2, <1>3, <1>5, LeaveStep
<1> QED BY <1>1, <1>4, <1>5

(* So does an ACK, which goes on to end the INVITE that was accepted.      *)
LEMMA AckStep ==
  ASSUME IInv, NEW w \in Workers, Ack(w)
  PROVE  IInv'
<1>1. /\ w \in Threads /\ th[w].at \in Outside /\ Free("dlg") /\ tsx' = tsx
      /\ Waits(w, Entered(dlg), "ack") /\ (dlg.lost = {} => ~dlg.freed)
  BY Where DEF Ack, Outside, IInv, Final
<1>2. Inside(w) /\ Consistent(w, Entered(dlg), tsx')
  BY <1>1, Enters, Where
<1> QED BY <1>1, <1>2, WaitsStep DEF Holding

(* A thread that is not inside takes or lets go of a lock other than the   *)
(* dialog's, and nothing else changes.                                     *)
LEMMA CancelRequestStep ==
  ASSUME IInv, NEW w \in Workers, CancelRequest(w)
  PROVE  IInv'
<1>1. /\ w \in Threads /\ th[w].at = "idle" /\ Free("ua") /\ dlg' = dlg /\ tsx' = tsx
      /\ own' = [own EXCEPT !["ua"] = w]
      /\ th' = [th EXCEPT ![w] = [at |-> "find", t |-> Inv]]
  BY Where DEF CancelRequest, Goes
<1>2. /\ th'[w] = [at |-> "find", t |-> Inv] /\ \A y \in Threads : y # w => th'[y] = th[y]
      /\ own'["ua"] = w /\ own'["dlg"] = own["dlg"] /\ \A t \in Tsxs : own'[t] = own[t]
  BY <1>1, Where
<1>3. TypeOK'
  BY <1>1, Where DEF TypeOK, Dlgs, Tsx, Points
<1>4. CountsAccounted'
  <2>1. Holders' = Holders
    BY <1>1, <1>2 DEF Holders
  <2> QED BY <1>1, <2>1 DEF IInv, CountsAccounted
<1>5. Locked'
  BY <1>1, <1>2, Where DEF IInv, Locked, Known, Holding, Watching
<1>6. Known' /\ Watched' /\ Final'
  BY <1>1, <1>2 DEF IInv, Known, Watched, Final, Watching, Leaving
<1> QED BY <1>3, <1>4, <1>5, <1>6 DEF IInv

(* So does the search for the dialog of a CANCEL: it finds none, finds it  *)
(* locked and begins again, or goes in.                                    *)
LEMMA FindStep ==
  ASSUME IInv, NEW w \in Threads, Find(w)
  PROVE  IInv'
<1> DEFINE d == [Entered(dlg) EXCEPT !.tsx = @ + 1]
<1>1. CASE tsx[Inv].att /\ Free("dlg")
  <2>1. PICK t \in Fresh :
           /\ th[w].at = "find" /\ tsx' = Serve(t)
           /\ Waits(w, d, "cancel") \/ Leave(w, d, None)
    BY <1>1 DEF Find
  <2>2. th[w].at \in Outside /\ (dlg.lost = {} => ~dlg.freed)
    BY <1>1, <2>1, Where, Alive DEF Outside
  <2>3. Inside(w) /\ Consistent(w, d, tsx') /\ d.tsx # 0
    BY <1>1, <2>1, <2>2, Serves, Begins
  <2>4. CASE Waits(w, d, "cancel")
    BY <2>2, <2>3, <2>4, WaitsStep DEF Holding
  <2>5. CASE Leave(w, d, None)
    BY <2>2, <2>3, <2>5, LeaveStep
  <2> QED BY <2>1, <2>4, <2>5
<1>2. CASE ~(tsx[Inv].att /\ Free("dlg"))
  <2>1. /\ th[w].at = "find" /\ dlg' = dlg /\ tsx' = tsx
        /\ own' = [own EXCEPT !["ua"] = None] /\ th' = [th EXCEPT ![w] = Idle]
    BY <1>2 DEF Find
  <2>2. /\ th'[w] = Idle /\ Idle.at = "idle" /\ \A y \in Threads : y # w => th'[y] = th[y]
        /\ own'["ua"] = None /\ own'["dlg"] = own["dlg"] /\ \A t \in Tsxs : own'[t] = own[t]
    BY <2>1, Where DEF Idle
  <2>3. TypeOK'
    BY <2>1, Where DEF TypeOK, Dlgs, Tsx, Points, Idle
  <2>4. CountsAccounted'
    <3>1. Holders' = Holders
      BY <2>1, <2>2 DEF Holders
    <3> QED BY <2>1, <3>1 DEF IInv, CountsAccounted
  <2>5. Locked'
    BY <2>1, <2>2, Where DEF IInv, Locked, Known, Holding, Watching
  <2>6. Known' /\ Watched' /\ Final'
    BY <2>1, <2>2 DEF IInv, Known, Watched, Final, Watching, Leaving
  <2> QED BY <2>3, <2>4, <2>5, <2>6 DEF IInv
<1> QED BY <1>1, <1>2

-----------------------------------------------------------------------------
(* The INVITE's transaction, by a thread that holds the dialog's lock.     *)

(* A thread that waits inside of the dialog counts as a session of it, so  *)
(* that nobody has begun to destroy it, unless a race was lost.            *)
LEMMA Stays ==
  ASSUME IInv, NEW x \in Threads, th[x].at \in Holding
  PROVE  /\ Inside(x) /\ dlg.sess = One(dlg.call) + 1
         /\ dlg.lost = {} => ~dlg.freed /\ \A y \in Threads : th[y].at \notin Leaving
<1>1. Inside(x) /\ dlg.sess = One(dlg.call) + 1
  BY Alone, Where DEF Inside, One, Dlgs
<1>2. Holders # {}
  BY DEF Holders, Holding
<1> QED BY <1>1, <1>2, Alive

(* With its lock free nobody is going to tell of a transaction, unless it  *)
(* has failed.                                                             *)
LEMMA Untold ==
  ASSUME IInv, NEW t \in Tsxs, Free(t), tsx[t].st \notin Done
  PROVE  \A y \in Threads : th[y].at \in Watching => th[y].t # t
  BY Where DEF IInv, Locked, Known, Watching, Free

(* A final response to the INVITE leaves it attached; with it the call may *)
(* end, which takes one session.                                           *)
LEMMA Answered ==
  ASSUME IInv, NEW x \in Threads, th[x].at \in Holding, Free(Inv), tsx[Inv].st = "open",
         NEW s \in TsxStates \ {"none"}, tsx' = [tsx EXCEPT ![Inv].st = s],
         NEW d \in {dlg, Ended(dlg)}, d = dlg \/ dlg.call
  PROVE  Consistent(x, d, tsx')
<1>1. /\ tsx' \in [Tsxs -> Tsx] /\ tsx'[Inv].st = s
      /\ \A t \in Tsxs : (tsx'[t].att <=> tsx[t].att) /\ (t # Inv => tsx'[t] = tsx[t])
  BY Where DEF Tsx
<1>2. /\ Att(tsx') = Att(tsx) /\ dlg.tsx = Cardinality(Att(tsx))
      /\ \A t \in Tsxs : /\ tsx'[t].st = "none" => ~tsx'[t].att
                         /\ tsx[t].st # "none" => tsx'[t].st # "none"
                         /\ tsx[t].st \in Done => tsx'[t].st \in Done
  BY <1>1 DEF IInv, CountsAccounted, Known, Att, Done
<1>3. \A y \in Threads : th[y].at \in Watching => th[y].t # Inv
  BY Where, Untold DEF Done
<1>4. /\ d \in Dlgs /\ d.sess = One(d.call) + 1 /\ d.tsx = dlg.tsx /\ d.reg = dlg.reg
      /\ d.freed = dlg.freed /\ d.lost = dlg.lost
  BY Where, Stays, CallEnds
<1>5. ASSUME dlg.lost = {}
      PROVE  /\ ~dlg.freed /\ \A y \in Threads : th[y].at \notin Leaving
             /\ \A y \in Threads : th[y].at \in Watching
                  => tsx'[th[y].t].att /\ tsx'[th[y].t].st = tsx[th[y].t].st
  BY <1>1, <1>3, <1>5, Stays DEF IInv, Known, Watched
<1> QED BY <1>1, <1>2, <1>4, <1>5 DEF Consistent

(* It goes out and has not changed anything.                               *)
LEMMA GoesOut ==
  ASSUME IInv, NEW x \in Threads, th[x].at \in Holding, tsx' = tsx
  PROVE  Consistent(x, dlg, tsx')
<1>1. dlg.tsx = Cardinality(Att(tsx))
  BY DEF IInv, CountsAccounted, Att
<1>2. \A t \in Tsxs : tsx[t].st = "none" => ~tsx[t].att
  BY DEF IInv, Known
<1>3. ASSUME dlg.lost = {}, NEW y \in Threads, th[y].at \in Watching
      PROVE  tsx[th[y].t].att
  BY <1>3 DEF IInv, Watched
<1> QED BY <1>1, <1>2, <1>3, Where, Stays DEF Consistent

(* The 487 that answers a cancelled INVITE keeps the invariant.            *)
LEMMA RespondCancelStep ==
  ASSUME IInv, NEW w \in Threads, RespondCancel(w)
  PROVE  IInv'
<1>1. th[w].at = "cancel" /\ Free(Inv) /\ th[w].at \in Holding /\ Inside(w)
  BY Stays DEF RespondCancel, Holding
<1>2. CASE tsx[Inv].st = "open"
  <2>1. PICK d \in {dlg, Ended(dlg)} :
           (d = dlg \/ dlg.call) /\ Leave(w, d, None)
    BY <1>2 DEF RespondCancel
  <2>2. tsx' = [tsx EXCEPT ![Inv].st = "rejected"] /\ "rejected" \in TsxStates \ {"none"}
    BY <1>2 DEF RespondCancel, TsxStates
  <2>3. Consistent(w, d, tsx')
    BY <1>1, <1>2, <2>1, <2>2, Answered
  <2> QED BY <1>1, <2>1, <2>3, LeaveStep
<1>3. CASE tsx[Inv].st # "open"
  <2>1. tsx' = tsx /\ Leave(w, dlg, None)
    BY <1>3 DEF RespondCancel
  <2> QED BY <1>1, <2>1, GoesOut, LeaveStep
<1> QED BY <1>2, <1>3

(* So does the user's answer, once the INVITE's lock is free.              *)
LEMMA SendAnswerStep ==
  ASSUME IInv, NEW u \in Threads, SendAnswer(u)
  PROVE  IInv'
<1>1. /\ th[u].at = "answer" /\ Free(Inv) /\ th[u].at \in Holding /\ Inside(u) /\ dlg.call
  BY Stays DEF SendAnswer, Holding, IInv, Known
<1>2. CASE tsx[Inv].st = "open"
  <2>1. PICK d \in {dlg, Ended(dlg)}, s \in TsxStates \ {"none"} :
           tsx' = [tsx EXCEPT ![Inv].st = s] /\ Leave(u, d, None)
    BY <1>2 DEF SendAnswer, TsxStates
  <2>2. Consistent(u, d, tsx')
    BY <1>1, <1>2, <2>1, Answered
  <2> QED BY <1>1, <2>1, <2>2, LeaveStep
<1>3. CASE tsx[Inv].st # "open"
  <2>1. tsx' = tsx /\ Leave(u, dlg, None)
    BY <1>3 DEF SendAnswer
  <2> QED BY <1>1, <2>1, GoesOut, LeaveStep
<1> QED BY <1>2, <1>3

(* An ACK terminates the transaction: the race is lost if another thread   *)
(* has done so first.                                                      *)
LEMMA AckTerminateStep ==
  ASSUME IInv, NEW w \in Threads, AckTerminate(w)
  PROVE  IInv'
<1>1. /\ th[w].at = "ack" /\ Free(Inv) /\ th[w].at \in Holding /\ Inside(w)
      /\ tsx' = [tsx EXCEPT ![Inv].st = "terminated", ![Inv].att = FALSE]
  BY Stays DEF AckTerminate, Holding
<1>2. /\ tsx' \in [Tsxs -> Tsx] /\ tsx'[Inv].st = "terminated" /\ ~tsx'[Inv].att
      /\ \A t \in Tsxs : t # Inv => tsx'[t] = tsx[t]
  <2>1. PICK b \in BOOLEAN, s \in TsxStates :
           ~b /\ s = "terminated" /\ tsx' = [tsx EXCEPT ![Inv].st = s, ![Inv].att = b]
    BY <1>1 DEF TsxStates
  <2>2. tsx \in [Tsxs -> Tsx] /\ Inv \in Tsxs
    BY Where
  <2>3. PICK r \in Tsx : r.st = s /\ r.att = b /\ tsx' = [tsx EXCEPT ![Inv] = r]
    <3>1. PICK q \in Tsx : q = tsx[Inv]
      BY <2>2
    <3>2. [q EXCEPT !.st = s, !.att = b] \in Tsx
      BY DEF Tsx
    <3> QED BY <2>1, <2>2, <3>1, <3>2 DEF Tsx
  <2> QED BY <2>1, <2>2, <2>3
<1>3. Cardinality(Att(tsx')) = dlg.tsx - One(tsx[Inv].att)
  <2>1. dlg.tsx = Cardinality(Att(tsx)) /\ dlg.tsx \in Nat
    BY Where DEF IInv, CountsAccounted, Att, Dlgs
  <2>2. Cardinality(Att(tsx')) = Cardinality(Att(tsx)) + One(tsx'[Inv].att) - One(tsx[Inv].att)
    BY <1>2, Where, OneAttached
  <2> QED BY <1>2, <2>1, <2>2 DEF One
<1>4. PICK L \in SUBSET {"gap", "terminate"} :
         /\ Leave(w, [dlg EXCEPT !.tsx = Cardinality(Att(tsx')), !.lost = L], None)
         /\ L = {} => dlg.lost = {} /\ tsx[Inv].st = "accepted"
  <2> DEFINE c == IF tsx[Inv].att THEN [dlg EXCEPT !.tsx = @ - 1] ELSE dlg
  <2>1. dlg.lost \in SUBSET {"gap", "terminate"} /\ dlg \in Dlgs /\ dlg.tsx \in Nat
    BY Where DEF Dlgs
  <2>2. c = [dlg EXCEPT !.tsx = Cardinality(Att(tsx'))]
    BY <1>3, <2>1 DEF One, Dlgs
  <2>3. CASE tsx[Inv].st = "accepted"
    <3>1. Leave(w, c, None)
      BY <2>3 DEF AckTerminate
    <3>2. c = [dlg EXCEPT !.tsx = Cardinality(Att(tsx')), !.lost = dlg.lost]
      BY <2>1, <2>2 DEF Dlgs
    <3>3. Leave(w, [dlg EXCEPT !.tsx = Cardinality(Att(tsx')), !.lost = dlg.lost], None)
      BY <3>1, <3>2
    <3> HIDE DEF c
    <3> QED BY <2>1, <2>3, <3>3
  <2>4. CASE tsx[Inv].st # "accepted"
    <3>1. Leave(w, [c EXCEPT !.lost = @ \cup {"terminate"}], None)
      BY <2>4 DEF AckTerminate
    <3>2. [c EXCEPT !.lost = @ \cup {"terminate"}]
            = [dlg EXCEPT !.tsx = Cardinality(Att(tsx')), !.lost = dlg.lost \cup {"terminate"}]
      BY <2>1, <2>2 DEF Dlgs
    <3>3. Leave(w, [dlg EXCEPT !.tsx = Cardinality(Att(tsx')),
                               !.lost = dlg.lost \cup {"terminate"}], None)
      BY <3>1, <3>2
    <3>4. dlg.lost \cup {"terminate"} \in SUBSET {"gap", "terminate"}
      BY <2>1
    <3> HIDE DEF c
    <3> QED BY <3>3, <3>4
  <2> QED BY <2>3, <2>4
<1> DEFINE d == [dlg EXCEPT !.tsx = Cardinality(Att(tsx')), !.lost = L]
<1>5. /\ d \in Dlgs /\ d.sess = dlg.sess /\ d.tsx = Cardinality(Att(tsx')) /\ d.call = dlg.call
      /\ d.reg = dlg.reg /\ d.freed = dlg.freed /\ d.lost = L
  BY <1>4, Where, FiniteTsxs DEF Dlgs
<1>6. \A t \in Tsxs : /\ tsx'[t].st = "none" => ~tsx'[t].att
                      /\ tsx[t].st # "none" => tsx'[t].st # "none"
                      /\ tsx[t].st \in Done => tsx'[t].st \in Done
  BY <1>2 DEF IInv, Known, Done
<1>7. ASSUME L = {}
      PROVE  /\ dlg.lost = {} /\ ~dlg.freed /\ \A y \in Threads : th[y].at \notin Leaving
             /\ \A y \in Threads : th[y].at \in Watching
                  => tsx'[th[y].t].att /\ tsx'[th[y].t].st = tsx[th[y].t].st
  <2>1. dlg.lost = {} /\ tsx[Inv].st = "accepted"
    BY <1>4, <1>7
  <2>2. \A y \in Threads : th[y].at \in Watching => th[y].t # Inv
    BY <1>1, <2>1, Where, Untold DEF Done
  <2> QED BY <1>1, <1>2, <2>1, <2>2, Stays DEF IInv, Known, Watched
<1>8. Consistent(w, d, tsx')
  BY <1>1, <1>2, <1>5, <1>6, <1>7, Stays DEF Consistent
<1> QED BY <1>1, <1>4, <1>8, LeaveStep

-----------------------------------------------------------------------------
(* The users.                                                              *)

(* So does the user that comes to answer.                                  *)
LEMMA AnswerStep ==
  ASSUME IInv, NEW u \in Users, Answer(u)
  PROVE  IInv'
<1>1. /\ u \in Threads /\ th[u].at \in Outside /\ Free("dlg") /\ tsx' = tsx /\ dlg.call
      /\ Waits(u, Entered(dlg), "answer") /\ (dlg.lost = {} => ~dlg.freed)
  BY Where, Alive DEF Answer, Outside
<1>2. Inside(u) /\ Consistent(u, Entered(dlg), tsx') /\ Entered(dlg).call
  BY <1>1, Enters, Coming, Where
<1> QED BY <1>1, <1>2, WaitsStep DEF Holding

(* So does a request of the user, whose transaction may fail within the    *)
(* call.                                                                   *)
LEMMA SendStep ==
  ASSUME IInv, NEW u \in Users, Send(u)
  PROVE  IInv'
<1>1. PICK t \in Fresh :
         /\ th[u].at = "idle" /\ dlg.call /\ Free("dlg")
         /\ \/ /\ tsx' = [tsx EXCEPT ![t] = Client]
               /\ Leave(u, [Entered(dlg) EXCEPT !.tsx = @ + 1], None)
            \/ /\ tsx' = [tsx EXCEPT ![t].st = "terminated"]
               /\ Leave(u, Entered(dlg), None)
  BY DEF Send
<1>2. u \in Threads /\ th[u].at \in Outside /\ (dlg.lost = {} => ~dlg.freed)
  BY <1>1, Where, Alive DEF Outside
<1>3. CASE /\ tsx' = [tsx EXCEPT ![t] = Client]
           /\ Leave(u, [Entered(dlg) EXCEPT !.tsx = @ + 1], None)
  <2>1. Inside(u) /\ Consistent(u, [Entered(dlg) EXCEPT !.tsx = @ + 1], tsx')
    BY <1>1, <1>2, <1>3, Serves, Begins
  <2> QED BY <1>1, <1>2, <1>3, <2>1, LeaveStep
<1>4. CASE tsx' = [tsx EXCEPT ![t].st = "terminated"] /\ Leave(u, Entered(dlg), None)
  <2>1. tsx' \in [Tsxs -> Tsx]
    BY <1>4, Where DEF Tsx, TsxStates
  <2>2. \A s \in Tsxs : /\ tsx'[s].att <=> tsx[s].att
                        /\ tsx[s].st # "none" => tsx'[s] = tsx[s]
    BY <1>4, Where DEF Fresh, Tsx
  <2>3. Inside(u) /\ Consistent(u, Entered(dlg), tsx')
    BY <1>1, <1>2, <2>1, <2>2, Enters
  <2> QED BY <1>1, <1>2, <1>4, <2>3, LeaveStep
<1> QED BY <1>1, <1>3, <1>4

-----------------------------------------------------------------------------
(* The notification of a transaction.                                      *)

(* The dialog and the transactions after t was detached, if it had to be.  *)
LEMMA Detaches ==
  ASSUME IInv, NEW w \in Threads, th[w].at \in Watching, Free("dlg"), ~dlg.freed,
         NEW t \in Tsxs, t = th[w].t,
         NEW seen, seen = IF tsx[t].st = "terminated" THEN [tsx EXCEPT ![t].att = FALSE] ELSE tsx
  PROVE  /\ Inside(w) /\ Consistent(w, Detached(Entered(dlg), t), seen)
         /\ Detached(Entered(dlg), t).call = dlg.call
         /\ \A s \in Extra : tsx[s].st = "none" => seen[s] = tsx[s]
<1> DEFINE e == Entered(dlg)
           parts == tsx[t].st = "terminated" /\ tsx[t].att
<1>1. /\ seen \in [Tsxs -> Tsx] /\ (seen[t].att <=> tsx[t].att /\ tsx[t].st # "terminated")
      /\ seen[t].st = tsx[t].st
      /\ \A s \in Tsxs : s # t => seen[s] = tsx[s]
      /\ tsx[t].st # "terminated" => seen = tsx
  <2>1. tsx \in [Tsxs -> Tsx] /\ tsx[t] \in Tsx
    BY Where
  <2>2. CASE tsx[t].st = "terminated"
    <3>1. PICK b \in BOOLEAN : ~b /\ seen = [tsx EXCEPT ![t].att = b]
      BY <2>2
    <3>2. [tsx[t] EXCEPT !.att = b] \in Tsx /\ [tsx[t] EXCEPT !.att = b].st = tsx[t].st
          /\ [tsx[t] EXCEPT !.att = b].att = b
      BY <2>1 DEF Tsx
    <3> QED BY <2>1, <2>2, <3>1, <3>2
  <2>3. CASE tsx[t].st # "terminated"
    BY <2>1, <2>3
  <2> QED BY <2>2, <2>3
<1>2. dlg.tsx = Cardinality(Att(tsx)) /\ dlg.tsx \in Nat
  BY Where DEF IInv, CountsAccounted, Att, Dlgs
<1>3. Cardinality(Att(seen)) = dlg.tsx - One(parts)
  <2>1. Cardinality(Att(seen)) = Cardinality(Att(tsx)) + One(seen[t].att) - One(tsx[t].att)
    <3>1. \A s \in Tsxs : s # t => (seen[s].att <=> tsx[s].att)
      BY <1>1
    <3>2. ASSUME NEW f, NEW g, \A s \in Tsxs : s # t => (g[s].att <=> f[s].att)
          PROVE  Cardinality(Att(g)) = Cardinality(Att(f)) + One(g[t].att) - One(f[t].att)
      BY <3>2, OneAttached
    <3> QED BY <3>1, <3>2
  <2> QED BY <1>1, <1>2, <2>1 DEF One
<1>4. th[w].at \in Outside
  BY DEF Outside
<1>5. /\ Inside(w) /\ e \in Dlgs /\ e.sess = One(dlg.call) + 1 /\ e.tsx = dlg.tsx
      /\ e.call = dlg.call /\ e.reg = dlg.reg /\ e.freed = dlg.freed
      /\ e.lost = {} => dlg.lost = {} /\ \A y \in Threads : th[y].at \notin Leaving
  BY <1>4, Coming
<1>6. /\ Detached(e, t) \in Dlgs /\ Detached(e, t).sess = e.sess
      /\ Detached(e, t).tsx = Cardinality(Att(seen)) /\ Detached(e, t).call = e.call
      /\ Detached(e, t).reg = e.reg /\ Detached(e, t).freed = e.freed
      /\ Detached(e, t).lost = e.lost
  <2> HIDE DEF e
  <2>1. CASE parts
    <3>1. Cardinality(Att(seen)) = dlg.tsx - 1 /\ Cardinality(Att(seen)) \in Nat
      BY <1>3, <2>1, FiniteTsxs DEF One
    <3>2. PICK n \in Nat : n = Cardinality(Att(seen)) /\ Detached(e, t) = [e EXCEPT !.tsx = n]
      BY <1>5, <2>1, <3>1 DEF Detached
    <3> QED BY <1>5, <3>2 DEF Dlgs
  <2>2. CASE ~parts
    <3>1. Detached(e, t) = e
      BY <2>2 DEF Detached
    <3> QED BY <1>2, <1>3, <1>5, <2>2, <3>1 DEF One
  <2> QED BY <2>1, <2>2
<1>7. \A s \in Tsxs : /\ seen[s].st = "none" => ~seen[s].att
                      /\ tsx[s].st # "none" => seen[s].st # "none"
                      /\ tsx[s].st \in Done => seen[s].st \in Done
  BY <1>1 DEF IInv, Known
<1>8. ASSUME dlg.lost = {}, NEW y \in Threads, y # w, th[y].at \in Watching
      PROVE  seen[th[y].t].att /\ seen[th[y].t].st = tsx[th[y].t].st
  <2>1. th[y].t \in Tsxs /\ tsx[th[y].t].att
        /\ (th[y].t = t => tsx[t].st = "destroyed")
    BY <1>8 DEF IInv, Known, Watched
  <2> QED BY <1>1, <2>1
<1>9. \A s \in Extra : tsx[s].st = "none" => seen[s] = tsx[s]
  BY <1>1 DEF IInv, Known, Tsxs
<1>10. Consistent(w, Detached(e, t), seen)
  BY <1>1, <1>5, <1>6, <1>7, <1>8 DEF Consistent
<1> QED BY <1>5, <1>6, <1>9, <1>10

(* So does pjsip_dlg_on_tsx_state(), which may end the call, send a BYE,   *)
(* and detaches a transaction that is over.                                *)
LEMMA OnTsxStateStep ==
  ASSUME IInv, NEW w \in Threads, OnTsxState(w)
  PROVE  IInv'
<1> DEFINE t == th[w].t
           seen == IF tsx[t].st = "terminated" THEN [tsx EXCEPT ![t].att = FALSE] ELSE tsx
           d == Detached(Entered(dlg), t)
<1>1. th[w].at \in Watching /\ Free("dlg") /\ ~dlg.freed /\ t \in Tsxs
  BY DEF OnTsxState, Watching, IInv, Known
<1>2. PICK over \in BOOLEAN, B \in {{}} \cup {{b} : b \in Fresh} :
         /\ over => dlg.call
         /\ tsx' = [b \in Tsxs |-> IF b \in B THEN Client ELSE seen[b]]
         /\ LET n == [d EXCEPT !.tsx = @ + Cardinality(B)]
            IN  Leave(w, IF over THEN Ended(n) ELSE n, t)
  BY DEF OnTsxState
<1>3. PICK f, c : f = seen /\ c = d
  OBVIOUS
<1>4. /\ Inside(w) /\ Consistent(w, c, f) /\ c.call = dlg.call
      /\ \A s \in Extra : tsx[s].st = "none" => f[s] = tsx[s]
  BY <1>1, <1>3, Detaches
<1>5. c \in Dlgs /\ c.tsx \in Nat /\ f \in [Tsxs -> Tsx] /\ c.tsx = Cardinality(Att(f))
  BY <1>4 DEF Consistent, Dlgs
<1>6. /\ tsx' \in [Tsxs -> Tsx] /\ Cardinality(Att(tsx')) = c.tsx + Cardinality(B)
      /\ Cardinality(B) \in Nat
      /\ \A s \in Tsxs : /\ s \notin B => tsx'[s] = f[s]
                         /\ s \in B => tsx'[s] = Client /\ tsx[s].st = "none"
  <2>1. CASE B = {}
    <3>1. tsx' = f
      BY <1>2, <1>3, <1>5, <2>1
    <3>2. Cardinality(B) = 0
      BY <2>1, FS_EmptySet
    <3> QED BY <1>5, <2>1, <3>1, <3>2
  <2>2. ASSUME NEW b \in Fresh, B = {b}
        PROVE  /\ tsx' \in [Tsxs -> Tsx] /\ Cardinality(Att(tsx')) = c.tsx + Cardinality(B)
               /\ Cardinality(B) \in Nat
               /\ \A s \in Tsxs : /\ s \notin B => tsx'[s] = f[s]
                                  /\ s \in B => tsx'[s] = Client /\ tsx[s].st = "none"
    <3>1. b \in Tsxs /\ b \in Extra /\ tsx[b].st = "none"
      BY Where DEF Fresh
    <3>2. ~f[b].att
      BY <1>4, <3>1 DEF IInv, Known
    <3>3. tsx' = With(f, b, Client)
      BY <1>2, <1>3, <1>5, <2>2, <3>1 DEF With
    <3>4. Client \in Tsx /\ Client.att
      BY <2>2, Serves
    <3>5. With(f, b, Client) \in [Tsxs -> Tsx]
      BY <1>5, <2>2, <3>2, <3>4, Joined
    <3>6. Cardinality(Att(With(f, b, Client))) = Cardinality(Att(f)) + 1
      BY <1>5, <2>2, <3>2, <3>4, Joined
    <3>7. Cardinality(B) = 1
      BY <2>2, FS_Singleton
    <3>8. \A s \in Tsxs : /\ s \notin B => tsx'[s] = f[s]
                          /\ s \in B => tsx'[s] = Client /\ tsx[s].st = "none"
      BY <1>2, <1>3, <2>2, <3>1
    <3> QED BY <1>5, <3>3, <3>5, <3>6, <3>7, <3>8
  <2> QED BY <1>2, <2>1, <2>2
<1>7. PICK n \in Dlgs : /\ n = [c EXCEPT !.tsx = @ + Cardinality(B)]
                        /\ n.sess = c.sess /\ n.tsx = Cardinality(Att(tsx'))
                        /\ n.call = c.call /\ n.reg = c.reg /\ n.freed = c.freed
                        /\ n.lost = c.lost
  <2>1. PICK k \in Nat : /\ k = Cardinality(Att(tsx'))
                         /\ [c EXCEPT !.tsx = @ + Cardinality(B)] = [c EXCEPT !.tsx = k]
    BY <1>5, <1>6
  <2> QED BY <1>5, <2>1 DEF Dlgs
<1>8. \A s \in Tsxs : /\ tsx'[s].st = "none" => ~tsx'[s].att
                      /\ tsx[s].st # "none" => tsx'[s].st # "none"
                      /\ tsx[s].st \in Done => tsx'[s].st \in Done
  BY <1>4, <1>6 DEF Consistent, Client, Done
<1>9. ASSUME c.lost = {}, NEW y \in Threads, y # w, th[y].at \in Watching
      PROVE  tsx'[th[y].t].att /\ tsx'[th[y].t].st = tsx[th[y].t].st
  <2>1. th[y].t \in Tsxs /\ tsx[th[y].t].st # "none"
    BY <1>9 DEF IInv, Known
  <2> QED BY <1>4, <1>6, <1>9, <2>1 DEF Consistent
<1>10. Consistent(w, n, tsx')
  BY <1>4, <1>6, <1>7, <1>8, <1>9 DEF Consistent
<1>11. CASE ~over
  <2>1. Leave(w, n, t)
    BY <1>2, <1>3, <1>7, <1>11
  <2> QED BY <1>1, <1>4, <1>10, <2>1, LeaveStep DEF Watching
<1>12. CASE over
  <2>1. Leave(w, Ended(n), t) /\ n.call
    BY <1>2, <1>3, <1>4, <1>7, <1>12
  <2>2. Consistent(w, Ended(n), tsx')
    BY <1>10, <2>1, CallEnds DEF Consistent
  <2> QED BY <1>1, <1>4, <2>1, <2>2, LeaveStep DEF Watching
<1> QED BY <1>11, <1>12

-----------------------------------------------------------------------------
(* Responses and timers.                                                   *)

(* The state handler goes on with the transaction's lock in its hand, and  *)
(* a failure without: nobody else tells of the transaction, unless it is   *)
(* destroyed by now.                                                       *)
LEMMA EventStep ==
  ASSUME IInv, NEW w \in Workers, NEW t \in Tsxs, Event(w, t)
  PROVE  IInv'
<1>1. PICK s \in TsxStates :
         /\ s \in Onward(t) /\ tsx' = [tsx EXCEPT ![t].st = s]
  BY DEF Event, Onward, TsxStates
<1>2. /\ w \in Threads /\ th[w].at = "idle" /\ Free(t) /\ dlg' = dlg
      /\ s \notin {"none", "open", "rejected"} /\ tsx[t].st \notin {"none", "destroyed"}
      /\ tsx[t].st = "terminated" => s = "destroyed"
  BY <1>1, Where DEF Event, Onward
<1>3. /\ tsx' \in [Tsxs -> Tsx] /\ tsx'[t].st = s
      /\ \A u \in Tsxs : (tsx'[u].att <=> tsx[u].att) /\ (u # t => tsx'[u] = tsx[u])
  BY <1>1, Where DEF Tsx
<1>4. \A u \in Tsxs : /\ tsx'[u].st = "none" => ~tsx'[u].att
                      /\ tsx[u].st # "none" => tsx'[u].st # "none"
                      /\ tsx[u].st \in Done => tsx'[u].st \in Done
  BY <1>2, <1>3 DEF IInv, Known, Done
<1>5. \A y \in Threads : th[y].at \in Watching /\ th[y].t = t
                         => th[y].at = "report" /\ tsx[t].st \in Done /\ s = "destroyed"
  BY <1>2, Where DEF IInv, Locked, Known, Watching, Free, Done
<1>6. CASE tsx[t].att
  <2>1. /\ own' = [own EXCEPT ![t] = w] /\ th' = [th EXCEPT ![w] = [at |-> "event", t |-> t]]
    BY <1>6 DEF Event, Goes
  <2>2. /\ th'[w] = [at |-> "event", t |-> t] /\ \A y \in Threads : y # w => th'[y] = th[y]
        /\ own'[t] = w /\ \A l \in Locks : l # t => own'[l] = own[l]
    BY <1>2, <2>1, Where
  <2>3. TypeOK'
    BY <1>2, <1>3, <2>1, Where DEF TypeOK, Dlgs, Tsx, Points
  <2>4. CountsAccounted'
    <3>1. Holders' = Holders
      BY <1>2, <2>2 DEF Holders
    <3>2. {u \in Tsxs : tsx'[u].att} = {u \in Tsxs : tsx[u].att}
      BY <1>3
    <3> QED BY <1>2, <3>1, <3>2 DEF IInv, CountsAccounted
  <2>5. Locked'
    <3>1. \A y \in Threads : (own'["dlg"] = y <=> own["dlg"] = y) /\ (own'["ua"] = y <=> own["ua"] = y)
      BY <2>2, Where
    <3>2. \A y \in Threads : th[y].at = "event" => th[y].t # t
      BY <1>5, <2>2 DEF Watching
    <3> QED BY <1>2, <2>2, <3>1, <3>2, Where DEF IInv, Locked, Known, Holding, Watching
  <2>6. Known'
    BY <1>2, <1>3, <1>4, <2>2 DEF IInv, Known, Watching
  <2>7. Watched'
    <3>1. ASSUME dlg.lost = {}, NEW y \in Threads, th'[y].at \in Watching
          PROVE  tsx'[th'[y].t].att
      BY <1>3, <1>6, <2>2, <3>1 DEF IInv, Known, Watched
    <3>2. ASSUME dlg.lost = {}, NEW x \in Threads, NEW y \in Threads, x # y,
                 th'[x].at \in Watching, th'[y].at \in Watching, th'[x].t = th'[y].t
          PROVE  tsx'[th'[x].t].st = "destroyed"
      <4>1. CASE x # w /\ y # w
        <5>1. th[x].t \in Tsxs /\ tsx[th[x].t].st = "destroyed"
          BY <2>2, <3>2, <4>1 DEF IInv, Known, Watched
        <5>2. th[x].t # t
          BY <1>2, <5>1
        <5> QED BY <1>3, <2>2, <4>1, <5>1, <5>2
      <4>2. CASE x = w
        BY <1>3, <1>5, <2>2, <3>2, <4>2
      <4>3. CASE y = w
        BY <1>3, <1>5, <2>2, <3>2, <4>3
      <4> QED BY <4>1, <4>2, <4>3
    <3> QED BY <1>2, <3>1, <3>2 DEF Watched
  <2>8. Final'
    BY <1>2, <2>2 DEF IInv, Final, Leaving
  <2> QED BY <2>3, <2>4, <2>5, <2>6, <2>7, <2>8 DEF IInv
<1>7. CASE ~tsx[t].att
  <2>1. own' = own /\ th' = th
    BY <1>7 DEF Event
  <2>2. TypeOK'
    BY <1>2, <1>3, <2>1, Where DEF TypeOK, Dlgs, Tsx
  <2>3. CountsAccounted'
    <3>1. Holders' = Holders
      BY <2>1 DEF Holders
    <3>2. {u \in Tsxs : tsx'[u].att} = {u \in Tsxs : tsx[u].att}
      BY <1>3
    <3> QED BY <1>2, <3>1, <3>2 DEF IInv, CountsAccounted
  <2>4. Locked' /\ Final'
    BY <1>2, <2>1 DEF IInv, Locked, Final
  <2>6. Known'
    BY <1>2, <1>3, <1>4, <2>1 DEF IInv, Known, Watching
  <2>5. Watched'
    BY <1>2, <1>3, <1>5, <2>1 DEF IInv, Known, Watched
  <2> QED BY <2>2, <2>3, <2>4, <2>5, <2>6 DEF IInv
<1> QED BY <1>6, <1>7

(* So does a transport error, which ends a transaction and reports it      *)
(* after the lock was released.                                            *)
LEMMA TransportErrorStep ==
  ASSUME IInv, NEW w \in Workers, NEW t \in Tsxs, TransportError(w, t)
  PROVE  IInv'
<1>1. /\ w \in Threads /\ th[w].at = "idle" /\ Free(t) /\ dlg' = dlg /\ own' = own
      /\ tsx[t].st \notin Done \cup {"none"} /\ tsx' = [tsx EXCEPT ![t].st = "terminated"]
  BY Where DEF TransportError, Done
<1>2. /\ tsx' \in [Tsxs -> Tsx] /\ tsx'[t].st = "terminated"
      /\ \A u \in Tsxs : (tsx'[u].att <=> tsx[u].att) /\ (u # t => tsx'[u] = tsx[u])
  BY <1>1, Where DEF Tsx, TsxStates
<1>3. \A u \in Tsxs : /\ tsx'[u].st = "none" => ~tsx'[u].att
                      /\ tsx[u].st # "none" => tsx'[u].st # "none"
                      /\ tsx[u].st \in Done => tsx'[u].st \in Done
  BY <1>2 DEF IInv, Known, Done
<1>4. \A y \in Threads : th[y].at \in Watching => th[y].t # t
  BY <1>1, Untold
<1>5. PICK p \in [at : {"idle", "report"}, t : Tsxs \cup {None}] :
         /\ th' = [th EXCEPT ![w] = p]
         /\ p.at = "report" => p.t = t /\ tsx[t].att
  <2>1. CASE tsx[t].att
    <3>1. th' = [th EXCEPT ![w] = [at |-> "report", t |-> t]]
      BY <2>1 DEF TransportError, Goes
    <3>2. [at |-> "report", t |-> t] \in [at : {"idle", "report"}, t : Tsxs \cup {None}]
      OBVIOUS
    <3> QED BY <2>1, <3>1, <3>2
  <2>2. CASE ~tsx[t].att
    <3>1. th' = th
      BY <2>2 DEF TransportError
    <3>2. PICK p \in [at : Points, t : Tsxs \cup {None}] : p = th[w]
      BY <1>1, Where
    <3>3. p \in [at : {"idle", "report"}, t : Tsxs \cup {None}]
      BY <1>1, <3>2
    <3> QED BY <1>1, <3>1, <3>2, <3>3, Where
  <2> QED BY <2>1, <2>2
<1>6. th'[w] = p /\ \A y \in Threads : y # w => th'[y] = th[y]
  BY <1>1, <1>5, Where
<1>7. TypeOK'
  BY <1>1, <1>2, <1>5, Where DEF TypeOK, Dlgs, Tsx, Points
<1>8. CountsAccounted'
  <2>1. Holders' = Holders
    BY <1>1, <1>6 DEF Holders
  <2>2. {u \in Tsxs : tsx'[u].att} = {u \in Tsxs : tsx[u].att}
    BY <1>2
  <2> QED BY <1>1, <2>1, <2>2 DEF IInv, CountsAccounted
<1>9. Locked'
  BY <1>1, <1>6 DEF IInv, Locked, Holding
<1>10. Known' /\ Final'
  <2>1. Known'
    BY <1>1, <1>2, <1>3, <1>5, <1>6 DEF IInv, Known, Watching, Done
  <2>2. Final'
    BY <1>1, <1>6 DEF IInv, Final, Leaving
  <2> QED BY <2>1, <2>2
<1>11. Watched'
  <2>1. ASSUME dlg.lost = {}, NEW y \in Threads, th'[y].at \in Watching
        PROVE  tsx'[th'[y].t].att
    BY <1>2, <1>5, <1>6, <2>1 DEF IInv, Known, Watched, Watching
  <2>2. ASSUME dlg.lost = {}, NEW x \in Threads, NEW y \in Threads, x # y,
               th'[x].at \in Watching, th'[y].at \in Watching, th'[x].t = th'[y].t
        PROVE  tsx'[th'[x].t].st = "destroyed"
    <3>1. x # w /\ y # w
      BY <1>4, <1>5, <1>6, <2>2 DEF Watching
    <3>2. th[x].t \in Tsxs /\ tsx[th[x].t].st = "destroyed" /\ th[x].t # t
      BY <1>4, <1>6, <2>2, <3>1 DEF IInv, Known, Watched
    <3> QED BY <1>2, <1>6, <3>1, <3>2
  <2> QED BY <1>1, <2>1, <2>2 DEF Watched
<1> QED BY <1>7, <1>8, <1>9, <1>10, <1>11 DEF IInv

-----------------------------------------------------------------------------
(* The end of pjsip_dlg_dec_lock().                                        *)

(* So does the end of the gap in pjsip_dlg_dec_lock(): both counts are     *)
(* zero still, unless a race was lost.                                     *)
LEMMA RelockStep ==
  ASSUME IInv, NEW x \in Threads, Relock(x)
  PROVE  IInv'
<1>1. /\ th[x].at = "gap" /\ Free("dlg") /\ ~dlg.freed /\ dlg' = dlg /\ tsx' = tsx
      /\ own' = [own EXCEPT !["dlg"] = x]
  BY DEF Relock
<1>2. PICK at \in {"destroy", "failed"} :
         /\ th' = [th EXCEPT ![x] = [at |-> at, t |-> th[x].t]]
         /\ at = "failed" => dlg.sess # 0 \/ dlg.tsx # 0
  BY DEF Relock, Goes
<1>3. th[x].t \in Tsxs \cup {None}
  BY Where
<1>4. /\ th'[x] = [at |-> at, t |-> th[x].t] /\ \A y \in Threads : y # x => th'[y] = th[y]
      /\ own'["dlg"] = x /\ \A l \in Locks : l # "dlg" => own'[l] = own[l]
  BY <1>1, <1>2, Where
<1>5. TypeOK'
  <2>1. [at |-> at, t |-> th[x].t] \in [at : Points, t : Tsxs \cup {None}]
    BY <1>3 DEF Points
  <2>2. th' \in [Threads -> [at : Points, t : Tsxs \cup {None}]]
    BY <1>2, <2>1, Where
  <2> QED BY <1>1, <2>2, Where DEF TypeOK, Dlgs, Tsx
<1>6. CountsAccounted'
  <2>1. Holders' = Holders
    BY <1>1, <1>4 DEF Holders
  <2> QED BY <1>1, <2>1 DEF IInv, CountsAccounted
<1>7. \A y \in Threads : th[y].at \notin Holding \cup {"destroy", "failed"}
  BY <1>1, Where DEF IInv, Locked, Free
<1>8. Locked'
  <2>1. \A y \in Threads : own'["dlg"] = y <=> th'[y].at \in Holding \cup {"destroy", "failed"}
    BY <1>4, <1>7, Where
  <2>2. \A y \in Threads : own'["ua"] = y => th'[y].at = "find"
    BY <1>1, <1>4, Where DEF IInv, Locked
  <2>3. \A y \in Threads : th'[y].at = "event" => own'[th'[y].t] = y
    BY <1>4, Where DEF IInv, Locked, Known, Watching
  <2> QED BY <2>1, <2>2, <2>3 DEF Locked
<1>9. Known' /\ Watched'
  BY <1>1, <1>4 DEF IInv, Known, Watched, Watching
<1>10. Final'
  <2>1. dlg.lost = {} => dlg.sess = 0 /\ dlg.tsx = 0 /\ at = "destroy"
    BY <1>1, <1>2 DEF IInv, Final, Leaving
  <2>2. \A y \in Threads : th'[y].at \in Leaving => th[y].at \in Leaving
    BY <1>1, <1>4 DEF Leaving
  <2>3. dlg.lost = {} => \A y \in Threads : th'[y].at # "failed"
    BY <1>4, <1>7, <2>1
  <2> QED BY <1>1, <2>1, <2>2, <2>3 DEF IInv, Final
<1> QED BY <1>5, <1>6, <1>8, <1>9, <1>10 DEF IInv

(* So does the destruction by the one thread that came out of the gap.     *)
LEMMA DestroyStep ==
  ASSUME IInv, NEW x \in Threads, Destroy(x)
  PROVE  IInv'
<1>1. /\ th[x].at = "destroy" /\ tsx' = tsx
      /\ own' = [l \in Locks |-> IF own[l] = x THEN None ELSE own[l]]
      /\ th' = [th EXCEPT ![x] = Idle]
  BY DEF Destroy
<1>2. /\ dlg' \in Dlgs /\ dlg'.sess = dlg.sess /\ dlg'.tsx = dlg.tsx /\ dlg'.call = dlg.call
      /\ ~dlg'.reg /\ dlg'.freed /\ dlg'.lost = dlg.lost
  <2>1. dlg' = [dlg EXCEPT !.reg = FALSE, !.freed = TRUE]
    BY DEF Destroy
  <2>2. PICK b \in BOOLEAN, c \in BOOLEAN : ~b /\ c /\ dlg' = [dlg EXCEPT !.reg = b, !.freed = c]
    BY <2>1
  <2> QED BY <2>2, Where DEF Dlgs
<1>3. /\ th'[x] = Idle /\ Idle.at = "idle" /\ \A y \in Threads : y # x => th'[y] = th[y]
  BY <1>1, Where DEF Idle
<1>4. TypeOK'
  <2>1. own' \in [Locks -> Threads \cup {None}]
    BY <1>1, Where
  <2>2. th' \in [Threads -> [at : Points, t : Tsxs \cup {None}]]
    BY <1>1, Where DEF Idle, Points
  <2> QED BY <1>1, <1>2, <2>1, <2>2, Where DEF TypeOK, Dlgs, Tsx
<1>5. CountsAccounted'
  <2>1. Holders' = Holders
    BY <1>1, <1>3 DEF Holders
  <2> QED BY <1>1, <1>2, <2>1 DEF IInv, CountsAccounted
<1>6. own["dlg"] = x /\ \A y \in Threads : y # x => th[y].at \notin Holding \cup {"destroy", "failed"}
  BY <1>1 DEF IInv, Locked
<1>7. Locked'
  <2>1. \A y \in Threads : own'["dlg"] = y <=> th'[y].at \in Holding \cup {"destroy", "failed"}
    <3>1. own'["dlg"] = None
      BY <1>1, <1>6, Where
    <3> QED BY <1>3, <1>6, <3>1, Where DEF Holding
  <2>2. \A y \in Threads : own'["ua"] = y => th'[y].at = "find"
    BY <1>1, <1>3, Where DEF IInv, Locked
  <2>3. \A y \in Threads : th'[y].at = "event" => own'[th'[y].t] = y
    BY <1>1, <1>3, Where DEF IInv, Locked, Known, Watching
  <2> QED BY <2>1, <2>2, <2>3 DEF Locked
<1>8. Known' /\ Watched'
  BY <1>1, <1>2, <1>3 DEF IInv, Known, Watched, Watching
<1>9. Final'
  <2>1. ASSUME dlg.lost = {}
        PROVE  /\ dlg.sess = 0 /\ dlg.tsx = 0 /\ \A y \in Threads : th'[y].at \notin Leaving
               /\ \A y \in Threads : th'[y].at # "failed"
    BY <1>1, <1>3, <2>1 DEF IInv, Final, Leaving
  <2> QED BY <1>2, <2>1 DEF Final
<1> QED BY <1>4, <1>5, <1>7, <1>8, <1>9 DEF IInv

-----------------------------------------------------------------------------
(* The invariant holds in the initial states.                              *)
LEMMA Initially == Init => IInv
<1> SUFFICES ASSUME Init PROVE IInv
  OBVIOUS
<1>1. PICK r \in Roles :
         tsx = [t \in Tsxs |-> IF t = Inv
                               THEN [st |-> "open", att |-> TRUE, server |-> r = "server"]
                               ELSE [st |-> "none", att |-> FALSE, server |-> FALSE]]
  BY DEF Init
<1>2. /\ dlg.sess = 1 /\ dlg.tsx = 1 /\ dlg.call /\ dlg.reg /\ ~dlg.freed /\ dlg.lost = {}
      /\ own = [l \in Locks |-> None] /\ th = [x \in Threads |-> Idle] /\ Idle.at = "idle"
  BY DEF Init, Idle
<1>3. TypeOK
  <2>1. dlg \in [sess : Nat, tsx : Nat, call : BOOLEAN, reg : BOOLEAN, freed : BOOLEAN,
                 lost : SUBSET {"gap", "terminate"}]
    BY DEF Init
  <2>2. tsx \in [Tsxs -> [st : TsxStates, att : BOOLEAN, server : BOOLEAN]]
    BY <1>1 DEF TsxStates
  <2> QED BY <1>2, <2>1, <2>2 DEF TypeOK, Idle, Points
<1>4. CountsAccounted
  <2>1. Holders = {}
    BY <1>2 DEF Holders
  <2>2. {t \in Tsxs : tsx[t].att} = {Inv}
    BY <1>1 DEF Tsxs
  <2>3. Cardinality(Holders) = 0 /\ Cardinality({t \in Tsxs : tsx[t].att}) = 1
    BY <2>1, <2>2, FS_EmptySet, FS_Singleton
  <2> QED BY <1>2, <2>3 DEF CountsAccounted
<1>5. Locked
  BY <1>2, DialogAssumption DEF Locked, Locks, Tsxs, Threads, Holding
<1>6. Known /\ Watched /\ Final
  BY <1>1, <1>2 DEF Known, Watched, Final, Watching, Leaving
<1> QED BY <1>3, <1>4, <1>5, <1>6 DEF IInv

(* And every step keeps it.                                                *)
LEMMA Inductive == IInv /\ [Next]_vars => IInv'
<1> SUFFICES ASSUME IInv, [Next]_vars PROVE IInv'
  OBVIOUS
<1>1. ASSUME NEW w \in Workers, Work(w) PROVE IInv'
  BY <1>1, RequestStep, ByeStep, AckStep, CancelRequestStep, EventStep, TransportErrorStep
     DEF Work
<1>2. ASSUME NEW u \in Users, Answer(u) \/ Send(u) PROVE IInv'
  BY <1>2, AnswerStep, SendStep
<1>3. ASSUME NEW x \in Threads, GoesOn(x) PROVE IInv'
  BY <1>3, FindStep, RespondCancelStep, AckTerminateStep, OnTsxStateStep, RelockStep,
     DestroyStep, SendAnswerStep DEF GoesOn
<1>4. CASE UNCHANGED vars
  <2>1. Holders' = Holders
    BY <1>4 DEF vars, Holders
  <2> QED BY <1>4, <2>1 DEF vars, IInv, TypeOK, CountsAccounted, Locked, Known, Watched, Final
<1> QED BY <1>1, <1>2, <1>3, <1>4 DEF Next

-----------------------------------------------------------------------------
(* sess_count is the call and the threads between pjsip_dlg_inc_lock() and *)
(* pjsip_dlg_dec_lock(), tsx_count the transactions that have the dialog   *)
(* to notify, whoever ends, cancels or fails what.                         *)
THEOREM CountsCorrect == Spec => []CountsAccounted
<1>1. IInv => CountsAccounted
  BY DEF IInv
<1> QED BY <1>1, Initially, Inductive, PTL DEF Spec

(* The assertions of unregister_and_destroy_dialog() hold, and a dialog    *)
(* that was freed has nobody who waits for it and no transaction that      *)
(* would notify it, unless one of the two races was lost.                  *)
THEOREM FreedCorrect == Spec => []FreedUnwatched
<1>1. ASSUME IInv PROVE FreedUnwatched
  <2> SUFFICES ASSUME dlg.lost = {}
               PROVE  /\ \A x \in Threads : th[x].at # "failed"
                      /\ dlg.freed => /\ ~dlg.reg /\ \A t \in Tsxs : ~tsx[t].att
                                      /\ \A x \in Threads : th[x].at \in {"idle", "find"}
    BY DEF FreedUnwatched
  <2>1. \A x \in Threads : th[x].at # "failed"
    BY <1>1 DEF IInv, Final
  <2>2. ASSUME dlg.freed
        PROVE  /\ ~dlg.reg /\ \A t \in Tsxs : ~tsx[t].att
               /\ \A x \in Threads : th[x].at \in {"idle", "find"}
    <3>1. ~dlg.reg /\ \A x \in Threads : th[x].at \notin Leaving
      BY <1>1, <2>2 DEF IInv, Final
    <3>2. Holders = {} /\ \A t \in Tsxs : ~tsx[t].att
      BY <1>1, <2>2, Alive
    <3>3. \A x \in Threads : th[x].at \notin Watching
      BY <1>1, <3>2 DEF IInv, Known, Watched
    <3>4. \A x \in Threads : th[x].at \notin Holding
      BY <3>2 DEF Holders, Holding
    <3> QED BY <1>1, <2>1, <3>1, <3>2, <3>3, <3>4, Where
            DEF Points, Leaving, Watching, Holding
  <2> QED BY <2>1, <2>2
<1> QED BY <1>1, Initially, Inductive, PTL DEF Spec

(* Threads that wait for each other in a circle have among them one that   *)
(* waits for the INVITE's lock with another in its hand: the order of the  *)
(* user agent's, the dialog's and the transactions' locks keeps all others *)
(* from a deadlock, however many they are.                                 *)
THEOREM LocksOrdered == Spec => []NoCircularWait
<1>1. ASSUME IInv PROVE NoCircularWait
  <2> SUFFICES ASSUME NEW S \in SUBSET Threads, Stuck(S),
                      \A x \in S : th[x].at \notin {"find", "cancel", "ack", "answer"}
               PROVE  FALSE
    BY DEF NoCircularWait
  <2>1. \A x \in S : \E l \in Wanted(x) : own[l] \in S
    BY DEF Stuck
  <2>2. ASSUME NEW x \in S, th[x].at = "destroy" PROVE FALSE
    <3>1. own["ua"] \in S
      BY <2>1, <2>2 DEF Wanted
    <3> QED BY <1>1, <3>1 DEF IInv, Locked
  <2>3. PICK x \in S : TRUE
    BY DEF Stuck
  <2>4. th[x].at \in {"event", "report", "gap"}
    BY <2>1, <2>2 DEF Wanted
  <2>5. own["dlg"] \in S
    BY <2>1, <2>4 DEF Wanted
  <2>6. PICK y \in S : th[y].at \in Holding \cup {"destroy", "failed"}
    BY <1>1, <2>5 DEF IInv, Locked
  <2>7. th[y].at = "failed"
    BY <2>2, <2>6 DEF Holding
  <2> QED BY <2>1, <2>7 DEF Wanted
<1> QED BY <1>1, Initially, Inductive, PTL DEF Spec
=============================================================================
