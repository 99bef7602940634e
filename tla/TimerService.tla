----------------------------- MODULE TimerService -----------------------------
(***************************************************************************)
(* What a timer heap promises: an entry is pending from the moment it is   *)
(* scheduled until it is cancelled or handed to a poll, and a poll takes   *)
(* the entry with the earliest time, when that time has come.              *)
(***************************************************************************)
EXTENDS Naturals, Functions

CONSTANTS Entries, Pollers, MaxTime

VARIABLES now,       \* the clock
          pending,   \* the pending entries with their times
          running    \* the entries whose callbacks each poll is running

service == <<now, pending, running>>

Earliest(e) == \A o \in DOMAIN pending : pending[e] <= pending[o]

Init == now = 0 /\ pending = << >> /\ running = [w \in Pollers |-> {}]

Tick == now < MaxTime /\ now' = now + 1 /\ UNCHANGED <<pending, running>>

(* An entry is scheduled at most once at a time.                           *)
Set(e) == /\ e \notin DOMAIN pending
          /\ \E t \in 0 .. MaxTime :
               pending' = [o \in DOMAIN pending \cup {e} |->
                             IF o = e THEN t ELSE pending[o]]
          /\ UNCHANGED <<now, running>>

Remove(e) == pending' = Restrict(pending, DOMAIN pending \ {e}) /\ UNCHANGED now

Cancel(e) == e \in DOMAIN pending /\ Remove(e) /\ UNCHANGED running

Take(w, e) == /\ e \in DOMAIN pending
              /\ Earliest(e) /\ pending[e] <= now
              /\ Remove(e)
              /\ running' = [running EXCEPT ![w] = {e}]

Return(w) == /\ running[w] # {}
             /\ running' = [running EXCEPT ![w] = {}]
             /\ UNCHANGED <<now, pending>>

Next == \/ Tick
        \/ \E e \in Entries : Set(e) \/ Cancel(e)
        \/ \E w \in Pollers : Return(w) \/ \E e \in Entries : Take(w, e)

Spec == Init /\ [][Next]_service
=============================================================================
