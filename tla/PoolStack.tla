------------------------------ MODULE PoolStack ------------------------------
(***************************************************************************)
(* What the pool promises its callers while no connection fails: a stack   *)
(* of idle connections, of which the first MinNum requests are served, and *)
(* then new connections until MaxNum requests have been granted.  No       *)
(* pointers: PoolUse implements this with the `next' fields.               *)
(***************************************************************************)
EXTENDS Integers, Sequences

CONSTANTS MinNum, MaxNum, Redis, NULL, Owner

VARIABLES idle,     \* the idle connections, most recently returned first
          held,     \* the connection each caller holds
          granted   \* requests granted since the start
vars == <<idle, held, granted>>

Leased == {held[o] : o \in Owner} \ {NULL}

Init ==
    /\ idle = [i \in 1 .. MinNum |-> i]
    /\ held = [o \in Owner |-> NULL]
    /\ granted = 0

TakeIdle(o) ==
    /\ granted < MinNum
    /\ idle # <<>>
    /\ held' = [held EXCEPT ![o] = Head(idle)]
    /\ idle' = Tail(idle)

OpenNew(o) ==
    /\ granted >= MinNum
    /\ granted < MaxNum
    /\ \E r \in Redis \ (Leased \cup {idle[i] : i \in DOMAIN idle}) :
           held' = [held EXCEPT ![o] = r]
    /\ UNCHANGED idle

Take(o) ==
    /\ held[o] = NULL
    /\ TakeIdle(o) \/ OpenNew(o)
    /\ granted' = granted + 1

GiveBack(o) ==
    /\ held[o] # NULL
    /\ idle' = <<held[o]>> \o idle
    /\ held' = [held EXCEPT ![o] = NULL]
    /\ UNCHANGED granted

Close == idle' = <<>> /\ UNCHANGED <<held, granted>>

Next == (\E o \in Owner : Take(o) \/ GiveBack(o)) \/ Close

Spec == Init /\ [][Next]_vars
=============================================================================
