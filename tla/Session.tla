------------------------------- MODULE Session -------------------------------
(***************************************************************************)
(* What a worker promises a client that waits for each reply before it     *)
(* sends the next command: every reply it gets is the reply to its own     *)
(* oldest unanswered command, until the worker closes the connection.      *)
(***************************************************************************)
EXTENDS Naturals, Sequences

CONSTANTS Client

VARIABLES conn,     \* "new", "open", "parked" or "gone"
          sent,     \* commands the client has sent
          got       \* replies it has received: <<client, command number>>
vars == <<conn, sent, got>>

Init ==
    /\ conn = [c \in Client |-> "new"]
    /\ sent = [c \in Client |-> 0]
    /\ got  = [c \in Client |-> <<>>]

Connect(c) ==
    /\ conn[c] = "new"
    /\ \E s \in {"open", "parked"} : conn' = [conn EXCEPT ![c] = s]
    /\ UNCHANGED <<sent, got>>

Send(c) ==
    /\ conn[c] \in {"open", "parked"}
    /\ sent' = [sent EXCEPT ![c] = @ + 1]
    /\ UNCHANGED <<conn, got>>

Answer(c) ==
    /\ conn[c] = "open"
    /\ Len(got[c]) < sent[c]
    /\ got' = [got EXCEPT ![c] = Append(@, <<c, Len(@) + 1>>)]
    /\ conn' \in {conn, [conn EXCEPT ![c] = "gone"]}
    /\ UNCHANGED sent

Close(c) ==
    /\ conn[c] = "open"
    /\ conn' = [conn EXCEPT ![c] = "gone"]
    /\ UNCHANGED <<sent, got>>

Next == \E c \in Client : Connect(c) \/ Send(c) \/ Answer(c) \/ Close(c)

Spec == Init /\ [][Next]_vars
=============================================================================
