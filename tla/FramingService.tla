--------------------------- MODULE FramingService ---------------------------
(***************************************************************************)
(* What the DUT server promises a client, without sockets, reads or a     *)
(* buffer: every connection carries a sequence of whole messages, and     *)
(* while it stays open they are served one by one, in the order written,  *)
(* each as what the message means (a request, or a dropped invalid frame) *)
(* with one of the answers that meaning allows.  A connection may be      *)
(* closed at any time, and nothing more happens on it afterwards.         *)
(***************************************************************************)
EXTENDS Naturals, Sequences

CONSTANTS
    Conns,        \* connections
    Messages,     \* messages a client may write
    Meaning(_),   \* what the server must make of a message
    Answers(_)    \* the responses a meaning allows (<< >>: none written)

VARIABLES
    sent,         \* per connection, the messages written
    served,       \* per connection, [req, resp] for each message served
    closed        \* per connection, whether it has been closed

vars == << sent, served, closed >>

Init ==
    /\ sent = [c \in Conns |-> << >>]
    /\ served = [c \in Conns |-> << >>]
    /\ closed = [c \in Conns |-> FALSE]

Send(c, m) ==
    /\ ~closed[c]
    /\ sent' = [sent EXCEPT ![c] = Append(@, m)]
    /\ UNCHANGED << served, closed >>

\* The oldest message not yet served is served.
Serve(c) ==
    /\ ~closed[c]
    /\ Len(served[c]) < Len(sent[c])
    /\ LET req == Meaning(sent[c][Len(served[c]) + 1])
       IN \E resp \in Answers(req) :
            served' = [served EXCEPT ![c] = Append(@, [req |-> req, resp |-> resp])]
    /\ UNCHANGED << sent, closed >>

\* Some connections are closed at once (a process exit closes them all).
Close(S) ==
    /\ closed' = [c \in Conns |-> closed[c] \/ c \in S]
    /\ UNCHANGED << sent, served >>

Next ==
    \/ \E c \in Conns, m \in Messages : Send(c, m)
    \/ \E c \in Conns : Serve(c)
    \/ \E S \in SUBSET Conns : Close(S)

\* A message written on a connection that stays open is served.
Spec == Init /\ [][Next]_vars /\ \A c \in Conns : WF_vars(Serve(c))

=============================================================================
