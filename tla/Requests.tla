------------------------------ MODULE Requests ------------------------------
(***************************************************************************)
(* What BRPeer promises to whoever gives it a completion callback with a   *)
(* request: it is called exactly once, with success or failure, at the end *)
(* of the connection at the latest.  Which message answers it, whether a   *)
(* ping stands in for a request that took too long, and which of the       *)
(* thread's statements has been reached does not matter here.              *)
(***************************************************************************)
EXTENDS Naturals

CONSTANT Callbacks

VARIABLES
    phase,      \* of the connection: "open", "ending", "closed"
    waiting,    \* the callbacks that it owes a call
    answers     \* how often each callback was called

vars == <<phase, waiting, answers>>

Init ==
    /\ phase = "open"
    /\ waiting = {}
    /\ answers = [c \in Callbacks |-> 0]

Unused == {c \in Callbacks \ waiting : answers[c] = 0}

\* The peer takes on a request,
Request(c) ==
    /\ phase # "closed"
    /\ c \in Unused
    /\ waiting' = waiting \cup {c}
    /\ UNCHANGED <<phase, answers>>

\* or refuses it at once: its callback is told so.
Refuse(c) ==
    /\ phase # "closed"
    /\ c \in Unused
    /\ answers' = [answers EXCEPT ![c] = 1]
    /\ UNCHANGED <<phase, waiting>>

\* A callback is called; it may make another request before it returns.
Answer(c, following) ==
    /\ phase # "closed"
    /\ c \in waiting
    /\ answers' = [answers EXCEPT ![c] = @ + 1]
    /\ waiting' = (waiting \ {c}) \cup following
    /\ UNCHANGED phase

AnswerOne ==
    \E c \in Callbacks, following \in {{}} \cup {{d} : d \in Unused} : Answer(c, following)

\* The connection ends: nothing may be left waiting.
End ==
    /\ phase = "open"
    /\ phase' = "ending"
    /\ UNCHANGED <<waiting, answers>>

Close ==
    /\ phase = "ending"
    /\ waiting = {}
    /\ phase' = "closed"
    /\ UNCHANGED <<waiting, answers>>

Next ==
    \/ \E c \in Callbacks : Request(c) \/ Refuse(c)
    \/ AnswerOne \/ End \/ Close

SafeSpec == Init /\ [][Next]_vars

\* A connection that ends goes on to answer what waits, and closes.
Spec == SafeSpec /\ WF_vars(phase = "ending" /\ (AnswerOne \/ Close))

=============================================================================
