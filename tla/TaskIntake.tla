----------------------------- MODULE TaskIntake -----------------------------
(***************************************************************************)
(* What the gateway promises to the platforms, without goroutines, locks,  *)
(* timers or runtimes: every chat (route) is a serial FIFO executor, and a *)
(* message is accepted at most once for as long as it is remembered.       *)
(*                                                                         *)
(*   - Accept appends a message to its route's queue and remembers it; a   *)
(*     remembered message is never accepted again;                         *)
(*   - one task of a route runs at a time, in the order of acceptance;     *)
(*   - an accepted task is discarded only once the gateway is closed;      *)
(*   - while the gateway stays open every accepted task is started.        *)
(*                                                                         *)
(* Gateway.tla implements this specification (see Gateway!Intake).         *)
(***************************************************************************)
EXTENDS Naturals, Sequences

CONSTANTS Messages,   \* inbound messages, identified by their dedup key
          Routes,     \* canonical conversation keys
          RouteOf,    \* [Messages -> Routes]
          Capacity,   \* accepted tasks that may wait on one route
          NoTask      \* "no task runs": a value that is not a message

VARIABLES pending,    \* [Routes -> Seq(Messages)]: accepted, not yet started
          current,    \* [Routes -> Messages or NoTask]: the running task
          remembered, \* messages that will not be accepted again
          open        \* new work is admitted

vars == <<pending, current, remembered, open>>

Init == /\ pending = [r \in Routes |-> <<>>]
        /\ current = [r \in Routes |-> NoTask]
        /\ remembered = {}
        /\ open = TRUE

\* Remembering m may push older messages out of the bounded memory.
Remember(m) ==
    /\ m \notin remembered
    /\ \E kept \in SUBSET remembered : remembered' = kept \cup {m}

Accept(m) ==
    LET r == RouteOf[m] IN
    /\ open
    /\ Len(pending[r]) < Capacity
    /\ m \notin remembered
    /\ remembered' = remembered \cup {m}
    /\ pending' = [pending EXCEPT ![r] = Append(@, m)]
    /\ UNCHANGED <<current, open>>

\* A control reply is consumed on the spot and never becomes a task.
Consume(m) == open /\ Remember(m) /\ UNCHANGED <<pending, current, open>>

Start(r) == /\ current[r] = NoTask
            /\ pending[r] # <<>>
            /\ current' = [current EXCEPT ![r] = Head(pending[r])]
            /\ pending' = [pending EXCEPT ![r] = Tail(@)]
            /\ UNCHANGED <<remembered, open>>

Finish(r) == /\ current[r] # NoTask
             /\ current' = [current EXCEPT ![r] = NoTask]
             /\ UNCHANGED <<pending, remembered, open>>

\* The memory is bounded in time and in size.
Forget == /\ \E kept \in SUBSET remembered : remembered' = kept
          /\ UNCHANGED <<pending, current, open>>

Close == open /\ open' = FALSE /\ UNCHANGED <<pending, current, remembered>>

Discard(r) == /\ ~open
              /\ pending' = [pending EXCEPT ![r] = <<>>]
              /\ UNCHANGED <<current, remembered, open>>

Next == \/ \E m \in Messages : Accept(m) \/ Consume(m)
        \/ \E r \in Routes : Start(r) \/ Finish(r) \/ Discard(r)
        \/ Forget
        \/ Close

SafeSpec == Init /\ [][Next]_vars

\* An open gateway leaves no accepted task waiting for ever, provided tasks end.
Spec == SafeSpec /\ \A r \in Routes : /\ WF_vars(Start(r) /\ open)
                                      /\ WF_vars(Finish(r))
=============================================================================
