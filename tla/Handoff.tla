------------------------------- MODULE Handoff -------------------------------
(***************************************************************************)
(* What the worker pool promises to the listener, with none of its         *)
(* machinery: a connection offered to a worker joins the end of that       *)
(* worker's line, and each worker serves its line in order, every          *)
(* connection once.  WorkerPool is shown to implement this.                *)
(***************************************************************************)
EXTENDS Sequences

CONSTANTS Conns,     \* connections the listener may accept
          Workers    \* worker threads

VARIABLES line,      \* line[w]: connections offered to w and not served yet
          outcome    \* outcome[c]: what became of connection c so far

vars == <<line, outcome>>

Outcomes == {"fresh", "dispatched", "open", "deleted"}

TypeOK ==
  /\ line \in [Workers -> Seq(Conns)]
  /\ outcome \in [Conns -> Outcomes]

Init ==
  /\ line = [w \in Workers |-> <<>>]
  /\ outcome = [c \in Conns |-> "fresh"]

\* A connection is offered to some worker, once in its life.
Offer(c, w) ==
  /\ outcome[c] = "fresh"
  /\ outcome' = [outcome EXCEPT ![c] = "dispatched"]
  /\ line' = [line EXCEPT ![w] = Append(@, c)]

\* A worker serves the connection at the head of its line: the session opens,
\* or it cannot be opened and the connection object is deleted.
Serve(w) ==
  /\ line[w] # <<>>
  /\ \E o \in {"open", "deleted"} : outcome' = [outcome EXCEPT ![Head(line[w])] = o]
  /\ line' = [line EXCEPT ![w] = Tail(@)]

Next ==
  \/ \E c \in Conns, w \in Workers : Offer(c, w)
  \/ \E w \in Workers : Serve(w)

Spec == Init /\ [][Next]_vars
=============================================================================
