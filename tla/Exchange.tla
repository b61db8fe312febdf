------------------------------- MODULE Exchange -------------------------------
(***************************************************************************)
(* What a node and the server promise each other on top of a byte stream:  *)
(* requests are acted on one at a time, in order and at most once, each    *)
(* gives one answer, and answers and notices reach the node in order.  A   *)
(* message may only be lost while the stream of its direction is torn.     *)
(* MessageStream is shown to implement this.                               *)
(***************************************************************************)
EXTENDS Sequences

CONSTANTS Requests,   \* kinds of messages of the node
          AnswerTo    \* AnswerTo[r]: the answer to a request of kind r

VARIABLES reqs,       \* requests the server has not come to
          answers,    \* answers and notices the node has not come to
          got,        \* what the node last received since its last request
          torn        \* the directions, "up" and "down", that may lose messages

vars == <<reqs, answers, got, torn>>

\* A conversation begins with one request.
Init == reqs \in {<<r>> : r \in Requests} /\ answers = <<>> /\ got = "nothing" /\ torn \subseteq {"up", "down"}

\* The node sends a request.
Request(r) ==
  /\ reqs' = Append(reqs, r)
  /\ got' = "nothing"
  /\ UNCHANGED answers

\* The server acts on the next request and answers it.
Serve ==
  /\ reqs # <<>>
  /\ reqs' = Tail(reqs)
  /\ answers' = Append(answers, AnswerTo[Head(reqs)])
  /\ UNCHANGED got

\* The server asks the node to close.
Notify == answers' = Append(answers, "REQ_CLOSE_NODE") /\ UNCHANGED <<reqs, got>>

\* The node comes to the next message; zeros mean nothing to it.
Receive ==
  /\ answers # <<>>
  /\ answers' = Tail(answers)
  /\ got' = IF Head(answers) = "ZEROS" THEN got ELSE Head(answers)
  /\ UNCHANGED reqs

\* The server misreads: it may pass over a request, and it may send zeros.
Misread ==
  /\ "up" \in torn
  /\ reqs' \in {reqs} \cup (IF reqs # <<>> THEN {Tail(reqs)} ELSE {})
  /\ answers' \in {answers, Append(answers, "ZEROS")}
  /\ UNCHANGED got

\* The node misreads: it passes over a message.
Miss ==
  /\ "down" \in torn /\ answers # <<>>
  /\ answers' = Tail(answers)
  /\ UNCHANGED <<reqs, got>>

\* The node begins anew on another connection.
Replace ==
  /\ reqs' \in {<<r, s>> : r, s \in Requests}
  /\ answers' = <<>>
  /\ got' = "nothing"

\* Once the node has been told to close, nothing reaches it any more.
Next ==
  /\ \/ Serve \/ Notify \/ Misread
     \/ got # "REQ_CLOSE_NODE" /\ (Receive \/ Miss \/ Replace \/ \E r \in Requests : Request(r))
     \/ UNCHANGED <<reqs, answers, got>>
  /\ torn' \subseteq {"up", "down"}

Spec == Init /\ [][Next]_vars
=============================================================================
