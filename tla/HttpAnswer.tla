----------------------------- MODULE HttpAnswer -----------------------------
(***************************************************************************)
(* What the HTTP clients of the search, Prometheus and RabbitMQ management *)
(* adapters make of an answer.  A connection serves one request; the       *)
(* server closes it behind its answer, or earlier, wherever it likes.      *)
(*                                                                         *)
(* Content-Length is held against the limit and never against the bytes    *)
(* that have arrived: only chunks and JSON tell that something is missing. *)
(* Pieces are measured one by one as they come and all together in the end;*)
(* what a check of one piece refuses the last check refuses as well, so    *)
(* that the last one stands for all.                                       *)
(***************************************************************************)
EXTENDS Naturals

CONSTANTS
  HeadLimit,  \* MAX_HTTP_RESPONSE_HEADER_BYTES
  BodyLimit   \* MAX_HTTP_RESPONSE_BODY_BYTES, MAX_HTTP_RESPONSE_BYTES

ASSUME HttpAssumption == HeadLimit \in Nat \ {0} /\ BodyLimit \in Nat

Clients == {"search", "prometheus", "management"}

\* A reply: the bytes of its head and of the value it carries; whether its length is
\* declared; in how many chunks it comes, 0 without that encoding.  Servers answer
\* with an error instead of what they were asked for.
Replies(status, bytes) ==
  [status : {status, 500}, head : {1, HeadLimit + 1}, bytes : {bytes},
   declared : BOOLEAN, chunks : 0..2]

\* decode_chunked_body: every chunk and the mark behind the last have a frame.
Framing(reply) == IF reply.chunks = 0 THEN 0 ELSE reply.chunks + 1
Sent(reply)    == reply.head + reply.bytes + Framing(reply)
\* A chunk that is not complete is an error, whatever the status is.
CutOff(reply, arrived) == reply.chunks > 0 /\ arrived < Sent(reply)

\* read_bounded_http_response: the body is measured with its frames.
SearchTakes(limit, reply, arrived) ==
  /\ reply.head <= HeadLimit /\ arrived - reply.head <= limit
  /\ reply.declared => reply.bytes <= limit
PrometheusTakes(reply, arrived) == SearchTakes(BodyLimit, reply, arrived)
\* The complete answer is limited, and declared lengths are not looked at.
ManagementTakes(arrived) == arrived <= BodyLimit

\* parse_http_response and parse_http_json: what a client has when the connection
\* ends behind the byte `arrived`.
Understood(client, limit, reply, arrived) ==
  IF \/ arrived < reply.head \/ CutOff(reply, arrived)
     \/ client = "search" /\ ~SearchTakes(limit, reply, arrived)
     \/ client = "prometheus" /\ ~PrometheusTakes(reply, arrived)
     \/ client = "management" /\ ~ManagementTakes(arrived)
  THEN "failed"
  ELSE IF reply.status = 404 THEN "absent"
  ELSE IF reply.status >= 300 THEN "refused"
  ELSE IF arrived = reply.head \/ reply.bytes = 0 THEN "empty"
  ELSE IF arrived < Sent(reply) THEN "failed" ELSE "whole"

\* All a request for a value of this size can end in.
Answers(client, limit, status, bytes) ==
  UNION {{Understood(client, limit, reply, arrived) : arrived \in 0..Sent(reply)} :
           reply \in Replies(status, bytes)}

\* An empty body is an empty object to search and Prometheus, which has none of the
\* members every reader asks for; management refuses it.
Value(answer) == answer = "whole"

\* success_json with allow_empty: the deletion of a queue needs no value.
Success(answer) == answer \in {"whole", "empty"}
=============================================================================
