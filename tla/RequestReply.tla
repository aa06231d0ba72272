---------------------------- MODULE RequestReply ----------------------------
(***************************************************************************)
(* What both ends of \\.\pipe\OpenWinBlue-ipc promise each other: on a     *)
(* session one request is under way at a time, the next message that comes *)
(* back answers it, and a session that is lost takes its request with it.  *)
(*                                                                         *)
(* IpcServer implements this module with any client, and IpcClient with    *)
(* any server.                                                             *)
(***************************************************************************)
CONSTANTS Requests, ReplyTo(_), None

VARIABLES
  up,       \* a session is open at both ends
  request,  \* the request the client has begun to send, or None
  reply     \* the whole reply that waits for the client, or None

vars == <<up, request, reply>>

Init == up = FALSE /\ request = None /\ reply = None

Connect == ~up /\ up' = TRUE /\ UNCHANGED <<request, reply>>

Ask ==
  /\ up /\ request = None
  /\ request' \in Requests
  /\ UNCHANGED <<up, reply>>

Answer ==
  /\ up /\ request # None /\ reply = None
  /\ reply' = ReplyTo(request)
  /\ UNCHANGED <<up, request>>

Receive ==
  /\ reply # None
  /\ request' = None /\ reply' = None
  /\ UNCHANGED up

\* Either end closes, or the server is stopped.
Lose == up /\ up' = FALSE /\ request' = None /\ reply' = None

Next == Connect \/ Ask \/ Answer \/ Receive \/ Lose

Spec == Init /\ [][Next]_vars

\* Nobody waits for ever: a request is answered, or its session is lost.
FairSpec == Spec /\ WF_vars(Answer \/ Receive \/ (request # None /\ Lose))
=============================================================================
