------------------------------- MODULE KvLink -------------------------------
(***************************************************************************)
(* The channel from one server of the key-value store to another: what the *)
(* coordinator sends on it, its introduction after each connect, and the   *)
(* handler of the accepting side, which expects the introduction first.    *)
(* Other messages are the numbers of the requests they belong to; the      *)
(* hinted writes that may follow an introduction are left out.             *)
(***************************************************************************)
EXTENDS KvChannel

CONSTANT MaxRequests   \* bound: requests that are passed on to the peer

Introduction == 0

VARIABLES
  requests,  \* counted for their bound
  heard,     \* the introduction was received on the present connection
  thrown     \* the peer's handler threw: its process has ended

link == <<requests, heard, thrown>>
vars == <<channel, link>>

\* initialize_outgoing has called connect_cb; clients are accepted from now on.
Init ==
  /\ ChannelInit
  /\ requests = 0
  /\ heard = FALSE
  /\ thrown = FALSE

\* handle_put or handle_get: a message to every channel, connected or not.
Request ==
  /\ ~undefined
  /\ requests < MaxRequests
  /\ requests' = requests + 1
  /\ send_msg(requests + 1)
  /\ UNCHANGED <<socket, hook, m_mq, write, read, ready, timer, callbacks, wire, sent,
                 incoming, faults, undefined, late, heard, thrown>>

\* recon_handler: the handler of the first connect and of every other one.
recon_handler ==
  /\ ~undefined
  /\ callbacks # <<>>
  /\ callbacks' = Tail(callbacks)
  /\ send_msg(Introduction)
  /\ UNCHANGED <<socket, hook, m_mq, write, read, ready, timer, wire, sent, incoming,
                 faults, undefined, late, link>>

\* The peer's unintroduced_msg_handler until the introduction has come, and its
\* server_msg_handler afterwards.
PeerHandles ==
  /\ socket = "open"
  /\ ~thrown
  /\ wire # <<>>
  /\ wire' = Tail(wire)
  /\ thrown' = (heard = (Head(wire) = Introduction))
  /\ heard' = (heard \/ Head(wire) = Introduction)
  /\ UNCHANGED <<socket, hook, m_mq, posted, write, read, ready, timer, callbacks, sent,
                 incoming, faults, undefined, late, requests>>

\* do_accept makes a channel with the unintroduced_msg_handler.
Accepted == Connects /\ heard' = FALSE /\ UNCHANGED <<requests, thrown>>

Next ==
  \/ Request
  \/ recon_handler
  \/ PeerHandles
  \/ Accepted
  \/ (Refuses \/ Breaks \/ WriteEnds \/ WriteFails \/ ReadFails \/ TimerExpires)
       /\ UNCHANGED link
  \/ ~undefined /\ Handlers /\ UNCHANGED link

Spec == Init /\ [][Next]_vars

-----------------------------------------------------------------------------
(* Properties                                                              *)

\* A server introduces itself before it sends anything else on a connection,
\* and once, so that the handlers of the accepting server do not throw
\* ("Replica failed to introduce self", "Double introduction").
IntroducedFirst == ~thrown
=============================================================================
