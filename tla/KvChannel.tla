----------------------------- MODULE KvChannel ------------------------------
(***************************************************************************)
(* The active end of a kvstore::Channel (kv/net/channel): the message      *)
(* queue m_mq of which one message is being written, the read, and the     *)
(* timer that connects again five seconds after something failed.          *)
(*                                                                         *)
(* An asynchronous operation is outstanding, then completed, and then its  *)
(* handler runs: ready counts the handlers that have not run yet.  The     *)
(* io_service has one thread, and runs them one at a time.  The modules    *)
(* that use this one say when, and what the channel's owner does.          *)
(*                                                                         *)
(* A write begun while the socket connects waits in asio's queue behind    *)
(* the connect operation, and is done as soon as that succeeds.            *)
(***************************************************************************)
EXTENDS Naturals, Sequences

CONSTANT MaxFaults   \* bound: connections that break or are refused

ASSUME FaultsAssumption == MaxFaults \in Nat

VARIABLES
  socket,     \* m_socket; broken when the peer has closed it or cannot be reached
  hook,       \* the handler that connect_cb was given: of the owner, or of reconnect
  m_mq,       \* the messages to be sent; the first is, or was, being written
  posted,     \* the messages of the send_msg tasks on m_strand
  write,      \* the messages for which an async_write is outstanding
  read,       \* an async_read is outstanding
  ready,      \* the number of completed operations of each kind
  timer,      \* m_reconnect_timer is running
  callbacks,  \* the handlers posted by connect_cb
  wire,       \* what the peer was sent on this connection and has not dealt with
  sent,       \* history: what the peer was sent, on all connections
  incoming,   \* what the peer sent on it and was not read
  faults,     \* counted for their bound
  undefined,  \* pop_front was called on an empty deque
  late        \* history: the timer's handler ran before the old operations were over

channel == <<socket, hook, m_mq, posted, write, read, ready, timer, callbacks, wire,
             sent, incoming, faults, undefined, late>>

Kinds == {"connected", "refused", "written", "write_error", "read_error", "timer"}

\* The owner has called connect_cb.
ChannelInit ==
  /\ socket = "connecting"
  /\ hook = "owner"
  /\ m_mq = <<>>
  /\ posted = <<>>
  /\ write = <<>>
  /\ read = FALSE
  /\ ready = [k \in Kinds |-> 0]
  /\ timer = FALSE
  /\ callbacks = <<>>
  /\ wire = <<>>
  /\ sent = <<>>
  /\ incoming = <<>>
  /\ faults = 0
  /\ undefined = FALSE
  /\ late = FALSE

-----------------------------------------------------------------------------
(* The network and asio                                                    *)

Completed(kind) == ready' = [ready EXCEPT ![kind] = @ + 1]

Connects ==
  /\ socket = "connecting"
  /\ socket' = "open"
  /\ wire' = <<>>
  /\ incoming' = <<>>
  /\ Completed("connected")
  /\ UNCHANGED <<hook, m_mq, posted, write, read, timer, callbacks, sent, faults, undefined, late>>

Refuses ==
  /\ socket = "connecting"
  /\ faults < MaxFaults
  /\ faults' = faults + 1
  /\ socket' = "broken"
  /\ Completed("refused")
  /\ UNCHANGED <<hook, m_mq, posted, write, read, timer, callbacks, wire, sent, incoming,
                 undefined, late>>

Breaks ==
  /\ socket = "open"
  /\ faults < MaxFaults
  /\ faults' = faults + 1
  /\ socket' = "broken"
  /\ UNCHANGED <<hook, m_mq, posted, write, read, ready, timer, callbacks, wire, sent, incoming,
                 undefined, late>>

\* The system takes the message, also on a connection that the peer has closed.
WriteEnds ==
  /\ write # <<>>
  /\ socket \in {"open", "broken"}
  /\ write' = Tail(write)
  /\ IF socket = "open"
     THEN wire' = Append(wire, Head(write)) /\ sent' = Append(sent, Head(write))
     ELSE UNCHANGED <<wire, sent>>
  /\ Completed("written")
  /\ UNCHANGED <<socket, hook, m_mq, posted, read, timer, callbacks, incoming, faults,
                 undefined, late>>

WriteFails ==
  /\ write # <<>>
  /\ socket = "broken"
  /\ write' = Tail(write)
  /\ Completed("write_error")
  /\ UNCHANGED <<socket, hook, m_mq, posted, read, timer, callbacks, wire, sent, incoming, faults,
                 undefined, late>>

ReadFails ==
  /\ read
  /\ socket = "broken"
  /\ read' = FALSE
  /\ Completed("read_error")
  /\ UNCHANGED <<socket, hook, m_mq, posted, write, timer, callbacks, wire, sent, incoming, faults,
                 undefined, late>>

\* A wait that has ended is not cancelled any more: its handler will run.
TimerExpires ==
  /\ timer
  /\ timer' = FALSE
  /\ Completed("timer")
  /\ UNCHANGED <<socket, hook, m_mq, posted, write, read, callbacks, wire, sent, incoming, faults,
                 undefined, late>>

Progress == Connects \/ Refuses \/ WriteEnds \/ WriteFails \/ ReadFails

-----------------------------------------------------------------------------
(* The handlers of the channel                                             *)

Taken(kind) == ready[kind] > 0 /\ ready' = [ready EXCEPT ![kind] = @ - 1]

\* do_send
do_send(mq) == write' = Append(write, Head(mq))

\* expires_from_now cancels a wait under way, async_wait begins another.
reconnect == timer' = TRUE

\* Mutant of MayWrite: every message is written at once.
MayWriteAlways == TRUE

\* The queue was empty: nothing is being written.
MayWrite == m_mq = <<>>

\* The task that send_msg posts.
RunSend ==
  /\ posted # <<>>
  /\ posted' = Tail(posted)
  /\ m_mq' = Append(m_mq, Head(posted))
  /\ IF MayWrite THEN do_send(m_mq') ELSE write' = write
  /\ UNCHANGED <<socket, hook, read, ready, timer, callbacks, wire, sent, incoming, faults,
                 undefined, late>>

\* Mutant of AfterWrite: the message stays in the queue.
AfterWriteKept(mq) == mq

\* pop_front
AfterWrite(mq) == Tail(mq)

\* The handler of do_send.  What pop_front does to an empty deque is undefined.
RunWritten ==
  /\ Taken("written")
  /\ IF m_mq = <<>>
     THEN undefined' = TRUE /\ UNCHANGED <<m_mq, write>>
     ELSE /\ m_mq' = AfterWrite(m_mq)
          /\ IF m_mq' # <<>> THEN do_send(m_mq') ELSE write' = write
          /\ undefined' = undefined
  /\ UNCHANGED <<socket, hook, posted, read, timer, callbacks, wire, sent, incoming, faults, late>>

\* The message stays in the queue, so that nothing is written any more.
RunWriteFailed ==
  /\ Taken("write_error")
  /\ reconnect
  /\ UNCHANGED <<socket, hook, m_mq, posted, write, read, callbacks, wire, sent, incoming, faults,
                 undefined, late>>

RunReadFailed ==
  /\ Taken("read_error")
  /\ reconnect
  /\ UNCHANGED <<socket, hook, m_mq, posted, write, read, callbacks, wire, sent, incoming, faults,
                 undefined, late>>

\* The handler of connect_cb: it posts the handler it was given and calls start.
RunConnected ==
  /\ Taken("connected")
  /\ callbacks' = Append(callbacks, hook)
  /\ read' = TRUE
  /\ UNCHANGED <<socket, hook, m_mq, posted, write, timer, wire, sent, incoming, faults,
                 undefined, late>>

\* Mutant of RunRefused: nobody tries again.
RunRefusedOnce ==
  /\ Taken("refused")
  /\ UNCHANGED <<socket, hook, m_mq, posted, write, read, timer, callbacks, wire, sent, incoming,
                 faults, undefined, late>>

RunRefused ==
  /\ Taken("refused")
  /\ reconnect
  /\ UNCHANGED <<socket, hook, m_mq, posted, write, read, callbacks, wire, sent, incoming, faults,
                 undefined, late>>

\* Operations on the socket that the timer's handler is about to close, handlers
\* of such operations, and another wait that one of them has begun.
Outstanding ==
  \/ read \/ write # <<>> \/ socket = "connecting"
  \/ timer \/ ready["timer"] > 1
  \/ \E k \in Kinds \ {"timer"} : ready[k] > 0

\* The handler of the timer: clear, and connect_cb.  async_connect closes the
\* socket first, by which the operations outstanding on it end with an error.
\* A handler posted after an earlier connect is ahead of it in the queue.
RunTimer ==
  /\ ready["timer"] > 0
  /\ Len(callbacks) <= 1
  /\ m_mq' = <<>>
  /\ ready' = [ready EXCEPT
       !["timer"] = @ - 1,
       !["write_error"] = @ + Len(write),
       !["read_error"] = @ + (IF read THEN 1 ELSE 0),
       !["refused"] = @ + (IF socket = "connecting" THEN 1 ELSE 0)]
  /\ write' = <<>>
  /\ read' = FALSE
  /\ socket' = "connecting"
  /\ hook' = "reconnect"
  /\ late' = (late \/ Outstanding)
  /\ UNCHANGED <<posted, timer, callbacks, wire, sent, incoming, faults, undefined>>

Handlers ==
  \/ RunSend
  \/ RunWritten
  \/ RunWriteFailed
  \/ RunReadFailed
  \/ RunConnected
  \/ RunRefused
  \/ RunTimer

\* send_msg
send_msg(msg) == posted' = Append(posted, msg)

=============================================================================
