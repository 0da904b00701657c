------------------------------ MODULE KvClient ------------------------------
(***************************************************************************)
(* The command line client of the key-value store (kv/client) on its       *)
(* channel, with a coordinator that answers each command at most once, in  *)
(* any order, or not at all.                                               *)
(*                                                                         *)
(* run_cmd waits for the user in getline.  As long as it does no handler   *)
(* runs, but timers expire and connections break.  Commands are numbered;  *)
(* a line that is not a command brings the next prompt and changes nothing.*)
(***************************************************************************)
EXTENDS KvChannel

CONSTANT MaxCommands   \* bound: commands that are typed

ASSUME CommandsAssumption == MaxCommands \in Nat

VARIABLES
  at,        \* "idle": handlers may run; "prompt": in getline; "exited"
  issued,    \* the number of commands sent
  m_timer,   \* the client's timer is running
  expired,   \* the handlers of m_timer that have not run yet
  printed,   \* the commands whose answers were printed
  failed     \* how often "Last command failed" was printed

client == <<at, issued, m_timer, expired, printed, failed>>
clientVars == <<channel, client>>

ClientInit ==
  /\ ChannelInit
  /\ at = "idle"
  /\ issued = 0
  /\ m_timer = FALSE
  /\ expired = 0
  /\ printed = <<>>
  /\ failed = 0

\* The thread is at the io_service.  Nothing is said of what follows undefined
\* behaviour.
Runs == at = "idle" /\ ~undefined

-----------------------------------------------------------------------------
(* The client                                                              *)

\* run_cmd up to getline.  cancel has no effect on a wait that has ended.
run_cmd ==
  /\ at' = "prompt"
  /\ m_timer' = FALSE

\* Mutant of Armed: no timer for the command.
ArmedNever == FALSE

\* The timer after a command was sent.
Armed == TRUE

\* getline returns a get or a put: it is sent, and the timer set to 5 s.
Command ==
  /\ at = "prompt"
  /\ issued < MaxCommands
  /\ issued' = issued + 1
  /\ send_msg(issued + 1)
  /\ m_timer' = Armed
  /\ at' = "idle"
  /\ UNCHANGED <<socket, hook, m_mq, write, read, ready, timer, callbacks, wire, sent, incoming,
                 faults, undefined, late, expired, printed, failed>>

\* The input ends, or a number in the command is too large for stoi.
Exit ==
  /\ at = "prompt"
  /\ at' = "exited"
  /\ UNCHANGED <<channel, issued, m_timer, expired, printed, failed>>

\* The handler given to connect_cb by connect; that of the channel's reconnect
\* does nothing.
RunCallback ==
  /\ Runs
  /\ callbacks # <<>>
  /\ callbacks' = Tail(callbacks)
  /\ IF Head(callbacks) = "owner" THEN run_cmd ELSE UNCHANGED <<at, m_timer>>
  /\ UNCHANGED <<socket, hook, m_mq, posted, write, read, ready, timer, wire, sent, incoming,
                 faults, undefined, late, issued, expired, printed, failed>>

\* message_handler, called by the read of the channel, which then reads on.
message_handler ==
  /\ Runs
  /\ read
  /\ incoming # <<>>
  /\ incoming' = Tail(incoming)
  /\ printed' = Append(printed, Head(incoming))
  /\ run_cmd
  /\ UNCHANGED <<socket, hook, m_mq, posted, write, read, ready, timer, callbacks, wire, sent,
                 faults, undefined, late, issued, expired, failed>>

CommandTimerExpires ==
  /\ at # "exited"
  /\ m_timer
  /\ m_timer' = FALSE
  /\ expired' = expired + 1
  /\ UNCHANGED <<channel, at, issued, printed, failed>>

\* "Last command failed"
RunCommandTimer ==
  /\ Runs
  /\ expired > 0
  /\ expired' = expired - 1
  /\ failed' = failed + 1
  /\ run_cmd
  /\ UNCHANGED <<channel, issued, printed>>

\* The coordinator answers a command that it has received.
Answer ==
  /\ socket = "open"
  /\ \E i \in DOMAIN wire :
       /\ incoming' = Append(incoming, wire[i])
       /\ wire' = SubSeq(wire, 1, i - 1) \o SubSeq(wire, i + 1, Len(wire))
  /\ UNCHANGED <<socket, hook, m_mq, posted, write, read, ready, timer, callbacks, sent,
                 faults, undefined, late, client>>

\* What happens outside of the thread, as long as there is a process.
Network == at # "exited" /\ (Progress \/ Breaks \/ TimerExpires) /\ UNCHANGED client

ChannelHandler == Runs /\ Handlers /\ UNCHANGED client

Work ==
  \/ ChannelHandler
  \/ RunCallback
  \/ RunCommandTimer
  \/ message_handler

ClientNext ==
  \/ Command
  \/ Exit
  \/ Work
  \/ CommandTimerExpires
  \/ Network
  \/ at # "exited" /\ Answer

ClientSpec == ClientInit /\ [][ClientNext]_clientVars

\* Timers expire, and the io_service, whose queue is first in, first out, gets
\* to every handler.  Nothing is assumed of the user, of the network or of the
\* coordinator.
ClientFairSpec ==
  /\ ClientSpec
  /\ WF_clientVars(CommandTimerExpires)
  /\ WF_clientVars(RunCommandTimer)
  /\ WF_clientVars(RunCallback)
  /\ WF_clientVars(ChannelHandler)

-----------------------------------------------------------------------------
(* Properties                                                              *)

\* The channel writes one message at a time, never pops an empty queue, and
\* the coordinator gets the commands in their order, none twice, over broken
\* and refused connections, unless the handler of the reconnect timer ran
\* before the operations of the old connection were over (m_mq is cleared and
\* the socket closed under them).
ChannelSound ==
  late \/ /\ ~undefined
          /\ Len(write) <= 1
          /\ \A i, j \in DOMAIN sent : i < j => sent[i] < sent[j]

\* Whoever has to connect again will: a broken connection has an operation
\* outstanding that fails, the handler of one, or the timer.  And a connection
\* that works is not torn down by a timer left over from the one before, with
\* the exception above (after which it is, every five seconds).
TimerTracksSocket ==
  /\ socket = "broken" =>
       \/ read \/ write # <<>> \/ timer
       \/ \E k \in Kinds \ {"written"} : ready[k] > 0
  /\ late \/ (socket = "open" => ~timer /\ ready["timer"] = 0)

\* No answer is printed twice; and as long as no command was declared failed,
\* the answer that is printed is that to the command just typed.
RepliesMatch ==
  /\ \A i, j \in DOMAIN printed : printed[i] = printed[j] => i = j
  /\ failed = 0 => \A i \in DOMAIN printed : printed[i] = i

\* After each command the user gets a prompt again, whether or not the command
\* reached the coordinator and was answered.  (The first prompt is not certain:
\* when the first connection is refused, it is reconnect that connects, and its
\* handler does not prompt.)
PromptReturns == (at = "idle" /\ issued > 0) ~> (at # "idle" \/ undefined)
=============================================================================
