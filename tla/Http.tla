-------------------------------- MODULE Http --------------------------------
(***************************************************************************)
(* The web server of http/: the accept loop, one detached thread for each  *)
(* connection (HttpServer::conn_acceptor), the sending of a file that      *)
(* others may be changing, and the logger that all threads share.          *)
(*                                                                         *)
(* What a recv returns is taken for one request, whatever it is: whole     *)
(* requests, a part of one, or several.  A request is a model value of its *)
(* request line; the part of a request behind its request line is Rest.    *)
(* Sizes count pieces of a file; how much one sendfile takes is up to the  *)
(* kernel, and so is how much fits into the buffers of a connection whose  *)
(* client does not read: when they are full, sends block, without a limit. *)
(*                                                                         *)
(* The process ends when accept fails (nobody catches socket_exception in  *)
(* main), on SIGINT, on the SIGPIPE of a sendfile whose client has gone,   *)
(* and possibly when a thread looks a path up in the logger's map while    *)
(* another inserts one, which is a data race.                              *)
(***************************************************************************)
EXTENDS Integers, Sequences, FiniteSetsExt

CONSTANTS
  Conns,        \* the connections that clients open, one after the other or at once
  Paths,        \* the absolute paths that are asked for
  MaxSize,      \* bound: the size of a file
  MaxRequests,  \* bound: the requests sent on all connections
  MaxFds,       \* the descriptors the process may have open for connections and files
  MaxFaults     \* bound: the changes made to files, and the recvs that end in the
                \* middle of a request

ASSUME SizeAssumption == MaxSize \in Nat
ASSUME RequestsAssumption == MaxRequests \in Nat
ASSUME FdsAssumption == MaxFds \in Nat
ASSUME FaultsAssumption == MaxFaults \in Nat

\* Request lines: without two blanks, with a relative path, with a path.
Malformed == "malformed"
Relative == "relative"
Lines == {Malformed, Relative} \cup Paths

\* What follows a request line, or a part of it.
Rest == "rest"

\* What HttpParser::path makes of a part that is received by itself.  A header,
\* or the end of a request line, may have two blanks and be taken for a request.
Parsed(part) == IF part = Rest THEN Lines ELSE {part}

\* A response that has no Content-Length.
NoLength == -1

ASSUME PathsAssumption == {Malformed, Relative, Rest} \cap Paths = {}

VARIABLES
  running,   \* the process
  th,        \* the thread of each connection
  stream,    \* what the client sent and the server has not received
  gone,      \* the connections that the client has closed
  full,      \* the connections on which the next send blocks until the client reads
  asked,     \* the request lines sent on each connection
  replies,   \* the responses on each connection
  size,      \* the size of each file
  linked,    \* the paths under which there is a file
  fds,       \* the number of descriptors open for connections and files
  d_counts,  \* the logger's map from paths to counts
  lines,     \* the counts on the lines given to d_output_stream, for each path
  faults,    \* counted for their bound
  apart      \* history: connections on which every recv returned one request

clients == <<asked, size, linked>>
logger == <<d_counts, lines>>
vars == <<running, th, stream, gone, full, replies, fds, apart, faults, clients, logger>>

\* A connection that was not accepted yet, and one whose thread has returned.
Backlog == [at |-> "backlog", line |-> Malformed, count |-> 0, status |-> 0, length |-> 0,
            offset |-> 0, file |-> FALSE]

Closed == [Backlog EXCEPT !.at = "closed"]

\* The sizes of the files are not known beforehand; empty ones come by an edit.
Init ==
  /\ running = TRUE
  /\ th = [c \in Conns |-> Backlog]
  /\ stream = [c \in Conns |-> <<>>]
  /\ gone = {}
  /\ full = {}
  /\ asked = [c \in Conns |-> <<>>]
  /\ replies = [c \in Conns |-> <<>>]
  /\ size \in [Paths -> 1..MaxSize]
  /\ linked = Paths
  /\ fds = 0
  /\ d_counts = [p \in {} |-> 0]
  /\ lines = [p \in Paths |-> <<>>]
  /\ faults = 0
  /\ apart = Conns

-----------------------------------------------------------------------------
(* The clients, as long as the server has not closed their connection, and *)
(* whoever edits the files                                                 *)

Connected(c) == running /\ c \notin gone /\ th[c].at # "closed"

Requests == MapThenSumSet(LAMBDA c : Len(asked[c]), Conns)

SendRequest(c, line) ==
  /\ Connected(c)
  /\ Requests < MaxRequests
  /\ asked' = [asked EXCEPT ![c] = Append(@, line)]
  /\ stream' = [stream EXCEPT ![c] = @ \o <<line, Rest>>]
  /\ UNCHANGED <<running, th, gone, full, replies, fds, apart, faults, size, linked, logger>>

CloseClient(c) ==
  /\ Connected(c)
  /\ gone' = gone \cup {c}
  /\ UNCHANGED <<running, th, stream, full, replies, fds, apart, faults, clients, logger>>

\* The client takes what the buffers hold; nothing makes it do so.
ClientReads(c) ==
  /\ Connected(c)
  /\ c \in full
  /\ full' = full \ {c}
  /\ UNCHANGED <<running, th, stream, gone, replies, fds, apart, faults, clients, logger>>

\* A file is given another size, or removed; threads that have it open keep it.
EditFile(p) ==
  /\ running
  /\ faults < MaxFaults
  /\ p \in linked
  /\ faults' = faults + 1
  /\ \/ /\ \E n \in 0..MaxSize \ {size[p]} : size' = [size EXCEPT ![p] = n]
        /\ linked' = linked
     \/ /\ linked' = linked \ {p}
        /\ size' = size
  /\ UNCHANGED <<running, th, stream, gone, full, asked, replies, fds, apart, logger>>

-----------------------------------------------------------------------------
(* The accept loop                                                         *)

Accept(c) ==
  /\ running
  /\ th[c].at = "backlog"
  /\ fds < MaxFds
  /\ fds' = fds + 1
  /\ th' = [th EXCEPT ![c].at = "recv"]
  /\ UNCHANGED <<running, stream, gone, full, replies, apart, faults, clients, logger>>

\* The kernel closes what the process had open.
ProcessEnds ==
  /\ running' = FALSE
  /\ th' = [c \in Conns |-> Closed]
  /\ stream' = [c \in Conns |-> <<>>]
  /\ full' = {}
  /\ fds' = 0
  /\ UNCHANGED <<gone, replies, apart, faults, clients, logger>>

\* No descriptor is left, or the connection was aborted before it was accepted
\* (ECONNABORTED): accept throws socket_exception, through main.
AcceptFails(c) ==
  /\ running
  /\ th[c].at = "backlog"
  /\ fds >= MaxFds \/ c \in gone
  /\ ProcessEnds

-----------------------------------------------------------------------------
(* conn_acceptor: one turn of its loop                                     *)

At(c, at) == running /\ th[c].at = at

Goto(c, at) == th' = [th EXCEPT ![c].at = at]

\* The thread returns: the socket is closed, and the file of the response.
Leave(c) ==
  /\ th' = [th EXCEPT ![c] = Closed]
  /\ stream' = [stream EXCEPT ![c] = <<>>]
  /\ full' = full \ {c}
  /\ fds' = fds - (IF th[c].file THEN 2 ELSE 1)

\* recv returned something whose first line is read as line.
Received(c, line) == th' = [th EXCEPT ![c] = [Backlog EXCEPT !.at = "parse", !.line = line]]

\* It left s, which begins in the middle of a request when that was cut.
Leaves(c, s) ==
  LET cut == IF s # <<>> /\ Head(s) = Rest THEN 1 ELSE 0
  IN /\ faults + cut <= MaxFaults
     /\ faults' = faults + cut
     /\ stream' = [stream EXCEPT ![c] = s]

\* recv returns something of what has come: n whole parts, or the first part of
\* a request line, which is complete for the parser behind its second blank.
\* Whether the client has read the responses of earlier turns meanwhile, so that
\* there is room for the next, is decided here.
Recv(c) ==
  /\ At(c, "recv")
  /\ \/ \E n \in 1..Len(stream[c]) :
          /\ \E line \in Parsed(Head(stream[c])) : Received(c, line)
          /\ Leaves(c, SubSeq(stream[c], n + 1, Len(stream[c])))
          /\ apart' = IF n = 2 /\ Head(stream[c]) # Rest THEN apart ELSE apart \ {c}
     \/ /\ stream[c] # <<>> /\ Head(stream[c]) # Rest
        /\ \E line \in {Malformed, Head(stream[c])} : Received(c, line)
        /\ Leaves(c, <<Rest>> \o Tail(stream[c]))
        /\ apart' = apart \ {c}
  /\ \/ full' = full
     \/ replies[c] # <<>> /\ full' = full \cup {c}
  /\ UNCHANGED <<running, gone, replies, fds, clients, logger>>

\* The file has become shorter than the part of it that was sent, and sendfile
\* has nothing to do: it returns 0, and send_file calls it again.
Spins(c) ==
  /\ th[c].at = "body"
  /\ th[c].file
  /\ th[c].offset < th[c].length
  /\ size[th[c].line] <= th[c].offset

\* The client has closed the connection: recv returns 0, or getpeername, recv,
\* send, sendfile or setsockopt fails.  In all cases, and also when it is the
\* sending in a catch clause that fails, the thread returns.
SocketFails(c) ==
  /\ running
  /\ c \in gone
  /\ \/ th[c].at = "recv" /\ stream[c] = <<>>
     \/ th[c].at \in {"parse", "header", "body", "bare_400", "500"} /\ ~Spins(c)
  /\ Leave(c)
  /\ UNCHANGED <<running, gone, replies, apart, faults, clients, logger>>

\* sendfile has no MSG_NOSIGNAL: on a connection that the client has reset it
\* may raise SIGPIPE, which main leaves at its default.
PipeBreaks(c) ==
  /\ At(c, "body")
  /\ c \in gone
  /\ th[c].file
  /\ th[c].offset < th[c].length
  /\ ~Spins(c)
  /\ ProcessEnds

\* A response without a file: its header and d_error_str.
Respond(c, status, length) ==
  th' = [th EXCEPT ![c].at = "header", ![c].status = status, ![c].length = length]

\* The parser and serve_get up to the log.
ServeGet(c) ==
  LET line == th[c].line
  IN /\ At(c, "parse")
     /\ \/ line = Malformed /\ Goto(c, "bare_400")
        \/ line = Relative /\ Respond(c, 400, 0)
        \/ line \in Paths \ linked /\ Respond(c, 404, 0)
        \/ line \in Paths \cap linked /\ Goto(c, "log")
     /\ UNCHANGED <<running, stream, gone, full, replies, fds, apart, faults, clients, logger>>

-----------------------------------------------------------------------------
(* Logger::log_get                                                         *)

\* A lookup races with an insertion that is under way.
Races(c) == \E d \in Conns \ {c} : th[d].at = "log_insert"

\* ++ on the atomic count; the thread keeps the result.
Count(c, p) ==
  /\ d_counts' = [d_counts EXCEPT ![p] = @ + 1]
  /\ th' = [th EXCEPT ![c].at = "log_write", ![c].count = d_counts[p] + 1]
  /\ lines' = lines

\* The first d_counts.at: it finds the path, or throws out_of_range.
LookUp(c) ==
  LET p == th[c].line
  IN /\ At(c, "log")
     /\ \/ p \in DOMAIN d_counts /\ Count(c, p)
        \/ /\ p \notin DOMAIN d_counts \/ Races(c)
           /\ Goto(c, "log_lock")
           /\ UNCHANGED logger
     /\ UNCHANGED <<running, stream, gone, full, replies, fds, apart, faults, clients>>

\* Mutant of LockFree: the mutex is locked again by the thread that holds it.
LockFreeAgain(c) == \A d \in Conns : th[d].at \notin {"log_lock", "log_insert"}

\* d_write_lock is held by a thread at "log_insert" and by nobody else.
LockFree(c) == \A d \in Conns : th[d].at # "log_insert"

LockCounts(c) ==
  /\ At(c, "log_lock")
  /\ LockFree(c)
  /\ Goto(c, "log_insert")
  /\ UNCHANGED <<running, stream, gone, full, replies, fds, apart, faults, clients, logger>>

\* Mutant of Emplace: an assignment, which starts a count again.
EmplaceAssign(p) == [q \in DOMAIN d_counts \cup {p} |-> IF q = p THEN 0 ELSE d_counts[q]]

\* emplace leaves the count of a path that is there as it is.
Emplace(p) ==
  IF p \in DOMAIN d_counts THEN d_counts
  ELSE [q \in DOMAIN d_counts \cup {p} |-> IF q = p THEN 0 ELSE d_counts[q]]

InsertCount(c) ==
  /\ At(c, "log_insert")
  /\ d_counts' = Emplace(th[c].line)
  /\ Goto(c, "log_again")
  /\ UNCHANGED <<running, stream, gone, full, replies, fds, apart, faults, clients, lines>>

\* The second d_counts.at is in the handler of the first: when it throws, only
\* the outermost catch of conn_acceptor gets it, and the thread returns.
LookUpAgain(c) ==
  /\ At(c, "log_again")
  /\ \/ Count(c, th[c].line) /\ UNCHANGED <<fds, stream, full>>
     \/ Races(c) /\ Leave(c) /\ UNCHANGED logger
  /\ UNCHANGED <<running, gone, replies, apart, faults, clients>>

\* The line, made in a stream of its own and written in one piece.  Others may
\* have counted and written since this thread counted.
WriteLine(c) ==
  /\ At(c, "log_write")
  /\ lines' = [lines EXCEPT ![th[c].line] = Append(@, th[c].count)]
  /\ th' = [th EXCEPT ![c].at = "size", ![c].count = 0]
  /\ UNCHANGED <<running, stream, gone, full, replies, fds, apart, faults, clients, d_counts>>

\* The race may also end the process.
LookUpCrashes(c) ==
  /\ At(c, "log") \/ At(c, "log_again")
  /\ Races(c)
  /\ ProcessEnds

-----------------------------------------------------------------------------
(* The rest of serve_get, and send_response                                *)

\* file_size and last_write_time throw filesystem_error, a runtime_error, when
\* the file has gone.
FileSize(c) ==
  LET p == th[c].line
  IN /\ At(c, "size")
     /\ \/ /\ p \in linked
           /\ th' = [th EXCEPT ![c].at = "open", ![c].length = size[p]]
        \/ p \notin linked /\ Goto(c, "500")
     /\ UNCHANGED <<running, stream, gone, full, replies, fds, apart, faults, clients, logger>>

\* open fails when the file has gone or no descriptor is left; both are
\* answered "Server overloaded", here one piece long.
OpenFile(c) ==
  /\ At(c, "open")
  /\ \/ /\ th[c].line \in linked /\ fds < MaxFds
        /\ th' = [th EXCEPT ![c].at = "header", ![c].status = 200, ![c].file = TRUE]
        /\ fds' = fds + 1
     \/ /\ th[c].line \notin linked \/ fds >= MaxFds
        /\ Respond(c, 503, 1)
        /\ fds' = fds
  /\ UNCHANGED <<running, stream, gone, full, replies, apart, faults, clients, logger>>

Reply(status, length) == [status |-> status, length |-> length, body |-> 0, done |-> FALSE]

\* A send or a sendfile that returns, after which the buffers may be full.
Sends(c) ==
  /\ c \notin full
  /\ full' \in {full, full \cup {c}}

SendHeader(c) ==
  /\ At(c, "header")
  /\ Sends(c)
  /\ replies' = [replies EXCEPT ![c] = Append(@, Reply(th[c].status, th[c].length))]
  /\ Goto(c, "body")
  /\ UNCHANGED <<running, stream, gone, fds, apart, faults, clients, logger>>

\* What one call of sendfile may take, and the whole of d_error_str.
Takes(c) ==
  IF th[c].file
  THEN 1..(IF size[th[c].line] < th[c].length THEN size[th[c].line] ELSE th[c].length)
           - th[c].offset
  ELSE {th[c].length - th[c].offset}

\* The response that is being sent, and the step in which it becomes r.
Sending(c) == replies[c][Len(replies[c])]

Continue(c, r) == replies' = [replies EXCEPT ![c] = [@ EXCEPT ![Len(@)] = r]]

SendBody(c) ==
  /\ At(c, "body")
  /\ th[c].offset < th[c].length
  /\ Sends(c)
  /\ \E n \in Takes(c) :
       /\ th' = [th EXCEPT ![c].offset = @ + n]
       /\ Continue(c, [Sending(c) EXCEPT !.body = @ + n])
  /\ UNCHANGED <<running, stream, gone, fds, apart, faults, clients, logger>>

\* Mutant of BodySent: one call of sendfile is taken for enough.
BodySentOnce(c) == th[c].offset > 0 \/ th[c].length = 0

\* Everything was sent: the response and its file are destroyed.  Whether there is
\* room for another response is seen when that begins.
BodySent(c) == th[c].offset = th[c].length

EndResponse(c) ==
  /\ At(c, "body")
  /\ BodySent(c)
  /\ Continue(c, [Sending(c) EXCEPT !.done = TRUE])
  /\ th' = [th EXCEPT ![c] = [Backlog EXCEPT !.at = "recv"]]
  /\ fds' = fds - (IF th[c].file THEN 1 ELSE 0)
  /\ full' = full \ {c}
  /\ UNCHANGED <<running, stream, gone, apart, faults, clients, logger>>

\* Mutant of BadRequest: the exception is logged and not answered.
BadRequestSilent(c) ==
  /\ At(c, "bare_400")
  /\ Goto(c, "recv")
  /\ UNCHANGED <<running, stream, gone, full, replies, fds, apart, faults, clients, logger>>

\* http_exception: a header with neither Content-Length nor body.
BadRequest(c) ==
  /\ At(c, "bare_400")
  /\ c \notin full
  /\ replies' = [replies EXCEPT ![c] = Append(@, [Reply(400, NoLength) EXCEPT !.done = TRUE])]
  /\ Goto(c, "recv")
  /\ UNCHANGED <<running, stream, gone, full, fds, apart, faults, clients, logger>>

\* runtime_error: a header with length 0, and the thread returns.
ServerError(c) ==
  /\ At(c, "500")
  /\ c \notin full
  /\ replies' = [replies EXCEPT ![c] = Append(@, [Reply(500, 0) EXCEPT !.done = TRUE])]
  /\ Leave(c)
  /\ UNCHANGED <<running, gone, apart, faults, clients, logger>>

\* SIGINT: the handler throws an int, which main catches or nobody.
Interrupt ==
  /\ running
  /\ ProcessEnds

Thread(c) ==
  \/ Recv(c)
  \/ SocketFails(c)
  \/ PipeBreaks(c)
  \/ ServeGet(c)
  \/ LookUp(c)
  \/ LockCounts(c)
  \/ InsertCount(c)
  \/ LookUpAgain(c)
  \/ LookUpCrashes(c)
  \/ WriteLine(c)
  \/ FileSize(c)
  \/ OpenFile(c)
  \/ SendHeader(c)
  \/ SendBody(c)
  \/ EndResponse(c)
  \/ BadRequest(c)
  \/ ServerError(c)

Next ==
  \/ \E c \in Conns :
       \/ \E line \in Lines : SendRequest(c, line)
       \/ CloseClient(c)
       \/ ClientReads(c)
       \/ Accept(c)
       \/ AcceptFails(c)
       \/ Thread(c)
  \/ \E p \in Paths : EditFile(p)
  \/ Interrupt

Spec == Init /\ [][Next]_vars

\* The kernel runs every thread that does not wait: in recv, for the lock, or in
\* send and sendfile for its client.  Nothing is assumed of the clients: one that
\* stays connected and never reads holds its thread for ever.
FairSpec == Spec /\ \A c \in Conns : WF_vars(Thread(c))

-----------------------------------------------------------------------------
(* Properties                                                              *)

\* What the client reads can be taken apart again: a response is followed by
\* another only when it is complete, and a complete one has the body that its
\* Content-Length announced, however the file was edited since its size was
\* read and however little a sendfile takes (send_file, send_response).
FramesWhole ==
  \A c \in Conns : \A i \in 1..Len(replies[c]) :
    LET r == replies[c][i]
    IN /\ i < Len(replies[c]) => r.done
       /\ r.done /\ r.length # NoLength => r.body = r.length

Fits(line, status) ==
  IF line \in Paths THEN status \in {200, 404, 500, 503} ELSE status = 400

\* A client that sends a request only after the answer to the one before, and
\* whose requests each arrive in one piece, gets one response to each, in order
\* and of a status that fits the request, whatever the other connections, the
\* logger and the editors do (conn_acceptor: exactly one response in a turn of
\* its loop, in the catch clauses as well).
AnswersInStep ==
  \A c \in apart :
    LET taken == (2 * Len(asked[c]) - Len(stream[c])) \div 2
        answered == IF th[c].at \in {"backlog", "recv", "body"} THEN taken ELSE taken - 1
    IN /\ \A i \in 1..Len(replies[c]) : Fits(asked[c][i], replies[c][i].status)
       /\ running /\ th[c].at # "closed" => Len(replies[c]) = answered

\* The count of a path, the numbers on its lines, and those that threads have
\* taken and not written yet.
Counted(p) == IF p \in DOMAIN d_counts THEN d_counts[p] ELSE 0

Written(p) == {lines[p][i] : i \in 1..Len(lines[p])}

Held(p) == {th[c].count : c \in {d \in Conns : th[d].at = "log_write" /\ th[d].line = p}}

\* No two lines of a path have the same number, and no number is lost: while the
\* server runs, each number up to the count is on a line or with a thread that
\* is about to write it.  Lines may come out of order, and the end of the process
\* may leave gaps, but the lookup outside of the lock, with which two threads may
\* both find a path missing, does not disturb the numbers (log_get).
NumbersOnce ==
  \A p \in Paths :
    /\ \A i, j \in 1..Len(lines[p]) : i # j => lines[p][i] # lines[p][j]
    /\ Written(p) \subseteq 1..Counted(p)
    /\ running => Written(p) \cup Held(p) = 1..Counted(p)

\* A thread waits in send or sendfile for its client to read.
Blocked(c) ==
  /\ c \in full \ gone
  /\ \/ th[c].at \in {"header", "bare_400", "500"}
     \/ th[c].at = "body" /\ ~BodySent(c)

\* A turn of conn_acceptor's loop ends: the thread is back in recv or returns,
\* unless the process ends, or the thread stays for good in a sending that its
\* own client does not read, or in send_file with a file that became shorter
\* than announced.  No other client holds it up, whatever it does with its own
\* connection, and neither does the logger's lock.
RequestsEnd ==
  \A c \in Conns :
    th[c].at = "parse" ~>
      \/ th[c].at \in {"recv", "closed"} \/ ~running
      \/ [](Blocked(c) \/ Spins(c))

=============================================================================
