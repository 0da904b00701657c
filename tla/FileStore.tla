------------------------------ MODULE FileStore -----------------------------
(***************************************************************************)
(* The file store of one Chord node (chord/src/FileStore_server.cpp): a    *)
(* TThreadedServer with one thread for each connection, the generated      *)
(* processor, and a handler whose threads share the node's predecessor,    *)
(* the files and a recursive mutex.                                        *)
(*                                                                         *)
(* Callers open a connection for a call, as LocalNode::call_rpc does, and  *)
(* close it when the call ends.  What the ring methods answer is the       *)
(* subject of module Chord; here they return, throw or fail, and           *)
(* setPredecessor decides whether this node owns the files.                *)
(*                                                                         *)
(* The process may end between any two steps, and be started again with    *)
(* the files it left and without a predecessor.  A file that has been      *)
(* created and not completely written is Torn: reading it runs into the    *)
(* end of the file.                                                        *)
(***************************************************************************)
EXTENDS Thrift, FiniteSets

CONSTANTS
  Callers,     \* those who call the node, each with one call at a time
  Names,       \* pairs <<filename, owner>> of the files asked for
  Contents,    \* the contents that are written
  NearId,      \* the id of a predecessor so near that the node does not own the files
  FarId,       \* the id of a predecessor with which it does
  MaxCalls,    \* bound: the number of calls
  MaxCrashes   \* bound: the number of times the process ends

ASSUME MaxCallsAssumption == MaxCalls \in Nat
ASSUME MaxCrashesAssumption == MaxCrashes \in Nat
ASSUME IdsAssumption == NearId # FarId

NoOne == "no_one"

ASSUME CallersAssumption == NoOne \notin Callers

NoId == "none"

Absent == [state |-> "absent", data |-> <<>>]

Torn == [state |-> "torn", data |-> <<>>]

Whole(data) == [state |-> "whole", data |-> data]

NoMessage == [fname |-> "", mtype |-> "none", body |-> <<>>]

VARIABLES
  up,             \* the process runs
  d_predecessor,  \* the id of the predecessor; boost::none is NoId
  holder,         \* the thread that holds d_file_mtx, or NoOne
  disk,           \* for each file id: Absent, Torn, or the struct in the file
  thread,         \* the server's thread for each caller's connection
  wire,           \* the message on each caller's connection
  caller,         \* the call that each caller has made
  calls, crashes, \* counted for their bounds
  writes,         \* history: the writes of a file since there was none
  acked           \* history: the highest version acknowledged, -1 if none

vars == <<up, d_predecessor, holder, disk, thread, wire, caller, calls, crashes,
          writes, acked>>

server == <<up, d_predecessor, holder, disk, thread, crashes, writes>>

\* sha256(filename + ":" + owner).  The hash is one-to-one; the string is not:
\* names with a colon in them can share a file.
FileId(filename, owner) == filename \o <<":">> \o owner

Ids == {FileId(n[1], n[2]) : n \in Names}

\* sha256 of a content.
Hash(content) == <<content>>

IdleThread ==
  [at |-> "idle", fname |-> "", id |-> <<>>, file |-> RFile0, node |-> NoId,
   outcome |-> ReturnedVoid]

IdleCaller ==
  [at |-> "idle", fname |-> "", asked |-> <<>>,
   outcome |-> ReturnedVoid, handled |-> ReturnedVoid, version |-> -1, floor |-> -1]

\* The node has just been started, or has been given its place on the ring.
Init ==
  /\ up = TRUE
  /\ d_predecessor \in {NoId, FarId}
  /\ holder = NoOne
  /\ disk = [i \in Ids |-> Absent]
  /\ thread = [c \in Callers |-> IdleThread]
  /\ wire = [c \in Callers |-> NoMessage]
  /\ caller = [c \in Callers |-> IdleCaller]
  /\ calls = 0
  /\ crashes = 0
  /\ writes = [i \in Ids |-> 0]
  /\ acked = [i \in Ids |-> -1]

-----------------------------------------------------------------------------
(* The callers                                                             *)

\* call_rpc: open the connection, send; a node that is down refuses it.
Send(c, msg, asked) ==
  /\ caller[c].at = "idle"
  /\ calls < MaxCalls
  /\ calls' = calls + 1
  /\ caller' = [caller EXCEPT ![c] =
       [IdleCaller EXCEPT !.at = IF up THEN "waiting" ELSE "idle",
                          !.fname = msg.fname, !.asked = asked,
                          !.outcome = IF up THEN @ ELSE TransportException,
                          !.handled = IF up THEN @ ELSE TransportException,
                          !.floor = IF up /\ asked \in Ids THEN acked[asked] ELSE -1]]
  /\ wire' = [wire EXCEPT ![c] = IF up THEN msg ELSE NoMessage]
  /\ UNCHANGED <<server, acked>>

\* An RFile as a caller makes it: with __set_content, or with content assigned
\* and left unmarked.
GivenFile(name, content, marked) ==
  LET meta == RFileMetadata_set(RFileMetadata_set(RFileMetadata0, "filename", name[1]),
                                "owner", name[2])
      file == RFile_set(RFile0, "meta", meta)
  IN IF marked THEN RFile_set(file, "content", content)
     ELSE [file EXCEPT !.v.content = content]

CallWriteFile(c) ==
  \E name \in Names, content \in Contents, marked \in BOOLEAN :
    Send(c, send_writeFile(GivenFile(name, content, marked)), FileId(name[1], name[2]))

CallReadFile(c) ==
  \E name \in Names :
    Send(c, send_readFile(name[1], name[2]), FileId(name[1], name[2]))

Node(id) == Obj([id |-> id, ip |-> "", port |-> 0], {})

CallRing(c) ==
  \/ \E id \in {NearId, FarId} : Send(c, send_setPredecessor(Node(id)), <<>>)
  \/ Send(c, send_setFingertable(<<Node(FarId)>>), <<>>)
  \/ Send(c, send_findSucc(FarId), <<>>)
  \/ Send(c, send_findPred(FarId), <<>>)
  \/ Send(c, send_getNodeSucc, <<>>)

Received(fname, msg) ==
  CASE fname = "writeFile" -> recv_writeFile(msg)
    [] fname = "readFile" -> recv_readFile(msg)
    [] fname = "setFingertable" -> recv_setFingertable(msg)
    [] fname = "findSucc" -> recv_findSucc(msg)
    [] fname = "findPred" -> recv_findPred(msg)
    [] fname = "getNodeSucc" -> recv_getNodeSucc(msg)
    [] fname = "setPredecessor" -> recv_setPredecessor(msg)

\* The call ends with what the reply says.
Receive(c) ==
  LET k == caller[c]
      outcome == Received(k.fname, wire[c])
  IN /\ k.at = "waiting"
     /\ wire[c].mtype \in {"T_REPLY", "T_EXCEPTION"}
     /\ caller' = [caller EXCEPT ![c].at = "idle", ![c].outcome = outcome]
     /\ wire' = [wire EXCEPT ![c] = NoMessage]
     /\ acked' = IF k.fname = "writeFile" /\ outcome.kind = "returned" /\ k.version > acked[k.asked]
                 THEN [acked EXCEPT ![k.asked] = k.version]
                 ELSE acked
     /\ UNCHANGED <<server, calls>>

\* The server ended before it answered: the caller gets a TTransportException.
Broken(c) ==
  /\ caller[c].at = "waiting"
  /\ wire[c] = NoMessage
  /\ thread[c].at = "idle"
  /\ caller' = [caller EXCEPT ![c].at = "idle", ![c].outcome = TransportException]
  /\ UNCHANGED <<server, wire, calls, acked>>

-----------------------------------------------------------------------------
(* The processor.  process_X reads the arguments and calls the handler;    *)
(* its other half, which writes the reply, is Finish for every method.     *)

\* dispatchCall: the thread takes the message off its connection.
Dispatch(c, fname, t) ==
  /\ up
  /\ wire[c].mtype = "T_CALL"
  /\ wire[c].fname = fname
  /\ wire' = [wire EXCEPT ![c] = NoMessage]
  /\ thread' = [thread EXCEPT ![c] = t]
  /\ UNCHANGED <<up, d_predecessor, holder, disk, caller, calls, crashes, writes, acked>>

\* The handler's thread, about to run.
Started(fname) == [IdleThread EXCEPT !.at = "dispatched", !.fname = fname]

\* The handler's thread, done.
Ended(fname, outcome) ==
  [IdleThread EXCEPT !.at = "reply", !.fname = fname, !.outcome = outcome]

process_writeFile(c) ==
  LET file == ReadFields(writeFile_args, wire[c].body).rFile
      meta == file.v.meta.v
  IN Dispatch(c, "writeFile",
              [Started("writeFile") EXCEPT !.file = file,
                                           !.id = FileId(meta.filename, meta.owner)])

process_readFile(c) ==
  LET args == ReadFields(readFile_args, wire[c].body)
  IN Dispatch(c, "readFile",
              [Started("readFile") EXCEPT !.id = FileId(args.filename, args.owner)])

\* setFingertable calls the first node of the list, which may fail.
process_setFingertable(c) ==
  \E outcome \in {ReturnedVoid, OtherException} :
    Dispatch(c, "setFingertable", Ended("setFingertable", outcome))

\* A lookup is answered, ends in a SystemException, or fails on the way.
LookupOutcomes ==
  {Returned(Node(FarId)), Thrown("no_fingertable"), OtherException}

process_findSucc(c) ==
  \E outcome \in LookupOutcomes : Dispatch(c, "findSucc", Ended("findSucc", outcome))

process_findPred(c) ==
  \E outcome \in LookupOutcomes : Dispatch(c, "findPred", Ended("findPred", outcome))

process_getNodeSucc(c) ==
  \E outcome \in LookupOutcomes \ {OtherException} :
    Dispatch(c, "getNodeSucc", Ended("getNodeSucc", outcome))

process_setPredecessor(c) ==
  LET node == ReadFields(setPredecessor_args, wire[c].body).node
  IN Dispatch(c, "setPredecessor",
              [Started("setPredecessor") EXCEPT !.at = "assign", !.node = node.v.id])

ResultClass ==
  [writeFile |-> writeFile_result, readFile |-> readFile_result,
   setFingertable |-> setFingertable_result, findSucc |-> findSucc_result,
   findPred |-> findPred_result, getNodeSucc |-> getNodeSucc_result,
   setPredecessor |-> setPredecessor_result]

\* The result object after the handler has returned or thrown.
ResultFields(outcome) ==
  CASE outcome.kind = "SystemException" ->
         [systemException |-> Obj([message |-> outcome.value[1]], {"message"})]
    [] outcome.value = <<>> -> <<>>
    [] OTHER -> [success |-> outcome.value[1]]

\* The catch clauses and the reply: a SystemException is a field of the result
\* where the method declares it, every other exception a message of its own.
Answer(fname, outcome) ==
  LET class == ResultClass[fname]
      result == ResultFields(outcome)
  IN IF outcome.kind = "TApplicationException" \/ ~(DOMAIN result \subseteq DOMAIN class)
     THEN Exception(fname)
     ELSE Reply(fname, WriteFields(class, result))

Finish(c) ==
  LET t == thread[c]
  IN /\ t.at = "reply"
     /\ wire' = [wire EXCEPT ![c] = Answer(t.fname, t.outcome)]
     /\ thread' = [thread EXCEPT ![c] = IdleThread]
     /\ caller' = [caller EXCEPT ![c].handled = t.outcome]
     /\ UNCHANGED <<up, d_predecessor, holder, disk, calls, crashes, writes, acked>>

-----------------------------------------------------------------------------
(* The handler                                                             *)

shared == <<up, wire, calls, crashes, acked>>

Goto(c, at) == thread' = [thread EXCEPT ![c].at = at]

EndWith(c, at, outcome) == thread' = [thread EXCEPT ![c].at = at, ![c].outcome = outcome]

\* set_predecessor, the end of the assignment that began with the dispatch.
AssignPredecessor(c) ==
  /\ thread[c].at = "assign"
  /\ d_predecessor' = thread[c].node
  /\ EndWith(c, "reply", ReturnedVoid)
  /\ UNCHANGED <<shared, holder, disk, caller, writes>>

\* is_successor.  There is no lock: while another thread assigns, the answer is
\* that of the old predecessor, of the new one or of a mixture of both.
is_successor ==
  LET settled == IF d_predecessor = NoId THEN {"unknown"}
                 ELSE IF d_predecessor = FarId THEN {"owner"} ELSE {"other"}
  IN IF \E c \in Callers : thread[c].at = "assign"
     THEN {"owner", "other"} \cup (settled \cap {"unknown"})
     ELSE settled

\* The exception of a node that is not, or does not know whether it is, the owner.
Refusal(answer) ==
  Thrown(IF answer = "other" THEN "node_is_not_owner"
         ELSE "unknown_predecessor")

\* Mutants of CanLock: no lock at all, or a mutex that is not recursive.
CanLockAlways(c) == TRUE
CanLockOnce(c) == holder = NoOne

\* A lock_guard of the recursive mutex.
CanLock(c) == holder \in {NoOne, c}

\* readFile up to the lock.
ReadCheck(c) ==
  /\ thread[c].at = "dispatched"
  /\ thread[c].fname = "readFile"
  /\ \E answer \in is_successor :
       IF answer = "owner" THEN Goto(c, "read_lock") ELSE EndWith(c, "reply", Refusal(answer))
  /\ UNCHANGED <<shared, d_predecessor, holder, disk, caller, writes>>

\* Mutant of ReadLock: readFile does not take the mutex.
ReadLockShared(c) ==
  /\ thread[c].at = "read_lock"
  /\ EndWith(c, "reply", IF disk[thread[c].id].state = "absent"
                         THEN Thrown("file_does_not_exist")
                         ELSE IF disk[thread[c].id].state = "torn" THEN OtherException
                         ELSE Returned(RFile_read(RFile0, disk[thread[c].id].data)))
  /\ UNCHANGED <<shared, d_predecessor, holder, disk, caller, writes>>

ReadLock(c) ==
  /\ thread[c].at = "read_lock"
  /\ CanLock(c)
  /\ holder' = c
  /\ Goto(c, "read_file")
  /\ UNCHANGED <<shared, d_predecessor, disk, caller, writes>>

\* What readFile makes of the file: it is missing, it ends too soon, or it is read.
FileOutcome(id) ==
  CASE disk[id].state = "absent" -> Thrown("file_does_not_exist")
    [] disk[id].state = "torn" -> OtherException
    [] OTHER -> Returned(RFile_read(RFile0, disk[id].data))

ReadFile(c) ==
  /\ thread[c].at = "read_file"
  /\ EndWith(c, "unlock", FileOutcome(thread[c].id))
  /\ UNCHANGED <<shared, d_predecessor, holder, disk, caller, writes>>

\* The lock_guard goes out of scope, in readFile and in writeFile.
Unlock(c) ==
  /\ thread[c].at = "unlock"
  /\ holder' = NoOne
  /\ Goto(c, "reply")
  /\ UNCHANGED <<shared, d_predecessor, disk, caller, writes>>

WithVersion(file, version) ==
  RFile_set(file, "meta", RFileMetadata_set(file.v.meta, "version", version))

WithHash(file) ==
  RFile_set(file, "meta", RFileMetadata_set(file.v.meta, "contentHash", Hash(file.v.content)))

\* writeFile up to the lock.
WriteCheck(c) ==
  /\ thread[c].at = "dispatched"
  /\ thread[c].fname = "writeFile"
  /\ \E answer \in is_successor :
       IF answer = "owner"
       THEN thread' = [thread EXCEPT ![c].at = "write_lock",
                                     ![c].file = WithVersion(WithHash(@), 0)]
       ELSE EndWith(c, "reply", Refusal(answer))
  /\ UNCHANGED <<shared, d_predecessor, holder, disk, caller, writes>>

WriteLock(c) ==
  /\ thread[c].at = "write_lock"
  /\ CanLock(c)
  /\ holder' = c
  /\ Goto(c, IF disk[thread[c].id] = Absent THEN "write_create" ELSE "write_old")
  /\ UNCHANGED <<shared, d_predecessor, disk, caller, writes>>

\* writeFile reads the old file by calling readFile, which asks again whether
\* the node is the owner and takes the mutex again.
WriteOld(c) ==
  LET t == thread[c]
      old == FileOutcome(t.id)
  IN /\ t.at = "write_old"
     /\ \E answer \in is_successor :
          /\ answer = "owner" => CanLock(c)
          /\ CASE answer # "owner" -> EndWith(c, "unlock", Refusal(answer))
               [] old.kind = "returned" ->
                    thread' = [thread EXCEPT
                      ![c].at = "write_remove",
                      ![c].file = WithVersion(@, old.value[1].v.meta.v.version + 1)]
               [] OTHER -> EndWith(c, "unlock", old)
     /\ UNCHANGED <<shared, d_predecessor, holder, disk, caller, writes>>

WriteRemove(c) ==
  /\ thread[c].at = "write_remove"
  /\ disk' = [disk EXCEPT ![thread[c].id] = Absent]
  /\ Goto(c, "write_create")
  /\ UNCHANGED <<shared, d_predecessor, holder, caller, writes>>

\* TFileTransport opens the file.
WriteCreate(c) ==
  /\ thread[c].at = "write_create"
  /\ disk' = [disk EXCEPT ![thread[c].id] = Torn]
  /\ Goto(c, "write_data")
  /\ UNCHANGED <<shared, d_predecessor, holder, caller, writes>>

\* file.write, and the destructor of the transport, which waits until the data
\* is in the file.
WriteData(c) ==
  LET t == thread[c]
  IN /\ t.at = "write_data"
     /\ disk' = [disk EXCEPT ![t.id] = Whole(RFile_write(t.file))]
     /\ EndWith(c, "unlock", ReturnedVoid)
     /\ caller' = [caller EXCEPT ![c].version = t.file.v.meta.v.version]
     /\ writes' = [writes EXCEPT ![t.id] = @ + 1]
     /\ UNCHANGED <<shared, d_predecessor, holder>>

-----------------------------------------------------------------------------
(* The process                                                             *)

\* The process ends.  A file that it was about to write is gone, or torn, and
\* with it what was acknowledged.  Replies that were sent arrive.
Crash ==
  LET lost == {i \in Ids : disk[i].state # "whole"}
  IN /\ up
     /\ crashes < MaxCrashes
     /\ crashes' = crashes + 1
     /\ up' = FALSE
     /\ d_predecessor' = NoId
     /\ holder' = NoOne
     /\ thread' = [c \in Callers |-> IdleThread]
     /\ wire' = [c \in Callers |-> IF wire[c].mtype = "T_CALL" THEN NoMessage ELSE wire[c]]
     /\ writes' = [i \in Ids |-> IF i \in lost THEN 0 ELSE writes[i]]
     /\ acked' = [i \in Ids |-> IF i \in lost THEN -1 ELSE acked[i]]
     /\ caller' = [c \in Callers |->
          IF caller[c].asked \in lost
          THEN [caller[c] EXCEPT !.version = -1, !.floor = -1] ELSE caller[c]]
     /\ UNCHANGED <<disk, calls>>

Restart ==
  /\ ~up
  /\ up' = TRUE
  /\ UNCHANGED <<d_predecessor, holder, disk, thread, wire, caller, calls, crashes,
                 writes, acked>>

Process(c) ==
  \/ process_writeFile(c)
  \/ process_readFile(c)
  \/ process_setFingertable(c)
  \/ process_findSucc(c)
  \/ process_findPred(c)
  \/ process_getNodeSucc(c)
  \/ process_setPredecessor(c)
  \/ Finish(c)

Handle(c) ==
  \/ AssignPredecessor(c)
  \/ ReadCheck(c) \/ ReadLock(c) \/ ReadFile(c) \/ Unlock(c)
  \/ WriteCheck(c) \/ WriteLock(c) \/ WriteOld(c)
  \/ WriteRemove(c) \/ WriteCreate(c) \/ WriteData(c)

Return(c) == Receive(c) \/ Broken(c)

Next ==
  \/ \E c \in Callers :
       \/ CallWriteFile(c) \/ CallReadFile(c) \/ CallRing(c)
       \/ Process(c) \/ Handle(c) \/ Return(c)
  \/ Crash
  \/ Restart

Spec == Init /\ [][Next]_vars

\* The system runs the threads of the server and of the callers.  Nothing is
\* assumed of new calls, of the process ending or of its being started again.
FairSpec ==
  Spec /\ \A c \in Callers : WF_vars(Process(c)) /\ WF_vars(Handle(c)) /\ WF_vars(Return(c))

-----------------------------------------------------------------------------
(* Properties                                                              *)

\* The version in a file counts the writes since there was no such file, and
\* nobody but a thread that holds the mutex sees it otherwise than whole
\* (writeFile reads, removes, creates and writes in four steps).
VersionsCount ==
  \A i \in Ids :
    /\ disk[i].state = "whole" => disk[i].data.meta.version = writes[i] - 1
    /\ disk[i].state # "whole" /\ writes[i] > 0 =>
         /\ holder # NoOne
         /\ thread[holder].id = i
         /\ thread[holder].at \in {"write_create", "write_data"}

\* A readFile that began after a writeFile of the file had been acknowledged
\* answers with that version or a later one; it does not miss the file or find
\* it torn, unless the process ended while it was being written again.  What it
\* answers was given in one piece by a caller, or its content was not marked.
ReadsAcked ==
  \A c \in Callers :
    LET k == caller[c]
        file == k.outcome.value[1].v
    IN k.at = "idle" /\ k.fname = "readFile" =>
         /\ k.outcome.kind = "returned" =>
              /\ file.meta.v.version >= k.floor
              /\ FileId(file.meta.v.filename, file.meta.v.owner) = k.asked
              /\ file.meta.v.contentHash = Hash(file.content)
         /\ k.floor >= 0 =>
              \/ k.outcome.kind \in {"returned", "TTransportException"}
              \/ k.outcome.kind = "SystemException" /\ k.outcome.value[1] # "file_does_not_exist"

\* A caller is told what the handler did: the value, the message of its
\* SystemException or that it failed, through result, reply and recv_ of each
\* method; a writeFile that returned has been written.
OutcomeFaithful ==
  \A c \in Callers :
    LET k == caller[c]
    IN k.at = "idle" /\ k.outcome.kind # "TTransportException" =>
         /\ k.outcome.kind = k.handled.kind
         /\ k.outcome.kind = "SystemException" => k.outcome.value = k.handled.value
         /\ k.outcome.kind = "returned" =>
              /\ Len(k.outcome.value) = Len(k.handled.value)
              /\ \A i \in DOMAIN k.outcome.value : k.outcome.value[i].v = k.handled.value[i].v

\* Every call ends: the threads of the server do not wait for each other for
\* ever, nor a writeFile, which takes the mutex twice, for itself.
CallsEnd == \A c \in Callers : caller[c].at = "waiting" ~> caller[c].at = "idle"
=============================================================================
