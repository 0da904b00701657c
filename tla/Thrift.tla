------------------------------- MODULE Thrift -------------------------------
(***************************************************************************)
(* What the generated Thrift code of the FileStore service puts on the     *)
(* wire, and what it makes of what it finds there: the classes of          *)
(* chord_types.cpp, the arguments and results of the seven methods, and    *)
(* the client's send and receive halves (FileStore.cpp).                   *)
(*                                                                         *)
(* An object of a generated class is its field values v and the set isset  *)
(* of the fields that __isset marks.  On the wire a struct is the function *)
(* from the fields that were written to their values.  Field ids and type  *)
(* codes are left out: both ends are generated from chord.thrift, so a     *)
(* field that is found has the id and the type that is looked for.         *)
(***************************************************************************)
EXTENDS Integers, Sequences

Obj(v, isset) == [v |-> v, isset |-> isset]

\* The loop that every read() is: a field of the class takes the value on the
\* wire and is marked, an unknown field is skipped, and a field that is not on
\* the wire keeps the value it had.
Fill(o, w) ==
  [v     |-> [f \in DOMAIN o.v |-> IF f \in DOMAIN w THEN w[f] ELSE o.v[f]],
   isset |-> o.isset \cup (DOMAIN w \cap DOMAIN o.v)]

\* The fields that a write() of a class with optional fields writes.
Marked(o) == [f \in o.isset |-> o.v[f]]

-----------------------------------------------------------------------------
(* chord_types.cpp                                                         *)

SystemException0 == Obj([message |-> ""], {})

SystemException_read(o, w) == Fill(o, w)

SystemException_write(o) == Marked(o)

RFileMetadata0 ==
  Obj([filename |-> <<>>, version |-> 0, owner |-> <<>>, contentHash |-> <<>>], {})

\* __set_filename, __set_version, __set_owner, __set_contentHash
RFileMetadata_set(o, f, x) == Obj([o.v EXCEPT ![f] = x], o.isset \cup {f})

RFileMetadata_read(o, w) == Fill(o, w)

RFileMetadata_write(o) == Marked(o)

RFile0 == Obj([meta |-> RFileMetadata0, content |-> ""], {})

\* __set_meta, __set_content
RFile_set(o, f, x) == Obj([o.v EXCEPT ![f] = x], o.isset \cup {f})

RFile_read(o, w) ==
  Fill(o, [f \in DOMAIN w |->
             IF f = "meta" THEN RFileMetadata_read(o.v.meta, w[f]) ELSE w[f]])

RFile_write(o) ==
  [f \in o.isset |-> IF f = "meta" THEN RFileMetadata_write(o.v[f]) ELSE o.v[f]]

NodeID0 == Obj([id |-> "", ip |-> "", port |-> 0], {})

NodeID_read(o, w) == Fill(o, w)

\* The fields of NodeID are not optional: isset is not looked at.
NodeID_write(o) == o.v

-----------------------------------------------------------------------------
(* The arguments and the result of each method: the fields and what is     *)
(* written for each of them.                                               *)

writeFile_args == [rFile |-> "RFile"]
writeFile_result == [systemException |-> "SystemException"]

readFile_args == [filename |-> "string", owner |-> "string"]
readFile_result == [success |-> "RFile", systemException |-> "SystemException"]

setFingertable_args == [node_list |-> "NodeID_list"]
setFingertable_result == <<>>

findSucc_args == [key |-> "string"]
findSucc_result == [success |-> "NodeID", systemException |-> "SystemException"]

findPred_args == [key |-> "string"]
findPred_result == [success |-> "NodeID", systemException |-> "SystemException"]

getNodeSucc_args == <<>>
getNodeSucc_result == [success |-> "NodeID", systemException |-> "SystemException"]

setPredecessor_args == [node |-> "NodeID"]
setPredecessor_result == <<>>

WriteAs(type, x) ==
  CASE type = "RFile" -> RFile_write(x)
    [] type = "NodeID" -> NodeID_write(x)
    [] type = "NodeID_list" -> [i \in DOMAIN x |-> NodeID_write(x[i])]
    [] type = "SystemException" -> SystemException_write(x)
    [] OTHER -> x

ReadAs(type, w) ==
  CASE type = "RFile" -> RFile_read(RFile0, w)
    [] type = "NodeID" -> NodeID_read(NodeID0, w)
    [] type = "NodeID_list" -> [i \in DOMAIN w |-> NodeID_read(NodeID0, w[i])]
    [] type = "SystemException" -> SystemException_read(SystemException0, w)
    [] OTHER -> w

\* An args or result object on the wire and back.  write() of an args class
\* writes every field; write() of a result class writes what is in x, which is
\* the result or the exception, never both.
WriteFields(class, x) == [f \in DOMAIN class \cap DOMAIN x |-> WriteAs(class[f], x[f])]

ReadFields(class, w) == [f \in DOMAIN class \cap DOMAIN w |-> ReadAs(class[f], w[f])]

-----------------------------------------------------------------------------
(* Messages, and the outcomes of a call: a return with a value or without  *)
(* one, a SystemException, another exception of the server, or a broken    *)
(* connection.                                                             *)

Returned(x) == [kind |-> "returned", value |-> <<x>>]

ReturnedVoid == [kind |-> "returned", value |-> <<>>]

Thrown(message) == [kind |-> "SystemException", value |-> <<message>>]

OtherException == [kind |-> "TApplicationException", value |-> <<>>]

MissingResult == [kind |-> "TApplicationException", value |-> <<"MISSING_RESULT">>]

TransportException == [kind |-> "TTransportException", value |-> <<>>]

Call(fname, body) == [fname |-> fname, mtype |-> "T_CALL", body |-> body]

Reply(fname, body) == [fname |-> fname, mtype |-> "T_REPLY", body |-> body]

Exception(fname) == [fname |-> fname, mtype |-> "T_EXCEPTION", body |-> <<>>]

send_writeFile(rFile) ==
  Call("writeFile", WriteFields(writeFile_args, [rFile |-> rFile]))

send_readFile(filename, owner) ==
  Call("readFile", WriteFields(readFile_args, [filename |-> filename, owner |-> owner]))

send_setFingertable(node_list) ==
  Call("setFingertable", WriteFields(setFingertable_args, [node_list |-> node_list]))

send_findSucc(key) == Call("findSucc", WriteFields(findSucc_args, [key |-> key]))

send_findPred(key) == Call("findPred", WriteFields(findPred_args, [key |-> key]))

send_getNodeSucc == Call("getNodeSucc", WriteFields(getNodeSucc_args, <<>>))

send_setPredecessor(node) ==
  Call("setPredecessor", WriteFields(setPredecessor_args, [node |-> node]))

\* Mutant of OutcomeOf: the exception in a result is not looked at.
OutcomeOfSuccess(result, otherwise) ==
  IF "success" \in DOMAIN result THEN Returned(result.success) ELSE otherwise

\* The end of every recv_: the outcome of a result that has been read.  A
\* connection carries one call at a time, so the message is the reply to it: the
\* branches of recv_ that skip a message of another type or name are not taken.
OutcomeOf(result, otherwise) ==
  IF "success" \in DOMAIN result THEN Returned(result.success)
  ELSE IF "systemException" \in DOMAIN result
       THEN Thrown(result.systemException.v.message)
       ELSE otherwise

Recv(class, otherwise, msg) ==
  IF msg.mtype = "T_EXCEPTION" THEN OtherException
  ELSE OutcomeOf(ReadFields(class, msg.body), otherwise)

recv_writeFile(msg) == Recv(writeFile_result, ReturnedVoid, msg)

recv_readFile(msg) == Recv(readFile_result, MissingResult, msg)

recv_setFingertable(msg) == Recv(setFingertable_result, ReturnedVoid, msg)

recv_findSucc(msg) == Recv(findSucc_result, MissingResult, msg)

recv_findPred(msg) == Recv(findPred_result, MissingResult, msg)

recv_getNodeSucc(msg) == Recv(getNodeSucc_result, MissingResult, msg)

recv_setPredecessor(msg) == Recv(setPredecessor_result, ReturnedVoid, msg)
=============================================================================
