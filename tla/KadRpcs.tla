------------------------------ MODULE KadRpcs ------------------------------
(***************************************************************************)
(* One KadRpcs (src/src/kademlia/kadrpc.cpp) over the generated client and *)
(* processor (src/src/thrift/gen-cpp/KademliaService.cpp), with the        *)
(* transport between them as an external part: a connection delivers in    *)
(* order, a wait may be given up with an exception that leaves the         *)
(* connection open, and a second open() of an open transport either throws *)
(* or returns at once, as the version of the library has it.               *)
(*                                                                         *)
(* A message names the number of the call it belongs to (of): the code has *)
(* no such number, its seqid is always 0 and never compared.               *)
(***************************************************************************)
EXTENDS Naturals, FiniteSets, Sequences

CONSTANT MaxCalls      \* bound: the calls one KadRpcs makes

VARIABLES
    reopen,    \* "throws" or "returns": what open() does on an open transport
    isOpen,    \* transport_->isOpen()
    up, down,  \* the bytes of the connection, as whole messages
    call,      \* the call in progress, NoCall between two calls
    made,      \* how many calls were begun
    resp,      \* *resp of the latest call
    last,      \* how the latest call ended
    gaveUp,    \* some wait was given up
    served     \* what the handler of the server was last called with

vars == <<reopen, isOpen, up, down, call, made, resp, last, gaveUp, served>>

-----------------------------------------------------------------------------
(***************************************************************************)
(* The structs of the RPC interface as the generated code writes and reads *)
(* them (src/src/thrift/gen-cpp/*_types.cpp).  A struct is written as its  *)
(* required fields and those of its optional fields whose __isset mark is  *)
(* set; assigning a field does not set its mark, reading one does.         *)
(*                                                                         *)
(* An object is a record: said, the names of the fields that hold more than*)
(* their default, and marked, those whose __isset mark is set.  What goes  *)
(* over the wire: fields, the fields written, and said, as above.          *)
(***************************************************************************)
Text(id, name) == [id |-> id, name |-> name, type |-> "string"]
Rec(id, name)  == [id |-> id, name |-> name, type |-> "struct"]
List(id, name) == [id |-> id, name |-> name, type |-> "list"]
Num(id, name)  == [id |-> id, name |-> name, type |-> "i32"]
Flag(id, name) == [id |-> id, name |-> name, type |-> "bool"]

Names(fields) == {f.name : f \in fields}

PingRequestKnown == {Text(1, "ping"), Rec(2, "sender_info")}
PingRequestWritten == [always |-> {Text(1, "ping"), Rec(2, "sender_info")}, ifSet |-> {}]
PingResponseKnown == {Text(1, "result"), Text(2, "echo"), Text(3, "node_id")}
PingResponseWritten == [always |-> {Text(1, "result")}, ifSet |-> {Text(2, "echo"),
    Text(3, "node_id")}]
FindRequestKnown == {Text(1, "key"), Rec(2, "sender_info"), Flag(3, "is_boostrap"),
    Text(4, "sender_ext_ip"), Num(5, "sender_ext_port")}
FindRequestWritten == [always |-> {Text(1, "key"), Rec(2, "sender_info")},
    ifSet |-> {Flag(3, "is_boostrap"), Text(4, "sender_ext_ip"), Num(5, "sender_ext_port")}]
FindResponseKnown == {Text(1, "result"), List(2, "closest_nodes"), List(3, "values"),
    List(4, "signed_values"), Rec(5, "alternative_value_holder"), Text(6, "needs_cache_copy"),
    Text(7, "requester_ext_addr"), Text(8, "node_id")}
FindResponseWritten == [always |-> {Text(1, "result"), List(2, "closest_nodes"),
    List(3, "values"), List(4, "signed_values")}, ifSet |-> {Rec(5, "alternative_value_holder"),
    Text(6, "needs_cache_copy"), Text(7, "requester_ext_addr"), Text(8, "node_id")}]
StoreRequestKnown == {Text(1, "key"), Text(2, "value"), Rec(3, "sig_value"), Num(4, "ttl"),
    Rec(5, "sender_info"), Flag(6, "publish"), Rec(7, "signed_request")}
StoreRequestWritten == [always |-> {Text(1, "key"), Num(4, "ttl"), Rec(5, "sender_info"),
    Flag(6, "publish")}, ifSet |-> {Text(2, "value"), Rec(3, "sig_value"),
    Rec(7, "signed_request")}]
StoreResponseKnown == {Text(1, "result"), Text(2, "node_id"), Rec(4, "signed_request")}
StoreResponseWritten == [always |-> {Text(1, "result")}, ifSet |-> {Text(2, "node_id"),
    Rec(4, "signed_request")}]
DownlistRequestKnown == {List(1, "downlist"), Rec(2, "sender_info")}
DownlistRequestWritten == [always |-> {List(1, "downlist"), Rec(2, "sender_info")},
    ifSet |-> {}]
DownlistResponseKnown == {Text(1, "result"), Text(2, "node_id")}
DownlistResponseWritten == [always |-> {Text(1, "result")}, ifSet |-> {Text(2, "node_id")}]
BootstrapRequestKnown == {Text(1, "newcomer_id"), Text(2, "newcomer_local_ip"),
    Num(3, "newcomer_local_port"), Num(5, "node_type"), Text(6, "newcomer_ext_ip"),
    Num(7, "newcomer_ext_port")}
BootstrapRequestWritten == [always |-> {Text(1, "newcomer_id"), Text(2, "newcomer_local_ip"),
    Num(3, "newcomer_local_port"), Num(5, "node_type")}, ifSet |-> {Text(6, "newcomer_ext_ip"),
    Num(7, "newcomer_ext_port")}]
BootstrapResponseKnown == {Text(1, "result"), Text(2, "bootstrap_id"),
    Text(3, "newcomer_ext_ip"), Num(4, "newcomer_ext_port"), Num(5, "nat_type")}
BootstrapResponseWritten == [always |-> {Text(1, "result")}, ifSet |-> {Text(2, "bootstrap_id"),
    Text(3, "newcomer_ext_ip"), Num(4, "newcomer_ext_port"), Num(5, "nat_type")}]
DeleteRequestKnown == {Text(1, "key"), Rec(2, "value"), Rec(3, "signed_request"),
    Rec(4, "sender_info")}
DeleteRequestWritten == [always |-> {Text(1, "key"), Rec(2, "value"), Rec(3, "signed_request"),
    Rec(4, "sender_info")}, ifSet |-> {}]
DeleteResponseKnown == {Text(1, "result"), Text(2, "node_id")}
DeleteResponseWritten == [always |-> {Text(1, "result")}, ifSet |-> {Text(2, "node_id")}]
UpdateRequestKnown == {Text(1, "key"), Rec(2, "new_value"), Rec(3, "old_value"), Num(4, "ttl"),
    Rec(5, "request"), Rec(6, "sender_info")}
UpdateRequestWritten == [always |-> {Text(1, "key"), Rec(2, "new_value"), Rec(3, "old_value"),
    Num(4, "ttl"), Rec(5, "request"), Rec(6, "sender_info")}, ifSet |-> {}]
UpdateResponseKnown == {Text(1, "result"), Text(2, "node_id")}
UpdateResponseWritten == [always |-> {Text(1, "result")}, ifSet |-> {Text(2, "node_id")}]
ContactInfoKnown == {Text(1, "node_id"), Text(2, "ip"), Num(3, "port"), Text(4, "local_ip"),
    Num(5, "local_port"), Text(6, "rendezvous_ip"), Num(7, "rendezvous_port")}
ContactInfoWritten == [always |-> {Text(1, "node_id"), Text(2, "ip"), Num(3, "port")},
    ifSet |-> {Text(4, "local_ip"), Num(5, "local_port"), Text(6, "rendezvous_ip"),
    Num(7, "rendezvous_port")}]
SignedValueKnown == {Text(1, "value"), Text(2, "value_signature")}
SignedValueWritten == [always |-> {Text(1, "value"), Text(2, "value_signature")}, ifSet |-> {}]
SignedRequestKnown == {Text(1, "signer_id"), Text(2, "public_key"),
    Text(3, "signed_public_key"), Text(4, "signed_request")}
SignedRequestWritten == [always |-> {Text(1, "signer_id"), Text(2, "public_key"),
    Text(3, "signed_public_key"), Text(4, "signed_request")}, ifSet |-> {}]
-----------------------------------------------------------------------------
New == [said |-> {}, marked |-> {}]
Assign(object, names) == [object EXCEPT !.said = @ \cup names]

\* Faulty: an optional field is written when it is not the default.
WriteSaid(written, object) ==
    LET out == written.always \cup {f \in written.ifSet : f.name \in object.said}
    IN  [fields |-> out, said |-> object.said \cap Names(out)]

Write(written, object) ==
    LET out == written.always \cup {f \in written.ifSet : f.name \in object.marked}
    IN  [fields |-> out, said |-> object.said \cap Names(out)]

\* A field that is not known, or comes with another type, is skipped; the others
\* replace what the object held.
ReadInto(known, object, wire) ==
    LET got == Names(wire.fields \cap known)
    IN  [said |-> (object.said \ got) \cup (wire.said \cap got), marked |-> object.marked \cup got]
-----------------------------------------------------------------------------
(* The methods.                                                            *)

Method(name, reqKnown, reqWritten, respKnown, respWritten) ==
    [name |-> name, reqKnown |-> reqKnown, reqWritten |-> reqWritten,
     respKnown |-> respKnown, respWritten |-> respWritten]

PingMethod == Method("Ping", PingRequestKnown, PingRequestWritten,
                     PingResponseKnown, PingResponseWritten)
FindValueMethod == Method("FindValue", FindRequestKnown, FindRequestWritten,
                          FindResponseKnown, FindResponseWritten)
FindNodeMethod == Method("FindNode", FindRequestKnown, FindRequestWritten,
                         FindResponseKnown, FindResponseWritten)
StoreMethod == Method("Store", StoreRequestKnown, StoreRequestWritten,
                      StoreResponseKnown, StoreResponseWritten)
DownlistMethod == Method("Downlist", DownlistRequestKnown, DownlistRequestWritten,
                         DownlistResponseKnown, DownlistResponseWritten)
BootstrapMethod == Method("Bootstrap", BootstrapRequestKnown, BootstrapRequestWritten,
                          BootstrapResponseKnown, BootstrapResponseWritten)
DeleteMethod == Method("Delete", DeleteRequestKnown, DeleteRequestWritten,
                       DeleteResponseKnown, DeleteResponseWritten)
UpdateMethod == Method("Update", UpdateRequestKnown, UpdateRequestWritten,
                       UpdateResponseKnown, UpdateResponseWritten)
Methods == {PingMethod, FindValueMethod, FindNodeMethod, StoreMethod, DownlistMethod,
            BootstrapMethod, DeleteMethod, UpdateMethod}

\* The structs inside a request: who calls, the value to delete, its signature.
Inner ==
    [sender_info |-> [known |-> ContactInfoKnown, written |-> ContactInfoWritten],
     value |-> [known |-> SignedValueKnown, written |-> SignedValueWritten],
     signed_request |-> [known |-> SignedRequestKnown, written |-> SignedRequestWritten]]
InnerOf(method) == {f.name : f \in {k \in method.reqKnown : k.type = "struct"}} \cap DOMAIN Inner

NoCall == [name |-> "none", number |-> 0, held |-> {}]

Init ==
    /\ reopen \in {"throws", "returns"}
    /\ isOpen = FALSE
    /\ up = <<>> /\ down = <<>>
    /\ call = NoCall
    /\ made = 0
    /\ resp = New
    /\ last = [how |-> "none", of |-> 0, kept |-> {}]
    /\ gaveUp = FALSE
    /\ served = [method |-> "none"]
-----------------------------------------------------------------------------
Idle == call = NoCall /\ made < MaxCalls

\* open() throws: the transport is open already, or no peer answers.  The body of the
\* try is skipped, close() with it.
CannotOpen ==
    /\ Idle
    /\ isOpen => reopen = "throws"
    /\ made' = made + 1
    /\ last' = [how |-> "not open", of |-> made + 1, kept |-> {}]
    /\ UNCHANGED <<reopen, isOpen, up, down, call, resp, gaveUp, served>>

\* Faulty: a transport that an exception has left open is closed first.
SendClosedFirst(method, names, response) ==
    /\ Idle
    /\ isOpen' = TRUE
    /\ made' = made + 1
    /\ call' = [name |-> method.name, number |-> made + 1, held |-> response.said]
    /\ up' = <<[name |-> method.name, of |-> made + 1, meant |-> names, inner |-> <<>>,
                args |-> Write(method.reqWritten, Assign(New, names))]>>
    /\ down' = <<>>
    /\ resp' = response
    /\ UNCHANGED <<reopen, last, gaveUp, served>>

\* open(), the arguments, and send_X: assigning a field does not mark it as set.  The
\* caller hands in a response of its own, which may hold something already.
Send(method, names, response) ==
    /\ Idle
    /\ ~(isOpen /\ reopen = "throws")
    /\ isOpen' = TRUE
    /\ made' = made + 1
    /\ call' = [name |-> method.name, number |-> made + 1, held |-> response.said]
    /\ up' = Append(IF isOpen THEN up ELSE <<>>,
                    [name |-> method.name, of |-> made + 1, meant |-> names,
                     inner |-> [f \in InnerOf(method) \cap names |->
                         Write(Inner[f].written, Assign(New, Names(Inner[f].known)))],
                     args |-> Write(method.reqWritten, Assign(New, names))])
    /\ down' = IF isOpen THEN down ELSE <<>>
    /\ resp' = response
    /\ last' = [how |-> "none", of |-> 0, kept |-> {}]
    /\ UNCHANGED <<reopen, gaveUp, served>>

SendPing == Send(PingMethod, {"sender_info", "ping"}, New)
SendFindValue == Send(FindValueMethod, {"key", "sender_info"}, New)
SendFindNode == \E response \in {New, Assign(New, {"requester_ext_addr"})} :
    Send(FindNodeMethod,
         {"key", "sender_info"} \cup {b \in {"is_boostrap"} : response # New}, response)
SendStore == Send(StoreMethod, {"key", "value", "ttl", "publish", "sender_info"}, New)
SendSignedStore == Send(StoreMethod, {"key", "value", "ttl", "publish", "sender_info"}, New)
SendDownlist == Send(DownlistMethod, {"downlist", "sender_info"}, New)
SendBootstrap == Send(BootstrapMethod, {"newcomer_id", "newcomer_local_ip",
                                        "newcomer_local_port"}, New)
SendDelete == Send(DeleteMethod, {"key", "value", "sender_info", "signed_request"}, New)

\* KadRpcs has no Update; the generated client does, and its user would open and close
\* around it as the others do.
SendUpdate == Send(UpdateMethod, Names(UpdateRequestKnown), New)

\* The recv throws: the peer is gone or silent.  The catch does not close.
GiveUp ==
    /\ call # NoCall
    /\ call' = NoCall
    /\ gaveUp' = TRUE
    /\ last' = [how |-> "given up", of |-> call.number, kept |-> {}]
    /\ UNCHANGED <<reopen, isOpen, up, down, made, resp, served>>

\* Faulty: an exception is thrown before its body is read.
RefusedUnread(method) ==
    /\ call' = NoCall
    /\ last' = [how |-> "refused", of |-> Head(down).of, kept |-> {}]
    /\ UNCHANGED <<reopen, isOpen, up, down, made, resp, gaveUp, served>>

\* T_EXCEPTION is read and thrown, another method's name is skipped and thrown.
Refused(method) ==
    /\ call' = NoCall
    /\ last' = [how |-> "refused", of |-> Head(down).of, kept |-> {}]
    /\ down' = Tail(down)
    /\ UNCHANGED <<reopen, isOpen, up, made, resp, gaveUp, served>>

\* The result is read into the caller's response and the transport is closed; what it
\* had read ahead may stay in its buffer.
Answered(method) ==
    /\ resp' = ReadInto(method.respKnown, resp, Head(down).result)
    /\ isOpen' = FALSE
    /\ down' \in {<<>>, Tail(down)} /\ up' = <<>>
    /\ call' = NoCall
    /\ last' = [how |-> "answered", of |-> Head(down).of, kept |-> call.held]
    /\ UNCHANGED <<reopen, made, gaveUp, served>>

Receive(method) ==
    /\ call.name = method.name
    /\ down # <<>>
    /\ IF Head(down).type = "exception" \/ Head(down).name # method.name
       THEN Refused(method)
       ELSE Answered(method)

ReceivePing == Receive(PingMethod)
ReceiveFindValue == Receive(FindValueMethod)
ReceiveFindNode == Receive(FindNodeMethod)
ReceiveStore == Receive(StoreMethod)
ReceiveDownlist == Receive(DownlistMethod)
ReceiveBootstrap == Receive(BootstrapMethod)
ReceiveDelete == Receive(DeleteMethod)
ReceiveUpdate == Receive(UpdateMethod)
-----------------------------------------------------------------------------
\* args.read: the request the handler is given, and the structs inside it.
Request(method, message) ==
    [method |-> method.name, meant |-> message.meant,
     got |-> ReadInto(method.reqKnown, New, message.args),
     inner |-> [f \in DOMAIN message.inner |-> ReadInto(Inner[f].known, New, message.inner[f])]]

\* The handler's answer, or the exception it threw.
Replies(method) ==
    [type : {"reply", "exception"}, name : {method.name},
     result : {Write(method.respWritten, Assign(New, Names(method.respKnown)))}]

\* Faulty: the processor goes on after it has written the exception.
ProcessOn(method) ==
    /\ up # <<>> /\ Head(up).name = method.name
    /\ served' = Request(method, Head(up))
    /\ \E reply \in Replies(method) :
           LET at(r) == [type |-> r, name |-> reply.name, result |-> reply.result,
                         of |-> Head(up).of]
           IN  down' = down \o (IF reply.type = "exception" THEN <<at("exception"), at("reply")>>
                                ELSE <<at("reply")>>)
    /\ up' = Tail(up)
    /\ UNCHANGED <<reopen, isOpen, call, made, resp, last, gaveUp>>

Process(method) ==
    /\ up # <<>> /\ Head(up).name = method.name
    /\ served' = Request(method, Head(up))
    /\ \E reply \in Replies(method) :
           down' = Append(down, [type |-> reply.type, name |-> reply.name,
                                 result |-> reply.result, of |-> Head(up).of])
    /\ up' = Tail(up)
    /\ UNCHANGED <<reopen, isOpen, call, made, resp, last, gaveUp>>

ProcessPing == Process(PingMethod)
ProcessFindValue == Process(FindValueMethod)
ProcessFindNode == Process(FindNodeMethod)
ProcessStore == Process(StoreMethod)
ProcessDownlist == Process(DownlistMethod)
ProcessBootstrap == Process(BootstrapMethod)
ProcessDelete == Process(DeleteMethod)
ProcessUpdate == Process(UpdateMethod)
-----------------------------------------------------------------------------
Next ==
    \/ CannotOpen \/ GiveUp
    \/ SendPing \/ SendFindValue \/ SendFindNode \/ SendStore \/ SendSignedStore
    \/ SendDownlist \/ SendBootstrap \/ SendDelete \/ SendUpdate
    \/ ReceivePing \/ ReceiveFindValue \/ ReceiveFindNode \/ ReceiveStore
    \/ ReceiveDownlist \/ ReceiveBootstrap \/ ReceiveDelete
    \/ ReceiveUpdate
    \/ ProcessPing \/ ProcessFindValue \/ ProcessFindNode \/ ProcessStore
    \/ ProcessDownlist \/ ProcessBootstrap \/ ProcessDelete
    \/ ProcessUpdate

Spec == Init /\ [][Next]_vars
-----------------------------------------------------------------------------
Always(name) == LET m == CHOOSE k \in Methods : k.name = name IN Names(m.reqWritten.always)

\* No call of KadRpcs marks an optional field (kadrpc.cpp:30-200 assigns, never touches
\* __isset) and neither does a handler: what the handler is given is what the caller
\* meant, less every optional field, and the value of Store is one of them
\* (kademlia_service_messages_types.cpp, StoreRequest::write), and the local and the
\* rendezvous address of the sender are others (contact_info_types.cpp).  Of the answer, an
\* optional field the caller's response held before is still there, and nothing else.
OptionalFieldsAreLost ==
    /\ served.method # "none" =>
           /\ served.got.said = served.meant \cap Always(served.method)
           /\ \A f \in DOMAIN served.inner :
                  served.inner[f].said = Names(Inner[f].written.always)
    /\ last.how = "answered" =>
           \E m \in Methods : resp.said = Names(m.respWritten.always) \cup last.kept

\* The client never compares seqid (KademliaService.cpp:1348-1391).  The connection is
\* left open by an exception, and a library whose open() accepts that goes on with it:
\* as long as no wait was given up, what ends a call still is what its own call caused.
EndedByItsOwn ==
    (last.how \in {"answered", "refused"} /\ ~gaveUp) => last.of = made

\* transport_->close() stands inside the try (kadrpc.cpp:46): with a library whose open()
\* throws on an open transport, once an exception has left it open no later call sends
\* anything or is answered.
OneExceptionEndsIt ==
    [][(reopen = "throws" /\ isOpen /\ call = NoCall)
          => (isOpen' /\ call' = NoCall /\ resp' = resp)]_vars
=============================================================================
