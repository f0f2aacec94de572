----------------------------- MODULE Connection -----------------------------
(***************************************************************************)
(* The request pipeline of src/http_connection.cpp and                     *)
(* src/kv_connection.cpp: client threads that call send on a client        *)
(* connection, the server connection at the other end that answers from    *)
(* the file cache (HTTP) or the hash table (KV), and the reader of the     *)
(* client connection that hands every response to the callback at the      *)
(* front of response_cbs_.  The connections of one server share one        *)
(* service manager (src/server.cpp): a quit request on any of them stops   *)
(* the service of all.                                                      *)
(*                                                                         *)
(* A message is one element of a FIFO: the out_ buffer of the writer, the  *)
(* socket and the in_ buffer of the reader are one sequence.  A callback   *)
(* is named by the client whose send made it.                              *)
(***************************************************************************)
EXTENDS Integers, Sequences

CONSTANTS
    Clients,     \* the threads that call send
    HttpConns,   \* the HTTPClientConnection / HTTPServerConnection pairs
    KvConns,     \* the KVClientConnection / KVServerConnection pairs
    MaxSends     \* bound of the model: the calls of send

Connections == HttpConns \cup KvConns

ASSUME HttpConns \cap KvConns = {} /\ MaxSends \in Nat

NoOne      == "no one"         \* an unlocked mutex
NoConn     == "no connection"
NoResponse == [to |-> NoOne, body |-> "none"]    \* *user_response not yet set

Addresses == {"quit", "stats", "get"}    \* request_.address
Bodies    == {"stats", "file", "unavailable", "value", "not found"}

Request  == [from : Clients, address : Addresses]
\* What the client reads: a response, or bytes that are none.
Frame    == [to : Clients, body : Bodies \cup {"junk"}]

VARIABLES
    pc,             \* pc[s]: where client s is in send
    conn,           \* conn[s]: the connection s sends on
    address,        \* address[s]: request->address
    user_response,  \* user_response[s]: *user_response
    m_response,     \* m_response[c]: the holder of m_response_
    response_cbs,   \* response_cbs[c]: response_cbs_
    requests,       \* requests[c]: the bytes from client to server
    responses,      \* responses[c]: the bytes from server to client
    ok,             \* ok[c]: the client connection is open
    stopped,        \* the service manager was told to stop
    sends,          \* the calls of send so far
    finished,       \* the calls of RequestStats::finishedRequest
    pinned          \* the handles FileCache::pin gave to handleRequest

vars == <<pc, conn, address, user_response, m_response, response_cbs,
          requests, responses, ok, stopped, sends, finished, pinned>>

senderVars == <<pc, conn, address, sends>>
serverVars == <<stopped, finished, pinned>>

TypeOK ==
    /\ pc \in [Clients -> {"idle", "write", "wait"}]
    /\ conn \in [Clients -> Connections \cup {NoConn}]
    /\ address \in [Clients -> Addresses]
    /\ user_response \in [Clients -> Frame \cup {NoResponse}]
    /\ m_response \in [Connections -> Clients \cup {NoOne}]
    /\ \A c \in Connections :        \* held inside asyncSend only
           m_response[c] # NoOne => pc[m_response[c]] = "write" /\ conn[m_response[c]] = c
    /\ response_cbs \in [Connections -> Seq(Clients)]
    /\ requests \in [Connections -> Seq(Request)]
    /\ responses \in [Connections -> Seq(Frame)]
    /\ \A c \in Connections : Len(responses[c]) <= 2 * MaxSends
    /\ ok \in [Connections -> BOOLEAN]
    /\ stopped \in BOOLEAN
    /\ sends \in 0 .. MaxSends
    /\ finished \in 0 .. MaxSends
    /\ pinned \in 0 .. MaxSends

\* The connections are made and connDone has started the reads.
Init ==
    /\ pc = [s \in Clients |-> "idle"]
    /\ conn = [s \in Clients |-> NoConn]
    /\ address = [s \in Clients |-> "get"]
    /\ user_response = [s \in Clients |-> NoResponse]
    /\ m_response = [c \in Connections |-> NoOne]
    /\ response_cbs = [c \in Connections |-> <<>>]
    /\ requests = [c \in Connections |-> <<>>]
    /\ responses = [c \in Connections |-> <<>>]
    /\ ok = [c \in Connections |-> TRUE]
    /\ stopped = FALSE
    /\ sends = 0 /\ finished = 0 /\ pinned = 0

-----------------------------------------------------------------------------
(* The client: send, asyncSend and receiveInternal.                        *)

\* A fault-injection variant of AsyncSendPush: the callback is enqueued
\* without m_response_.
AsyncSendPush_NoLock(s, c, a) ==
    /\ pc[s] = "idle" /\ sends < MaxSends
    /\ response_cbs' = [response_cbs EXCEPT ![c] = Append(@, s)]
    /\ pc' = [pc EXCEPT ![s] = "write"]
    /\ conn' = [conn EXCEPT ![s] = c]
    /\ address' = [address EXCEPT ![s] = a]
    /\ sends' = sends + 1
    /\ UNCHANGED <<user_response, m_response, requests, responses, ok, serverVars>>

\* send makes the callback receiveInternal and calls asyncSend, which takes
\* m_response_ and enqueues the callback.
AsyncSendPush(s, c, a) ==
    /\ pc[s] = "idle" /\ sends < MaxSends
    /\ m_response[c] = NoOne
    /\ m_response' = [m_response EXCEPT ![c] = s]
    /\ response_cbs' = [response_cbs EXCEPT ![c] = Append(@, s)]
    /\ pc' = [pc EXCEPT ![s] = "write"]
    /\ conn' = [conn EXCEPT ![s] = c]
    /\ address' = [address EXCEPT ![s] = a]
    /\ sends' = sends + 1
    /\ UNCHANGED <<user_response, requests, responses, ok, serverVars>>

\* A fault-injection variant of AsyncSendWrite: m_response_ is not unlocked.
AsyncSendWrite_KeepsLock(s) ==
    /\ pc[s] = "write"
    /\ requests' = [requests EXCEPT
                       ![conn[s]] = Append(@, [from |-> s, address |-> address[s]])]
    /\ pc' = [pc EXCEPT ![s] = "wait"]
    /\ UNCHANGED <<conn, address, sends, user_response, m_response, response_cbs,
                   responses, ok, serverVars>>

\* request->toBuffer(&out_) under m_write_, the unlock of m_response_ and
\* startWrite; send then waits for the notification.
AsyncSendWrite(s) ==
    /\ pc[s] = "write"
    /\ requests' = [requests EXCEPT
                       ![conn[s]] = Append(@, [from |-> s, address |-> address[s]])]
    /\ m_response' = [m_response EXCEPT ![conn[s]] = NoOne]
    /\ pc' = [pc EXCEPT ![s] = "wait"]
    /\ UNCHANGED <<conn, address, sends, user_response, response_cbs, responses,
                   ok, serverVars>>

\* receiveInternal has notified: n->wait() returns and send with it.
SendReturn(s) ==
    /\ pc[s] = "wait" /\ user_response[s] # NoResponse
    /\ pc' = [pc EXCEPT ![s] = "idle"]
    /\ conn' = [conn EXCEPT ![s] = NoConn]
    /\ address' = [address EXCEPT ![s] = "get"]
    /\ user_response' = [user_response EXCEPT ![s] = NoResponse]
    /\ UNCHANGED <<sends, m_response, response_cbs, requests, responses, ok,
                   serverVars>>

\* cb is the front of response_cbs_, if there is one, and is called with the
\* response: receiveInternal stores it and notifies.
receiveInternal(cb, response) ==
    user_response' = [s \in Clients |-> IF <<s>> = cb THEN response
                                                      ELSE user_response[s]]

\* The front of response_cbs_ as a sequence: empty when cb stays NULL.
Front(cbs) == IF cbs = <<>> THEN <<>> ELSE <<Head(cbs)>>

\* A fault-injection variant of handleResponse: the callback is taken and
\* not called.
handleResponse_NoCall(c, response) ==
    /\ m_response[c] = NoOne
    /\ response_cbs' = [response_cbs EXCEPT ![c] = SubSeq(@, 2, Len(@))]
    /\ UNCHANGED <<user_response, ok>>

handleResponse(c, response) ==
    /\ m_response[c] = NoOne
    /\ response_cbs' = [response_cbs EXCEPT ![c] = SubSeq(@, 2, Len(@))]
    /\ receiveInternal(Front(response_cbs[c]), response)
    /\ UNCHANGED ok

\* Parser::parseResponse fails on bytes that are no response: readDone
\* returns false and the connection is closed.
ParseError(c) ==
    /\ ok' = [ok EXCEPT ![c] = FALSE]
    /\ UNCHANGED <<responses, response_cbs, user_response>>

\* readDone of the client connection: one turn of its loop.
ClientReadDone(c) ==
    /\ ok[c] /\ responses[c] # <<>>
    /\ LET frame == Head(responses[c])
       IN  \/ frame.body = "junk" /\ ParseError(c)
           \/ /\ frame.body # "junk"
              /\ responses' = [responses EXCEPT ![c] = Tail(@)]
              /\ handleResponse(c, frame)
    /\ UNCHANGED <<senderVars, m_response, requests, serverVars>>

-----------------------------------------------------------------------------
(* The server: readDone and handleRequest.                                 *)

\* The response is written to out_ under m_write_, and startWrite.
Answer(c, frames) == responses' = [responses EXCEPT ![c] = @ \o frames]

HandleQuit(c, request) ==
    /\ request.address = "quit"
    /\ stopped' = TRUE                 \* my_service_->stop(); return false
    /\ UNCHANGED <<responses, finished, pinned>>

HandleStats(c, request) ==
    /\ request.address = "stats"
    /\ Answer(c, <<[to |-> request.from, body |-> "stats"]>>)
    /\ UNCHANGED <<stopped, finished, pinned>>

\* A file: 200 and the buffer of the handle that pin gave, or 503 when pin
\* gave none.  The handle is not given back.
HttpServe(c, request) ==
    /\ request.address = "get"
    /\ \/ /\ Answer(c, <<[to |-> request.from, body |-> "file"]>>)
          /\ pinned' = pinned + 1
       \/ /\ Answer(c, <<[to |-> request.from, body |-> "unavailable"]>>)
          /\ UNCHANGED pinned
    /\ finished' = finished + 1
    /\ UNCHANGED stopped

\* A key: 200 and the value, or 200 with Content-Length: 0 followed by a
\* line of text, which is no part of the response.
KvServe(c, request) ==
    /\ request.address = "get"
    /\ \/ Answer(c, <<[to |-> request.from, body |-> "value"]>>)
       \/ Answer(c, <<[to |-> request.from, body |-> "not found"],
                      [to |-> request.from, body |-> "junk"]>>)
    /\ finished' = finished + 1
    /\ UNCHANGED <<stopped, pinned>>

HTTPServerConnection_handleRequest(c, request) ==
    /\ c \in HttpConns
    /\ HandleQuit(c, request) \/ HandleStats(c, request) \/ HttpServe(c, request)

KVServerConnection_handleRequest(c, request) ==
    /\ c \in KvConns
    /\ HandleQuit(c, request) \/ HandleStats(c, request) \/ KvServe(c, request)

\* readDone of the server connection: one turn of its loop.  No request is
\* read once the service is stopped.
ServerReadDone(c) ==
    /\ ~stopped /\ requests[c] # <<>>
    /\ requests' = [requests EXCEPT ![c] = Tail(@)]
    /\ \/ HTTPServerConnection_handleRequest(c, Head(requests[c]))
       \/ KVServerConnection_handleRequest(c, Head(requests[c]))
    /\ UNCHANGED <<senderVars, user_response, m_response, response_cbs, ok>>

-----------------------------------------------------------------------------

send(s) ==
    \/ \E c \in Connections, a \in Addresses : AsyncSendPush(s, c, a)
    \/ AsyncSendWrite(s)
    \/ SendReturn(s)

Next ==
    \/ \E s \in Clients : send(s)
    \/ \E c \in Connections : ServerReadDone(c) \/ ClientReadDone(c)

Spec == Init /\ [][Next]_vars

\* The io manager calls readDone when there is something to read, and a
\* thread inside asyncSend or woken from its wait goes on.
Fairness ==
    /\ \A c \in Connections : WF_vars(ServerReadDone(c)) /\ WF_vars(ClientReadDone(c))
    /\ \A s \in Clients : WF_vars(AsyncSendWrite(s)) /\ WF_vars(SendReturn(s))

FairSpec == Spec /\ Fairness

-----------------------------------------------------------------------------
(* Properties.                                                             *)

\* The bodies that answer a request for address a on connection c.
Answers(c, a) ==
    CASE a = "stats" -> {"stats"}
      [] a = "quit"  -> {}
      [] a = "get"   -> IF c \in HttpConns THEN {"file", "unavailable"}
                                           ELSE {"value", "not found"}

\* send returns the response to its own request: responses carry no name,
\* handleResponse gives each to the callback at the front of response_cbs_,
\* and asyncSend keeps the callbacks in the order of the requests on the
\* wire by holding m_response_ from the enqueue to the write, whatever
\* other clients send on the same connection in between.
OwnResponse ==
    \A s \in Clients :
        user_response[s] # NoResponse =>
            /\ user_response[s].to = s
            /\ user_response[s].body \in Answers(conn[s], address[s])

\* A send that waits returns, unless the service is stopped by a quit
\* (handleRequest answers neither the quit nor what was sent behind it) or
\* the client connection is closed after a parse error (the text that
\* KVServerConnection::handleRequest writes behind a response for a key
\* that is not found).
SendReturns ==
    \A s \in Clients, c \in Connections :
        (pc[s] = "wait" /\ conn[s] = c) ~> (pc[s] = "idle" \/ stopped \/ ~ok[c])

=============================================================================
