--------------------------- MODULE HttpFileServer ---------------------------
(***************************************************************************)
(* The file cache as the HTTP server uses it: the workers of the server    *)
(* run HTTPServerConnection::handleRequest (src/http_connection.cpp), which *)
(* pins the document of the request, copies the buffer into the response   *)
(* and returns.  The steps of pin are those of FileCache; the handle is a  *)
(* local variable of handleRequest.                                        *)
(***************************************************************************)
EXTENDS FileCache

VARIABLE
    status         \* status[t]: "pending" while worker t handles a request,
                   \* then the status line of the response it wrote

httpVars == <<vars, status>>

Statuses == {"none", "pending", "200", "503"}

HttpTypeOK == TypeOK /\ status \in [Threads -> Statuses]

HttpInit == Init /\ status = [t \in Threads |-> "none"]

\* A request for document f arrives at worker t: handleRequest calls
\* file_cache_->pin(request_.address, &buf, &error).
handleRequest(t, f) ==
    /\ status[t] # "pending"
    /\ PinBegin(t, f)
    /\ status' = [status EXCEPT ![t] = "pending"]

\* pin has returned: 200 with the buffer if the handle is not 0, 503
\* otherwise; the request is counted and the response written.  The handle
\* h goes out of scope with the return of handleRequest.
Respond(t) ==
    /\ status[t] = "pending" /\ pc[t] = "idle"
    /\ status' = [status EXCEPT ![t] = IF ret[t] = NoHandle THEN "503" ELSE "200"]
    /\ held' = [held EXCEPT ![t] = {}]
    /\ UNCHANGED <<fds, cacheVars, counters, lockVars, pc, loc, ret, fatal>>

HttpNext ==
    \E t \in Threads :
        \/ \E f \in Files : handleRequest(t, f)
        \/ PinStep(t) /\ UNCHANGED status
        \/ Respond(t)

HttpSpec == HttpInit /\ [][HttpNext]_httpVars

-----------------------------------------------------------------------------
\* "Pin/unpin: a reference count asserting that a cached buffer must not be
\* evicted": a document is pinned while a handleRequest reads its buffer,
\* and its pin count is the number of the requests that do, so that a
\* document no request is reading can make room for another one.
PinnedWhileServed ==
    \A f \in Cached : cache_map[f].stat = Cardinality(Holders(f))

=============================================================================
