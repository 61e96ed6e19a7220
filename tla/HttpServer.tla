------------------------------- MODULE HttpServer -------------------------------
(***************************************************************************)
(* The life of the exporter (src/bg_worker.c) and the two servers it may   *)
(* be built with (src/http_server_backend): dumb, which reads from one     *)
(* client at a time, and mongoose, which polls all its connections.  Which *)
(* port they listen on is in ListenAddress.                                *)
(*                                                                         *)
(* A request arrives whole or in parts.  What the handler does with the    *)
(* table is in SlotTable and Scrape; of it, only the lock is here.         *)
(***************************************************************************)
EXTENDS ListenAddress

CONSTANTS
    Clients,
    NoClient,
    Backlog,             \* the connections listen lets wait
    MaxBodies            \* bound of the model: bodies are not counted beyond

ASSUME HttpServerAssumption ==
    /\ NoClient \notin Clients
    /\ Backlog \in Nat \ {0}
    /\ MaxBodies \in Nat \ {0, 1}

VARIABLES
    impl,                \* the server it was built with
    address,             \* metrics_listen_address
    port,                \* the port the server was made for, or 0
    worker,              \* the background worker as the postmaster sees it
    at,                  \* where its process is
    serving,             \* the client it is busy with
    backlog,             \* dumb: connections not accepted yet
    client,              \* how far each client is
    request,             \* what it has asked for
    response,            \* the status of the response being built
    answer,              \* the status it has received, and whether all of it
    lock,                \* the worker holds entry_search_lock
    bodies               \* response bodies allocated and not freed

endpoint   == <<impl, address, port>>
workerVars == <<endpoint, worker, at, serving, backlog, response, lock, bodies>>
clientVars == <<client, request, answer>>
vars       == <<workerVars, clientVars>>

Phases    == {"away", "connected", "part", "hung_up", "sent", "left", "answered", "dropped"}
Arrived   == {"sent", "left"}
Requests  == {"get_metrics", "post_metrics", "get_other"}
Statuses  == {0, 200, 404}
Nothing   == [status |-> 0, whole |-> TRUE]

TypeOK ==
    /\ impl \in {"dumb", "mongoose"}
    /\ address \in Addresses
    /\ worker \in {"starting", "created", "serving", "failed", "forgotten"}
    /\ at \in {"poll", "recv", "handle", "scrape", "reply"}
    /\ serving \in Clients \cup {NoClient}
    /\ backlog \in Seq(Clients) /\ Len(backlog) <= Backlog
    /\ client \in [Clients -> Phases]
    /\ request \in [Clients -> Requests \cup {"none"}]
    /\ response \in Statuses
    /\ answer \in [Clients -> [status : Statuses, whole : BOOLEAN]]
    /\ lock \in BOOLEAN
    /\ bodies \in 0 .. MaxBodies

Init ==
    /\ impl \in {"dumb", "mongoose"}
    /\ address \in {a \in Addresses : check_listen_address(a)}
    /\ port = 0
    /\ worker = "starting"
    /\ at = "poll"
    /\ serving = NoClient
    /\ backlog = <<>>
    /\ client = [c \in Clients |-> "away"]
    /\ request = [c \in Clients |-> "none"]
    /\ response = 0
    /\ answer = [c \in Clients |-> Nothing]
    /\ lock = FALSE
    /\ bodies = 0

-----------------------------------------------------------------------------
(* The clients.  None is obliged to send what it has begun, or to leave.   *)

ClientGoes(c, from, to) ==
    /\ client[c] = from
    /\ client' = [client EXCEPT ![c] = to]

Connect(c) ==
    /\ worker = "serving"
    /\ ClientGoes(c, "away", "connected")
    /\ IF impl = "dumb"
       THEN Len(backlog) < Backlog /\ backlog' = Append(backlog, c)
       ELSE UNCHANGED backlog
    /\ UNCHANGED <<endpoint, worker, at, serving, request, response, answer, lock, bodies>>

SendPart(c) ==
    /\ ClientGoes(c, "connected", "part")
    /\ UNCHANGED <<workerVars, request, answer>>

Send(c) ==
    /\ ClientGoes(c, "connected", "sent") \/ ClientGoes(c, "part", "sent")
    /\ \E r \in Requests : request' = [request EXCEPT ![c] = r]
    /\ UNCHANGED <<workerVars, answer>>

(* mongoose drops a connection that was closed; dumb finds out when it     *)
(* reads from it.  A request that has arrived is there to be handled, even *)
(* when its client is not.                                                 *)
HangUp(c) ==
    /\ \/ \E from \in {"connected", "part"} :
             ClientGoes(c, from, IF impl = "dumb" THEN "hung_up" ELSE "away")
       \/ ClientGoes(c, "sent", "left")
    /\ UNCHANGED <<workerVars, request, answer>>

Leave(c) ==
    /\ ClientGoes(c, "answered", "away") \/ ClientGoes(c, "dropped", "away")
    /\ request' = [request EXCEPT ![c] = "none"]
    /\ answer' = [answer EXCEPT ![c] = Nothing]
    /\ UNCHANGED workerVars

-----------------------------------------------------------------------------
(* pwh_bgworker_main *)

CreateServer ==
    /\ worker = "starting"
    /\ worker' = "created"
    /\ port' \in IF impl = "dumb" THEN DumbPort(address) ELSE MongoosePort(address)
    /\ UNCHANGED <<impl, address, at, serving, backlog, response, lock, bodies, clientVars>>

RunListens ==
    /\ worker = "created"
    /\ worker' = "serving"
    /\ UNCHANGED <<endpoint, at, serving, backlog, response, lock, bodies, clientVars>>

(* The process is gone: its connections are closed, its memory and its     *)
(* lock are let go.                                                        *)
ProcessEnds(exit) ==
    /\ worker' = exit
    /\ at' = "poll"
    /\ serving' = NoClient
    /\ backlog' = <<>>
    /\ client' = [c \in Clients |->
          IF client[c] \in {"connected", "part", "hung_up"} \cup Arrived THEN "dropped"
          ELSE client[c]]
    /\ response' = 0
    /\ lock' = FALSE
    /\ bodies' = 0
    /\ port' = 0
    /\ UNCHANGED <<impl, address, request, answer>>

(* The address is taken: pwh_http_server_run returns, proc_exit(0).        *)
RunFails == worker = "created" /\ ProcessEnds("forgotten")

(* handle_sigterm, at any point: pwh_http_server_stop, proc_exit(0).  The  *)
(* postmaster forgets a worker that exits with 0.                          *)
HandleSigterm == worker \in {"starting", "created", "serving"} /\ ProcessEnds("forgotten")

(* After an exit with 1 it starts the worker again (bgw_restart_time).     *)
RestartWorker ==
    /\ worker = "failed"
    /\ worker' = "starting"
    /\ UNCHANGED <<endpoint, at, serving, backlog, response, lock, bodies, clientVars>>

-----------------------------------------------------------------------------
(* dumb_run, handle_connection *)

(* Variant: the newest connection is accepted.                             *)
AcceptNewest ==
    /\ impl = "dumb"
    /\ at = "poll"
    /\ backlog # <<>>
    /\ serving' = Last(backlog)
    /\ backlog' = Front(backlog)
    /\ at' = "recv"
    /\ UNCHANGED <<endpoint, worker, response, lock, bodies, clientVars>>

Accept ==
    /\ impl = "dumb"
    /\ at = "poll"
    /\ backlog # <<>>
    /\ serving' = Head(backlog)
    /\ backlog' = Tail(backlog)
    /\ at' = "recv"
    /\ UNCHANGED <<endpoint, worker, response, lock, bodies, clientVars>>

(* One recv, which waits for as long as the client sends nothing.  A       *)
(* request that it did not get whole is not parsed and not answered.       *)
RecvRequest ==
    /\ at = "recv"
    /\ client[serving] \in Arrived
    /\ response' = 0
    /\ at' = "handle"
    /\ UNCHANGED <<endpoint, worker, serving, backlog, lock, bodies, clientVars>>

RecvFails ==
    /\ at = "recv"
    /\ ClientGoes(serving, "part", "dropped") \/ ClientGoes(serving, "hung_up", "away")
    /\ at' = "poll"
    /\ serving' = NoClient
    /\ UNCHANGED <<endpoint, worker, backlog, response, lock, bodies, request, answer>>

(* mongoose_event_handler is called for a message that has arrived whole,  *)
HttpMessage(c) ==
    /\ impl = "mongoose"
    /\ worker = "serving"
    /\ at = "poll"
    /\ client[c] \in Arrived
    /\ serving' = c
    /\ response' = 0
    /\ at' = "handle"
    /\ UNCHANGED <<endpoint, worker, backlog, lock, bodies, clientVars>>

(* ... unless the connection turns out to be closed first.                 *)
MessageLost(c) ==
    /\ impl = "mongoose"
    /\ worker = "serving"
    /\ at = "poll"
    /\ ClientGoes(c, "left", "away")
    /\ request' = [request EXCEPT ![c] = "none"]
    /\ UNCHANGED <<workerVars, answer>>

-----------------------------------------------------------------------------
(* metrics_handler *)

(* The body is a copy that is allocated here.                              *)
pwh_http_response_set_text(status) ==
    /\ response' = status
    /\ bodies' = IF bodies < MaxBodies THEN bodies + 1 ELSE bodies
    /\ at' = "reply"

(* Variant: the method is not looked at.                                   *)
IsMetricsPath(r) == r \in {"get_metrics", "post_metrics"}
IsMetricsRequest(r) == r = "get_metrics"

HandleOther ==
    /\ at = "handle"
    /\ ~IsMetricsRequest(request[serving])
    /\ pwh_http_response_set_text(404)
    /\ UNCHANGED <<endpoint, worker, serving, backlog, lock, clientVars>>

HandleMetrics ==
    /\ at = "handle"
    /\ IsMetricsRequest(request[serving])
    /\ lock' = TRUE
    /\ at' = "scrape"
    /\ UNCHANGED <<endpoint, worker, serving, backlog, response, bodies, clientVars>>

(* Variant: the lock is kept until the response has been sent.             *)
ScrapeDoneKeepsLock ==
    /\ at = "scrape"
    /\ pwh_http_response_set_text(200)
    /\ UNCHANGED <<endpoint, worker, serving, backlog, lock, clientVars>>

(* The formatter returns a text or raises an error, never NULL: the branch *)
(* that answers 500 is not taken.                                          *)
ScrapeDone ==
    /\ at = "scrape"
    /\ lock' = FALSE
    /\ pwh_http_response_set_text(200)
    /\ UNCHANGED <<endpoint, worker, serving, backlog, clientVars>>

(* An error in the handler, out of memory for one, ends the process with 1.*)
HandlerFails == at \in {"handle", "scrape"} /\ ProcessEnds("failed")

-----------------------------------------------------------------------------
(* The response is sent; a client that is gone does not stop the worker.   *)

Reply(whole) ==
    /\ IF client[serving] = "sent"
       THEN /\ client' = [client EXCEPT ![serving] = "answered"]
            /\ answer' = [answer EXCEPT ![serving] = [status |-> response, whole |-> whole]]
            /\ UNCHANGED request
       ELSE /\ client' = [client EXCEPT ![serving] = "away"]
            /\ request' = [request EXCEPT ![serving] = "none"]
            /\ UNCHANGED answer
    /\ serving' = NoClient
    /\ at' = "poll"
    /\ UNCHANGED <<endpoint, worker, backlog, response, lock>>

(* handle_connection builds it in a buffer that a text of metrics may not  *)
(* fit into, and does not free the body.                                   *)
DumbReply ==
    /\ impl = "dumb"
    /\ at = "reply"
    /\ \E whole \in BOOLEAN : (whole \/ response = 200) /\ Reply(whole)
    /\ UNCHANGED bodies

(* Variant: the body is not freed.                                         *)
MongooseReplyLeaks ==
    /\ impl = "mongoose"
    /\ at = "reply"
    /\ Reply(TRUE)
    /\ UNCHANGED bodies

(* Variant: the handler frees the body too.                                *)
MongooseReplyFreesTwice ==
    /\ impl = "mongoose"
    /\ at = "reply"
    /\ Reply(TRUE)
    /\ bodies' = bodies - 2

MongooseReply ==
    /\ impl = "mongoose"
    /\ at = "reply"
    /\ Reply(TRUE)
    /\ bodies' = bodies - 1

-----------------------------------------------------------------------------
ClientNext(c) == Connect(c) \/ SendPart(c) \/ Send(c) \/ HangUp(c) \/ Leave(c)

Handle == HandleOther \/ HandleMetrics \/ ScrapeDone \/ DumbReply \/ MongooseReply
DumbStep == Accept \/ RecvRequest \/ RecvFails

WorkerNext ==
    \/ CreateServer \/ RunListens \/ RunFails \/ HandleSigterm \/ RestartWorker
    \/ DumbStep \/ (\E c \in Clients : HttpMessage(c) \/ MessageLost(c))
    \/ Handle \/ HandlerFails

Next == WorkerNext \/ \E c \in Clients : ClientNext(c)

Spec == Init /\ [][Next]_vars

(* The worker goes on wherever it need not wait for a client, mongoose     *)
(* comes round to every connection, and the postmaster starts it again.    *)
(* Nothing is assumed of the clients.                                      *)
Fairness ==
    /\ WF_vars(CreateServer) /\ WF_vars(RunListens \/ RunFails) /\ WF_vars(RestartWorker)
    /\ WF_vars(DumbStep)
    /\ WF_vars(Handle \/ HandlerFails)
    /\ \A c \in Clients : SF_vars(HttpMessage(c))

FairSpec == Spec /\ Fairness

-----------------------------------------------------------------------------
(* What mongoose makes another port of: a URL that it has cut, as MaxHost  *)
(* lets hosts through that its buffer does not hold, and one with a slash  *)
(* before the colon, as nothing looks at the host.                         *)
IsCut(a)   == Url(a) # a
HasPath(a) == \E i \in First(a) : \E j \in 1 .. i - 1 : a[j] = Slash

(* The worker listens on the port that was checked when the setting was    *)
(* made, whichever server it was built with and however often it is        *)
(* started.  Two kinds of address that check_listen_address accepts are    *)
(* excepted with mongoose; of these, one that has a path and is not cut    *)
(* makes it listen on port 80.                                             *)
ListensOnCheckedPort ==
    worker \in {"created", "serving"} =>
        IF impl = "dumb" \/ ~(IsCut(address) \/ HasPath(address))
        THEN port \in CheckedPort(address) /\ port \in 1 .. MaxPort
        ELSE IsCut(address) \/ port = 80

(* A client never prolongs the time the lock is held, whether it stays or  *)
(* leaves, and nothing that ends the process leaves it taken: whenever the *)
(* worker is not in the middle of a scrape for a request that has arrived, *)
(* backends may take the lock.                                             *)
NoLockBetweenScrapes ==
    lock => /\ worker = "serving"
            /\ at = "scrape"
            /\ serving \in Clients /\ client[serving] \in Arrived

(* "post_returns_404", "invalid_path_returns_404" (endpoint_stress.sql):   *)
(* however connections come and go, the answer a client gets is the one to *)
(* its own request, and mongoose sends all of it.                          *)
AnswersOwnRequest ==
    \A c \in Clients : client[c] = "answered" =>
        /\ answer[c].status = IF request[c] = "get_metrics" THEN 200 ELSE 404
        /\ impl = "mongoose" => answer[c].whole

(* mongoose frees what it has sent, after every kind of response.          *)
BodiesAreFreed == impl = "mongoose" => bodies <= 1 /\ (at = "poll" => bodies = 0)

(* "Server should handle concurrent load gracefully" (endpoint_stress.sql):*)
(* a request that has arrived is answered in the end, or its connection    *)
(* closed, whatever other clients do; with dumb, unless another client     *)
(* that sends nothing holds the worker in recv.                            *)
HeldUp == at = "recv" /\ client[serving] = "connected"

RequestIsServed ==
    \A c \in Clients : client[c] = "sent" ~> (client[c] # "sent" \/ HeldUp)
=============================================================================
