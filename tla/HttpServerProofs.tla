---------------------------- MODULE HttpServerProofs ----------------------------
(***************************************************************************)
(* Proofs about ListenAddress and HttpServer, for either server, any       *)
(* number of clients, any texts and any limits.                            *)
(***************************************************************************)
EXTENDS HttpServer, TLAPS

(* An accepted text has one colon, so that the first is the last.          *)
LEMMA OneColon ==
    ASSUME NEW a \in Seq(Char), check_listen_address(a)
    PROVE  /\ First(a) = Final(a)
           /\ First(a) # {}
           /\ \A i, j \in First(a) : i = j
<1>1. PICK i \in First(a) : IsNumber(After(a, i))
  BY DEF check_listen_address
<1>2. i \in 1 .. Len(a) /\ a[i] = Colon /\ \A j \in Colons(a) : i <= j
  BY <1>1 DEF First, Colons
<1>3. ASSUME NEW j \in Colons(a) PROVE j = i
  <2>. SUFFICES ASSUME j # i PROVE FALSE
    OBVIOUS
  <2>1. j \in 1 .. Len(a) /\ a[j] = Colon /\ i < j
    BY <1>2, <1>3 DEF Colons
  <2>2. j - i \in DOMAIN After(a, i) /\ After(a, i)[j - i] = a[j]
    BY <1>2, <2>1 DEF After
  <2>3. a[j] \in Digit
    BY <1>1, <2>2 DEF IsNumber
  <2>. QED  BY <2>1, <2>3 DEF Digit, Colon
<1>4. i \in Colons(a) /\ i <= i
  BY <1>2 DEF Colons
<1>. QED  BY <1>1, <1>3, <1>4 DEF First, Final

(* On which port the two servers listen for a text that the check accepts: *)
(* dumb always on the one that was checked; mongoose, when it has not cut  *)
(* the URL, on that one too, unless a slash in the host hides it, and then *)
(* on 80.                                                                  *)
THEOREM PortsAgree ==
    ASSUME NEW a \in Seq(Char), check_listen_address(a)
    PROVE  /\ CheckedPort(a) \subseteq 1 .. MaxPort
           /\ DumbPort(a) = CheckedPort(a)
           /\ ~IsCut(a) =>
                 MongoosePort(a) = IF HasPath(a) THEN {80} ELSE CheckedPort(a)
<1>1. First(a) = Final(a) /\ First(a) # {} /\ \A i, j \in First(a) : i = j
  BY OneColon
<1>2. Colons(a) # {}
  BY <1>1 DEF First
<1>3. CheckedPort(a) \subseteq 1 .. MaxPort
  BY <1>1 DEF check_listen_address, CheckedPort
<1>4. DumbPort(a) = CheckedPort(a)
  BY <1>1, <1>2 DEF DumbPort, CheckedPort
<1>5. PICK i \in First(a) : First(a) = {i}
  BY <1>1
<1>6. ASSUME HasPath(a) PROVE PortColon(a) = {}
  BY <1>5, <1>6 DEF HasPath, PortColon
<1>7. ASSUME ~HasPath(a) PROVE PortColon(a) = First(a)
  BY <1>7 DEF HasPath, PortColon
<1>8. ASSUME ~IsCut(a)
      PROVE  MongoosePort(a) = IF HasPath(a) THEN {80} ELSE CheckedPort(a)
  <2>1. MongoosePort(a) = IF PortColon(a) = {} THEN {80}
                          ELSE {Number(After(a, j)) : j \in PortColon(a)}
    BY <1>8 DEF IsCut, MongoosePort
  <2>. QED  BY <2>1, <1>1, <1>6, <1>7 DEF CheckedPort
<1>. QED  BY <1>3, <1>4, <1>8

-----------------------------------------------------------------------------
(* Where the worker may be, and whom it is busy with.                      *)
Busy ==
    /\ at # "poll" => worker = "serving" /\ serving \in Clients
    /\ at \in {"handle", "scrape", "reply"} => client[serving] \in Arrived
    /\ at = "recv" => impl = "dumb"
    /\ backlog # <<>> => worker = "serving"

(* What it is about to answer is the answer to the request at hand.        *)
Due ==
    /\ at = "scrape" => request[serving] = "get_metrics"
    /\ at = "reply" => response = IF request[serving] = "get_metrics" THEN 200 ELSE 404

Held      == lock => at = "scrape"
Allocated == impl = "mongoose" => bodies = IF at = "reply" THEN 1 ELSE 0

Listens ==
    /\ check_listen_address(address)
    /\ worker \in {"created", "serving"} =>
          port \in IF impl = "dumb" THEN DumbPort(address) ELSE MongoosePort(address)

ServerInv ==
    TypeOK /\ Busy /\ Due /\ Held /\ Allocated /\ Listens /\ AnswersOwnRequest

LEMMA AddressType == ASSUME TypeOK PROVE address \in Seq(Char)
BY ListenAddressAssumption DEF TypeOK

LEMMA NumberType == ASSUME TypeOK, Listens PROVE ListensOnCheckedPort
<1>. SUFFICES ASSUME worker \in {"created", "serving"}
              PROVE  IF impl = "dumb" \/ ~(IsCut(address) \/ HasPath(address))
                     THEN port \in CheckedPort(address) /\ port \in 1 .. MaxPort
                     ELSE IsCut(address) \/ port = 80
  BY DEF ListensOnCheckedPort
<1>1. /\ CheckedPort(address) \subseteq 1 .. MaxPort
      /\ DumbPort(address) = CheckedPort(address)
      /\ ~IsCut(address) =>
            MongoosePort(address) = IF HasPath(address) THEN {80} ELSE CheckedPort(address)
  BY AddressType, PortsAgree DEF Listens
<1>2. port \in IF impl = "dumb" THEN DumbPort(address) ELSE MongoosePort(address)
  BY DEF Listens
<1>. QED  BY <1>1, <1>2

LEMMA ServerInitial == Init => ServerInv
<1>. SUFFICES ASSUME Init PROVE ServerInv
  OBVIOUS
<1>1. TypeOK
  <2>1. backlog \in Seq(Clients) /\ Len(backlog) <= Backlog
    BY HttpServerAssumption DEF Init
  <2>2. answer \in [Clients -> [status : Statuses, whole : BOOLEAN]]
    BY DEF Init, Statuses, Nothing
  <2>3. /\ client \in [Clients -> Phases]
        /\ request \in [Clients -> Requests \cup {"none"}]
        /\ address \in Addresses
    BY DEF Init, Phases
  <2>4. bodies \in 0 .. MaxBodies /\ response \in Statuses
    BY HttpServerAssumption DEF Init, Statuses
  <2>. QED  BY <2>1, <2>2, <2>3, <2>4 DEF Init, TypeOK
<1>2. Busy /\ Due /\ Held /\ Allocated /\ Listens /\ AnswersOwnRequest
  BY DEF Init, Busy, Due, Held, Allocated, Listens, AnswersOwnRequest
<1>. QED  BY <1>1, <1>2 DEF ServerInv

-----------------------------------------------------------------------------
(* A step of a client: of one that is being answered, only that it leaves. *)
LEMMA ClientStep ==
    ASSUME ServerInv, NEW c \in Clients, ClientNext(c)
    PROVE  ServerInv'
<1>. USE DEF ServerInv
<1>1. /\ endpoint' = endpoint /\ worker' = worker /\ at' = at /\ serving' = serving
      /\ response' = response /\ lock' = lock /\ bodies' = bodies
      /\ backlog' = backlog \/ (worker = "serving" /\ Connect(c))
  BY DEF ClientNext, Connect, SendPart, Send, HangUp, Leave, ClientGoes, workerVars
<1>2. impl' = impl /\ address' = address /\ port' = port
  BY <1>1 DEF endpoint
<1>3. \E from, to \in Phases :
          /\ client[c] = from /\ from # "left"
          /\ from = "sent" => to = "left" /\ UNCHANGED request
          /\ client' = [client EXCEPT ![c] = to]
          /\ to # "answered"
  BY DEF ClientNext, Connect, SendPart, Send, HangUp, Leave, ClientGoes, Phases
<1>4. /\ request' \in [Clients -> Requests \cup {"none"}]
      /\ \A d \in Clients : d # c => request'[d] = request[d]
  BY DEF ClientNext, Connect, SendPart, Send, HangUp, Leave, TypeOK
<1>5. /\ answer' \in [Clients -> [status : Statuses, whole : BOOLEAN]]
      /\ \A d \in Clients : d # c => answer'[d] = answer[d]
  <2>1. CASE Leave(c)
    <3>1. answer' = [answer EXCEPT ![c] = Nothing]
      BY <2>1 DEF Leave
    <3>2. Nothing \in [status : Statuses, whole : BOOLEAN]
      BY DEF Nothing, Statuses
    <3>. QED  BY <3>1, <3>2 DEF TypeOK
  <2>2. CASE answer' = answer
    BY <2>2 DEF TypeOK
  <2>. QED  BY <2>1, <2>2 DEF ClientNext, Connect, SendPart, Send, HangUp
<1>6. /\ client' \in [Clients -> Phases] /\ client'[c] # "answered"
      /\ client[c] \in Arrived => client'[c] \in Arrived /\ request' = request
      /\ \A d \in Clients : d # c => client'[d] = client[d]
  BY <1>3 DEF TypeOK, Arrived
<1>7. backlog' \in Seq(Clients) /\ Len(backlog') <= Backlog
  <2>1. CASE backlog' = backlog
    BY <2>1 DEF TypeOK
  <2>2. CASE backlog' = Append(backlog, c) /\ Len(backlog) < Backlog
    BY <2>2, HttpServerAssumption DEF TypeOK
  <2>. QED
    BY <2>1, <2>2 DEF ClientNext, Connect, SendPart, Send, HangUp, Leave, workerVars
<1>8. TypeOK'
  BY <1>1, <1>2, <1>4, <1>5, <1>6, <1>7 DEF TypeOK
<1>9. at \in {"handle", "scrape", "reply"} =>
          /\ serving \in Clients /\ client[serving] \in Arrived
          /\ client'[serving] \in Arrived /\ request'[serving] = request[serving]
  BY <1>4, <1>6 DEF Busy
<1>10. Busy'
  BY <1>1, <1>2, <1>6, <1>9 DEF Busy
<1>11. Due'
  BY <1>1, <1>4, <1>9 DEF Due
<1>12. Held' /\ Allocated' /\ Listens'
  BY <1>1, <1>2 DEF Held, Allocated, Listens
<1>13. AnswersOwnRequest'
  BY <1>2, <1>4, <1>5, <1>6 DEF AnswersOwnRequest
<1>. QED  BY <1>8, <1>10, <1>11, <1>12, <1>13

(* The process ends: nothing of it is left, and its clients keep what they *)
(* have got.                                                               *)
LEMMA EndStep ==
    ASSUME ServerInv, NEW exit \in {"failed", "forgotten"}, ProcessEnds(exit)
    PROVE  ServerInv'
<1>. USE DEF ServerInv, ProcessEnds
<1>1. TypeOK'
  <2>1. client' \in [Clients -> Phases]
    BY DEF TypeOK, Phases
  <2>2. backlog' \in Seq(Clients) /\ Len(backlog') <= Backlog
    BY HttpServerAssumption
  <2>3. bodies' \in 0 .. MaxBodies /\ response' \in Statuses
    BY HttpServerAssumption DEF Statuses
  <2>. QED  BY <2>1, <2>2, <2>3 DEF TypeOK
<1>2. Busy' /\ Due' /\ Held' /\ Allocated' /\ Listens'
  BY DEF Busy, Due, Held, Allocated, Listens
<1>3. \A c \in Clients : client'[c] = "answered" => client[c] = "answered"
  BY DEF TypeOK
<1>4. AnswersOwnRequest'
  BY <1>3 DEF AnswersOwnRequest
<1>. QED  BY <1>1, <1>2, <1>4

(* The steps of the worker's main function.                                *)
LEMMA StartStep ==
    ASSUME ServerInv, CreateServer \/ RunListens \/ RestartWorker
    PROVE  ServerInv'
<1>. USE DEF ServerInv, CreateServer, RunListens, RestartWorker
<1>1. /\ impl' = impl /\ address' = address
      /\ UNCHANGED <<at, serving, backlog, response, lock, bodies, client, request, answer>>
      /\ worker # "serving"
      /\ worker' \in {"starting", "created", "serving"}
  BY DEF endpoint, clientVars
<1>2. TypeOK'
  BY <1>1 DEF TypeOK
<1>3. Busy'
  BY <1>1 DEF Busy
<1>4. Due' /\ Held' /\ Allocated' /\ AnswersOwnRequest'
  BY <1>1 DEF Due, Held, Allocated, AnswersOwnRequest
<1>5. Listens'
  BY <1>1 DEF Listens, endpoint
<1>. QED  BY <1>2, <1>3, <1>4, <1>5

(* The next request is taken up.                                           *)
LEMMA DumbStepSafe == ASSUME ServerInv, DumbStep PROVE ServerInv'
<1>. USE DEF ServerInv
<1>1. CASE Accept
  <2>. USE DEF Accept
  <2>1. /\ impl' = impl /\ address' = address /\ port' = port
        /\ UNCHANGED <<worker, response, lock, bodies, client, request, answer>>
        /\ worker = "serving" /\ lock = FALSE
    BY <1>1 DEF endpoint, clientVars, Busy, Held, TypeOK
  <2>2. backlog' \in Seq(Clients) /\ Len(backlog') <= Backlog /\ serving' \in Clients
    BY <1>1, HttpServerAssumption DEF TypeOK
  <2>3. TypeOK'
    BY <1>1, <2>1, <2>2 DEF TypeOK
  <2>4. Busy' /\ Due' /\ Held' /\ Allocated'
    BY <1>1, <2>1, <2>2 DEF Busy, Due, Held, Allocated
  <2>5. Listens' /\ AnswersOwnRequest'
    BY <2>1 DEF Listens, AnswersOwnRequest
  <2>. QED  BY <2>3, <2>4, <2>5
<1>2. CASE RecvRequest
  <2>. USE DEF RecvRequest
  <2>1. /\ impl' = impl /\ address' = address /\ port' = port
        /\ UNCHANGED <<worker, serving, backlog, lock, bodies, client, request, answer>>
        /\ lock = FALSE /\ impl = "dumb"
    BY <1>2 DEF endpoint, clientVars, Busy, Held, TypeOK
  <2>2. TypeOK'
    BY <1>2, <2>1 DEF TypeOK, Statuses
  <2>3. Busy' /\ Due' /\ Held' /\ Allocated'
    BY <1>2, <2>1 DEF Busy, Due, Held, Allocated
  <2>4. Listens' /\ AnswersOwnRequest'
    BY <2>1 DEF Listens, AnswersOwnRequest
  <2>. QED  BY <2>2, <2>3, <2>4
<1>3. CASE RecvFails
  <2>. USE DEF RecvFails
  <2>1. /\ impl' = impl /\ address' = address /\ port' = port
        /\ UNCHANGED <<worker, backlog, response, lock, bodies, request, answer>>
        /\ lock = FALSE /\ impl = "dumb" /\ worker = "serving" /\ serving \in Clients
    BY <1>3 DEF endpoint, Busy, Held, TypeOK
  <2>2. /\ client' \in [Clients -> Phases]
        /\ \A c \in Clients : client'[c] = "answered" => client[c] = "answered"
    BY <1>3, <2>1 DEF ClientGoes, TypeOK, Phases
  <2>3. TypeOK'
    BY <1>3, <2>1, <2>2 DEF TypeOK
  <2>4. Busy' /\ Due' /\ Held' /\ Allocated'
    BY <1>3, <2>1 DEF Busy, Due, Held, Allocated
  <2>5. Listens' /\ AnswersOwnRequest'
    BY <2>1, <2>2 DEF Listens, AnswersOwnRequest
  <2>. QED  BY <2>3, <2>4, <2>5
<1>. QED  BY <1>1, <1>2, <1>3 DEF DumbStep

LEMMA MessageStep == ASSUME ServerInv, NEW c \in Clients, HttpMessage(c) PROVE ServerInv'
<1>. USE DEF ServerInv, HttpMessage
<1>1. /\ impl' = impl /\ address' = address /\ port' = port
      /\ UNCHANGED <<worker, backlog, lock, bodies, client, request, answer>>
      /\ lock = FALSE
  BY DEF endpoint, clientVars, Held, TypeOK
<1>2. TypeOK'
  BY <1>1 DEF TypeOK, Statuses
<1>3. Busy' /\ Due' /\ Held' /\ Allocated'
  BY <1>1 DEF Busy, Due, Held, Allocated
<1>4. Listens' /\ AnswersOwnRequest'
  BY <1>1 DEF Listens, AnswersOwnRequest
<1>. QED  BY <1>2, <1>3, <1>4

LEMMA LostStep == ASSUME ServerInv, NEW c \in Clients, MessageLost(c) PROVE ServerInv'
<1>. USE DEF ServerInv, MessageLost
<1>1. /\ UNCHANGED <<endpoint, worker, at, serving, backlog, response, lock, bodies, answer>>
      /\ impl' = impl /\ address' = address /\ port' = port
      /\ at = "poll" /\ client' = [client EXCEPT ![c] = "away"]
      /\ request' = [request EXCEPT ![c] = "none"]
  BY DEF workerVars, endpoint, ClientGoes
<1>2. TypeOK'
  BY <1>1 DEF TypeOK, Phases
<1>3. Busy' /\ Due' /\ Held' /\ Allocated' /\ Listens'
  BY <1>1 DEF Busy, Due, Held, Allocated, Listens
<1>4. \A d \in Clients : client'[d] = "answered" => client[d] = "answered" /\ d # c
  BY <1>1 DEF TypeOK
<1>5. AnswersOwnRequest'
  BY <1>1, <1>4 DEF AnswersOwnRequest, TypeOK
<1>. QED  BY <1>2, <1>3, <1>5

(* metrics_handler: a body is allocated for a response of either kind.     *)
LEMMA HandlerStep ==
    ASSUME ServerInv, HandleOther \/ HandleMetrics \/ ScrapeDone
    PROVE  ServerInv'
<1>. USE DEF ServerInv
<1>1. /\ impl' = impl /\ address' = address /\ port' = port
      /\ UNCHANGED <<worker, serving, backlog, client, request, answer>>
      /\ worker = "serving" /\ serving \in Clients /\ client[serving] \in Arrived
      /\ at \in {"handle", "scrape"}
  BY DEF HandleOther, HandleMetrics, ScrapeDone, endpoint, clientVars, Busy
<1>2. CASE HandleMetrics
  <2>1. /\ at' = "scrape" /\ lock' = TRUE /\ response' = response /\ bodies' = bodies
        /\ request[serving] = "get_metrics" /\ at = "handle"
    BY <1>2 DEF HandleMetrics, IsMetricsRequest
  <2>2. TypeOK'
    BY <1>1, <2>1 DEF TypeOK
  <2>3. Busy' /\ Due' /\ Held' /\ Allocated'
    BY <1>1, <2>1 DEF Busy, Due, Held, Allocated
  <2>. QED  BY <1>1, <2>2, <2>3 DEF Listens, AnswersOwnRequest
<1>3. CASE HandleOther \/ ScrapeDone
  <2>1. /\ at' = "reply" /\ lock' = FALSE
        /\ response' = IF request[serving] = "get_metrics" THEN 200 ELSE 404
        /\ bodies' = IF bodies < MaxBodies THEN bodies + 1 ELSE bodies
    BY <1>3
    DEF HandleOther, ScrapeDone, IsMetricsRequest, pwh_http_response_set_text, Due, Held, TypeOK
  <2>2. bodies' \in 0 .. MaxBodies /\ response' \in Statuses
    BY <2>1, HttpServerAssumption DEF TypeOK, Statuses
  <2>3. TypeOK'
    BY <1>1, <2>1, <2>2 DEF TypeOK
  <2>4. Busy' /\ Due' /\ Held'
    BY <1>1, <2>1 DEF Busy, Due, Held
  <2>5. Allocated'
    BY <1>1, <2>1, HttpServerAssumption DEF Allocated
  <2>. QED  BY <1>1, <2>3, <2>4, <2>5 DEF Listens, AnswersOwnRequest
<1>. QED  BY <1>2, <1>3

(* The response is sent, and the client has the answer it is due.          *)
LEMMA ReplyStep == ASSUME ServerInv, DumbReply \/ MongooseReply PROVE ServerInv'
<1>. USE DEF ServerInv
<1>1. PICK whole \in BOOLEAN : Reply(whole) /\ (impl = "mongoose" => whole)
  BY DEF DumbReply, MongooseReply
<1>2. /\ at = "reply" /\ serving \in Clients /\ worker = "serving" /\ lock = FALSE
      /\ response = IF request[serving] = "get_metrics" THEN 200 ELSE 404
      /\ bodies' = IF impl = "mongoose" THEN bodies - 1 ELSE bodies
      /\ impl \in {"dumb", "mongoose"}
  BY DEF DumbReply, MongooseReply, Busy, Due, Held, TypeOK
<1>3. /\ impl' = impl /\ address' = address /\ port' = port
      /\ UNCHANGED <<worker, backlog, response, lock>>
      /\ serving' = NoClient /\ at' = "poll"
  BY <1>1 DEF Reply, endpoint
<1>4. /\ client' \in [Clients -> Phases]
      /\ request' \in [Clients -> Requests \cup {"none"}]
      /\ answer' \in [Clients -> [status : Statuses, whole : BOOLEAN]]
      /\ client'[serving] = "answered" =>
            /\ answer'[serving] = [status |-> response, whole |-> whole]
            /\ request' = request
      /\ \A c \in Clients : c # serving =>
            client'[c] = client[c] /\ answer'[c] = answer[c] /\ request'[c] = request[c]
  <2>1. CASE client[serving] = "sent"
    BY <2>1, <1>1, <1>2 DEF Reply, TypeOK, Phases
  <2>2. CASE client[serving] # "sent"
    BY <2>2, <1>1, <1>2 DEF Reply, TypeOK, Phases
  <2>. QED  BY <2>1, <2>2
<1>5. bodies' \in 0 .. MaxBodies /\ Allocated'
  BY <1>2, <1>3, HttpServerAssumption DEF TypeOK, Allocated
<1>6. TypeOK'
  BY <1>3, <1>4, <1>5 DEF TypeOK
<1>7. Busy' /\ Due' /\ Held' /\ Listens'
  BY <1>2, <1>3 DEF Busy, Due, Held, Listens
<1>8. AnswersOwnRequest'
  <2>. SUFFICES ASSUME NEW c \in Clients, client'[c] = "answered"
                PROVE  /\ answer'[c].status = IF request'[c] = "get_metrics" THEN 200 ELSE 404
                       /\ impl = "mongoose" => answer'[c].whole
    BY <1>3 DEF AnswersOwnRequest
  <2>1. CASE c = serving
    BY <2>1, <1>1, <1>2, <1>4
  <2>2. CASE c # serving
    BY <2>2, <1>4 DEF AnswersOwnRequest
  <2>. QED  BY <2>1, <2>2
<1>. QED  BY <1>5, <1>6, <1>7, <1>8

-----------------------------------------------------------------------------
LEMMA ServerStep == ServerInv /\ [Next]_vars => ServerInv'
<1>. SUFFICES ASSUME ServerInv, [Next]_vars PROVE ServerInv'
  OBVIOUS
<1>1. CASE WorkerNext
  <2>1. CASE RunFails \/ HandleSigterm \/ HandlerFails
    BY <2>1, EndStep DEF RunFails, HandleSigterm, HandlerFails
  <2>2. CASE Handle
    BY <2>2, HandlerStep, ReplyStep DEF Handle
  <2>. QED
    BY <1>1, <2>1, <2>2, StartStep, DumbStepSafe, MessageStep, LostStep DEF WorkerNext
<1>2. CASE UNCHANGED vars
  BY <1>2
  DEF vars, workerVars, clientVars, endpoint, ServerInv, TypeOK, Busy, Due, Held,
      Allocated, Listens, AnswersOwnRequest
<1>. QED  BY <1>1, <1>2, ClientStep DEF Next

LEMMA ServerIsSafe == Spec => []ServerInv
<1>. QED  BY ServerInitial, ServerStep, PTL DEF Spec

(* Every variable of the exporter keeps its type.                          *)
THEOREM TypeCorrect == Spec => []TypeOK
<1>1. ServerInv => TypeOK
  BY DEF ServerInv
<1>. QED  BY <1>1, ServerIsSafe, PTL

(* The lock is the worker's only within a scrape for a request at hand.    *)
THEOREM NoLockBetweenScrapesHolds == Spec => []NoLockBetweenScrapes
<1>1. ServerInv => NoLockBetweenScrapes
  BY DEF ServerInv, Held, Busy, NoLockBetweenScrapes
<1>. QED  BY <1>1, ServerIsSafe, PTL

(* Every client gets the answer to what it has asked.                      *)
THEOREM AnswersOwnRequestHolds == Spec => []AnswersOwnRequest
<1>1. ServerInv => AnswersOwnRequest
  BY DEF ServerInv
<1>. QED  BY <1>1, ServerIsSafe, PTL

(* mongoose keeps no body after its response.                              *)
THEOREM BodiesAreFreedHolds == Spec => []BodiesAreFreed
<1>1. ServerInv => BodiesAreFreed
  BY DEF ServerInv, Allocated, BodiesAreFreed
<1>. QED  BY <1>1, ServerIsSafe, PTL

(* The worker listens where the setting says, however often it starts.     *)
THEOREM ListensOnCheckedPortHolds == Spec => []ListensOnCheckedPort
<1>1. ServerInv => ListensOnCheckedPort
  BY NumberType DEF ServerInv
<1>. QED  BY <1>1, ServerIsSafe, PTL
=============================================================================
