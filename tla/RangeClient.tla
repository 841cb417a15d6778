---------------------------- MODULE RangeClient -----------------------------
(***************************************************************************)
(* How a coordinator's request reaches the range of its key and how the    *)
(* answer comes back: the range assignment oracle and its two caches and   *)
(* the pool of clients (coordinator-rangeclient/src), the client of one    *)
(* range server (rangeclient/src/client.rs), the TCP network               *)
(* (common/src/network/for_testing/tcp_fast_network.rs) and the dispatch   *)
(* of messages in the range server (rangeserver/src/server.rs).            *)
(*                                                                         *)
(* A call is one task of a coordinator that resolves a key and sends one   *)
(* request.  What the range does with a request, and the table of          *)
(* transactions, are in RangeManager and CommitProtocol; here a handler    *)
(* only gives its answer.                                                  *)
(***************************************************************************)
EXTENDS Universe, FiniteSets

CONSTANTS ClientCall,
          Requests,       \* [type, keyspace, key] a call may be made with
          Hex,            \* key -> the letters hex::encode writes it with
          HandlerErrors,  \* errors of the range manager in this instance
          MaxKeyspaces, MaxCrashes  \* bounds

ASSUME ClientAssumption ==
    /\ \A r \in Requests : r.key \in Key
    /\ None \notin ClientCall

VARIABLES
    keyspace_to_keyspace_info,  \* the oracle's caches, by the strings they are keyed with
    key_to_full_range_id,
    range_clients,              \* the pooled client of the one host, or None
    phase,                      \* range server: down, accepting, serving or cancelled
    crashes,
    pc, request,                \* call -> where it is, what it asks for
    info,                       \* call -> the keyspace info it has fetched, or None
    range,                      \* call -> the range it was routed to, or None
    client,                     \* call -> the client it uses, or None
    conn,                       \* call -> its connection at the range server
    answer                      \* call -> the response its handler sent, or None

oracleVars == <<keyspace_to_keyspace_info, key_to_full_range_id>>
serverVars == <<phase, crashes, conn, answer>>
callVars == <<pc, request, info, range, client>>
vars == <<universeVars, oracleVars, range_clients, serverVars, callVars>>

Init ==
    /\ UniverseInit
    /\ keyspace_to_keyspace_info = << >>
    /\ key_to_full_range_id = << >>
    /\ range_clients = None
    /\ phase = "accepting"
    /\ crashes = 0
    /\ pc = [c \in ClientCall |-> "idle"]
    /\ request = [c \in ClientCall |-> None]
    /\ info = [c \in ClientCall |-> None]
    /\ range = [c \in ClientCall |-> None]
    /\ client = [c \in ClientCall |-> None]
    /\ conn = [c \in ClientCall |-> "none"]
    /\ answer = [c \in ClientCall |-> None]

goto(c, there) == pc' = [pc EXCEPT ![c] = there]

(* The task ends, and its variables with it.                               *)
end(c, there) ==
    /\ goto(c, there)
    /\ request' = [request EXCEPT ![c] = None]
    /\ range' = [range EXCEPT ![c] = None]
    /\ client' = [client EXCEPT ![c] = None]
    /\ UNCHANGED info
Keyspace(c) == request[c].keyspace
AskedKey(c) == request[c].key

---------------------------------------------------------------------------
(* full_range_id_of_key of the oracle.  Its caches are keyed by strings    *)
(* put together without a separator.                                       *)

keyspaceCacheKey(ks) == ks.namespace \o ks.name
keyCacheKey(ks, key) == ks.namespace \o ks.name \o Hex[key]

FullRangeId(row, i) == [keyspace_id |-> row.keyspace_id, range_id |-> i]

(* The first base range, in the order of the keyspace, that has the key    *)
hits(row, key) ==
    {i \in 1..Len(row.base_key_ranges) : includes(fromProto(row.base_key_ranges[i]), key)}
find(row, key) ==
    IF hits(row, key) = {} THEN None
    ELSE FullRangeId(row, CHOOSE i \in hits(row, key) : \A j \in hits(row, key) : i <= j)

start(c, r) ==
    /\ pc[c] = "idle"
    /\ request' = [request EXCEPT ![c] = r]
    /\ goto(c, "fast")
    /\ UNCHANGED <<universeVars, oracleVars, range_clients, serverVars, info, range, client>>

(* Fast path: the range of the key is cached.                              *)
resolveFast(c) ==
    LET cacheKey == keyCacheKey(Keyspace(c), AskedKey(c))
    IN  /\ pc[c] = "fast"
        /\ IF cacheKey \in DOMAIN key_to_full_range_id
           THEN /\ range' = [range EXCEPT ![c] = key_to_full_range_id[cacheKey]]
                /\ goto(c, "pool")
           ELSE UNCHANGED range /\ goto(c, "info")
        /\ UNCHANGED <<universeVars, oracleVars, range_clients, serverVars, request, info, client>>

resolveInfo(c) ==
    /\ pc[c] = "info"
    /\ goto(c, IF keyspaceCacheKey(Keyspace(c)) \in DOMAIN keyspace_to_keyspace_info
               THEN "find" ELSE "fetch")
    /\ UNCHANGED <<universeVars, oracleVars, range_clients, serverVars, request, info, range,
                   client>>

(* Slow path: ask the universe.  Its error, a keyspace that does not exist *)
(* included, is unwrapped.                                                 *)
resolveFetch(c) ==
    /\ pc[c] = "fetch"
    /\ \/ /\ Keyspace(c) \in DOMAIN keyspaces
          /\ info' = [info EXCEPT ![c] = getKeyspaceInfo(Keyspace(c))]
          /\ goto(c, "insert")
          /\ UNCHANGED <<request, range, client>>
       \/ end(c, "panicked")
    /\ UNCHANGED <<universeVars, oracleVars, range_clients, serverVars>>

resolveInsert(c) ==
    /\ pc[c] = "insert"
    /\ keyspace_to_keyspace_info' =
          insert(keyspace_to_keyspace_info, keyspaceCacheKey(Keyspace(c)), info[c])
    /\ info' = [info EXCEPT ![c] = None]
    /\ goto(c, "find")
    /\ UNCHANGED <<universeVars, key_to_full_range_id, range_clients, serverVars, request,
                   range, client>>

(* The range found is cached under the key alone.                          *)
resolveFind(c) ==
    LET row   == keyspace_to_keyspace_info[keyspaceCacheKey(Keyspace(c))]
        found == find(row, AskedKey(c))
    IN  /\ pc[c] = "find"
        /\ IF found = None
           THEN end(c, "noRange") /\ UNCHANGED key_to_full_range_id
           ELSE /\ UNCHANGED <<request, info, client>>
                /\ range' = [range EXCEPT ![c] = found]
                /\ key_to_full_range_id' = insert(key_to_full_range_id, Hex[AskedKey(c)], found)
                /\ goto(c, "pool")
        /\ UNCHANGED <<universeVars, keyspace_to_keyspace_info, range_clients, serverVars>>

---------------------------------------------------------------------------
(* get_range_client: there is one host, and no client is ever stopped.  A  *)
(* new client is named after the call that makes it.                       *)

use(c, cl) == client' = [client EXCEPT ![c] = cl] /\ goto(c, "send")

poolRead(c) ==
    /\ pc[c] = "pool"
    /\ IF range_clients = None THEN goto(c, "create") /\ UNCHANGED client
                               ELSE use(c, range_clients)
    /\ UNCHANGED <<universeVars, oracleVars, range_clients, serverVars, request, info, range>>

poolCreate(c) ==
    /\ pc[c] = "create"
    /\ range_clients' = IF range_clients = None THEN c ELSE range_clients
    /\ use(c, range_clients')
    /\ UNCHANGED <<universeVars, oracleVars, serverVars, request, info, range>>

---------------------------------------------------------------------------
(* TcpFastNetwork: a connection per request                                *)

goconn(c, there) == conn' = [conn EXCEPT ![c] = there]

(* Connect and write.  A connection that is refused is unwrapped.          *)
send(c) ==
    /\ pc[c] = "send"
    /\ IF phase = "down"
       THEN end(c, "panicked") /\ UNCHANGED conn
       ELSE goto(c, "waiting") /\ goconn(c, "written") /\ UNCHANGED <<request, info, range, client>>
    /\ UNCHANGED <<universeVars, oracleVars, range_clients, phase, crashes, answer>>

(* handle_connection.  A message that comes before a handler is registered *)
(* is given to nobody, and its connection is kept open; once the handler   *)
(* is gone, the connection is closed.                                      *)
handleConnection(c) ==
    /\ conn[c] = "written"
    /\ goconn(c, CASE phase = "accepting" -> "stranded"
                   [] phase = "serving"   -> "queued"
                   [] OTHER               -> "closed")
    /\ UNCHANGED <<universeVars, oracleVars, range_clients, phase, crashes, answer, callVars>>

(* network_server_loop takes a message and spawns its handler.  One read   *)
(* may return only a part of the message, which does not parse.            *)
dispatch(c) ==
    /\ conn[c] = "queued" /\ phase = "serving"
    /\ goconn(c, "handling") \/ goconn(c, "closed")
    /\ UNCHANGED <<universeVars, oracleVars, range_clients, phase, crashes, answer, callVars>>

(* Faulty variant: the queue outlives the loop that reads it.              *)
cancelKeepsQueue ==
    /\ phase = "serving"
    /\ phase' = "cancelled"
    /\ UNCHANGED <<universeVars, oracleVars, range_clients, crashes, conn, answer, callVars>>

(* The loop is cancelled: what is queued is dropped with the channel,      *)
(* handlers go on.                                                         *)
cancel ==
    /\ phase = "serving"
    /\ phase' = "cancelled"
    /\ conn' = [c \in ClientCall |-> IF conn[c] = "queued" THEN "closed" ELSE conn[c]]
    /\ UNCHANGED <<universeVars, oracleVars, range_clients, crashes, answer, callVars>>

---------------------------------------------------------------------------
(* RangeClient of one range server: the message each method sends and what *)
(* it makes of the response.  Of a message only the range and the keys are *)
(* kept.                                                                   *)

getRequest(c) == [type |-> "Get", range_id |-> range[c], keys |-> {AskedKey(c)}]
prepareRequest(c) == [type |-> "Prepare", range_id |-> range[c], keys |-> {AskedKey(c)}]
abortRequest(c) == [type |-> "Abort", range_id |-> range[c], keys |-> {}]
commitRequest(c) == [type |-> "Commit", range_id |-> range[c], keys |-> {}]

Errors == {"InvalidRequestFormat", "RangeDoesNotExist", "RangeIsNotLoaded", "KeyIsOutOfRange",
           "RangeOwnershipLost", "Timeout", "ConnectionClosed", "UnknownTransaction",
           "CacheIsFull", "PrefetchError", "TransactionAborted", "InternalError"}

(* The status field has no value for an error of the client's side.        *)
toFlatbufStatus(e) == IF e = "ConnectionClosed" THEN "InternalError" ELSE e
fromFlatbufStatus(status) ==
    IF status \in ({"Ok"} \cup Errors) \ {"ConnectionClosed"} THEN status ELSE "InternalError"

resultOf(response, type) ==
    IF response.type = type THEN fromFlatbufStatus(response.status) ELSE "InvalidRequestFormat"
getResult(response) == resultOf(response, "Get")
prepareResult(response) == resultOf(response, "Prepare")
abortResult(response) == resultOf(response, "Abort")
commitResult(response) == resultOf(response, "Commit")

---------------------------------------------------------------------------
(* handle_message and the four handlers of the server.  What the range     *)
(* makes of the request is any of its outcomes; get and prepare check      *)
(* their keys against the range as the warden laid it out, unless another  *)
(* error comes first.                                                      *)

OutOfRange(m) ==
    LET row == keyspaces[m.range_id.keyspace_id]
    IN  \E key \in m.keys :
           ~includes(fromEmptyAsUnbounded(row.base_key_ranges[m.range_id.range_id]), key)

OtherErrors == HandlerErrors \ {"KeyIsOutOfRange"}
Outcomes(m) == OtherErrors \cup {IF OutOfRange(m) THEN "KeyIsOutOfRange" ELSE "Ok"}

sendResponse(c, type, outcome) ==
    /\ answer' = [answer EXCEPT ![c] = [type |-> type, status |-> toFlatbufStatus(outcome)]]
    /\ goconn(c, "replied")

get(c, m) ==
    m.type = "Get" /\ \E outcome \in Outcomes(m) : sendResponse(c, "Get", outcome)
prepare(c, m) ==
    m.type = "Prepare" /\ \E outcome \in Outcomes(m) : sendResponse(c, "Prepare", outcome)
abort(c, m) ==
    m.type = "Abort" /\ \E outcome \in Outcomes(m) : sendResponse(c, "Abort", outcome)
commit(c, m) ==
    m.type = "Commit" /\ \E outcome \in Outcomes(m) : sendResponse(c, "Commit", outcome)

handle(c) ==
    /\ conn[c] = "handling"
    /\ \/ request[c].type = "Get" /\ get(c, getRequest(c))
       \/ request[c].type = "Prepare" /\ prepare(c, prepareRequest(c))
       \/ request[c].type = "Abort" /\ abort(c, abortRequest(c))
       \/ request[c].type = "Commit" /\ commit(c, commitRequest(c))
    /\ UNCHANGED <<universeVars, oracleVars, range_clients, phase, crashes, callVars>>

(* The client reads to the end of the stream.  An empty response does not  *)
(* parse, which is unwrapped; the oracle's refresh of a host is not        *)
(* written yet and panics.                                                 *)
handleRangeserverErr(e) ==
    IF e \in {"RangeIsNotLoaded", "RangeOwnershipLost"} THEN "panicked"
    ELSE IF e = "Ok" THEN "ok" ELSE "error"

result(c) ==
    CASE request[c].type = "Get"     -> getResult(answer[c])
      [] request[c].type = "Prepare" -> prepareResult(answer[c])
      [] request[c].type = "Abort"   -> abortResult(answer[c])
      [] request[c].type = "Commit"  -> commitResult(answer[c])

receive(c) ==
    /\ pc[c] = "waiting" /\ conn[c] \in {"replied", "closed"}
    /\ end(c, IF conn[c] = "closed" THEN "panicked" ELSE handleRangeserverErr(result(c)))
    /\ goconn(c, "none")
    /\ answer' = [answer EXCEPT ![c] = None]
    /\ UNCHANGED <<universeVars, oracleVars, range_clients, phase, crashes>>

---------------------------------------------------------------------------
(* The range server's main: the network accepts before the server has      *)
(* started, which waits for the database and the warden.                   *)

accept ==
    /\ phase = "down"
    /\ phase' = "accepting"
    /\ UNCHANGED <<universeVars, oracleVars, range_clients, crashes, conn, answer, callVars>>

listenDefault ==
    /\ phase = "accepting"
    /\ phase' = "serving"
    /\ UNCHANGED <<universeVars, oracleVars, range_clients, crashes, conn, answer, callVars>>

(* A response that has been written may still arrive.                      *)
crash ==
    /\ phase # "down" /\ crashes < MaxCrashes
    /\ crashes' = crashes + 1
    /\ phase' = "down"
    /\ \E arrive \in SUBSET {c \in ClientCall : conn[c] = "replied"} :
          conn' = [c \in ClientCall |-> IF conn[c] = "none" \/ c \in arrive THEN conn[c] ELSE "closed"]
    /\ UNCHANGED <<universeVars, oracleVars, range_clients, answer, callVars>>

---------------------------------------------------------------------------

create ==
    /\ Cardinality(DOMAIN keyspaces) < MaxKeyspaces
    /\ \E r \in Creation, acked \in BOOLEAN : createKeyspace(r, acked)
    /\ UNCHANGED <<oracleVars, range_clients, serverVars, callVars>>

resolve(c) ==
    resolveFast(c) \/ resolveInfo(c) \/ resolveFetch(c) \/ resolveInsert(c) \/ resolveFind(c)

callStep(c) ==
    \/ resolve(c)
    \/ poolRead(c) \/ poolCreate(c)
    \/ send(c) \/ handleConnection(c) \/ dispatch(c) \/ handle(c) \/ receive(c)

Over(c) == pc[c] \in {"ok", "error", "noRange", "panicked"}
Stranded(c) == conn[c] = "stranded"
Idle == (\A c \in ClientCall : Over(c) \/ Stranded(c)) /\ UNCHANGED vars

Next ==
    \/ create
    \/ \E c \in ClientCall : (\E r \in Requests : start(c, r)) \/ callStep(c)
    \/ accept \/ listenDefault \/ cancel \/ crash
    \/ Idle

Spec == Init /\ [][Next]_vars

(* While a task of the coordinator or of the range server can run, some    *)
(* task runs.  A call takes a bounded number of steps, so nothing stronger *)
(* is needed for each to end.                                              *)
FairSpec == Spec /\ WF_vars(\E c \in ClientCall : callStep(c))

---------------------------------------------------------------------------

(* Two cache strings that are the same by accident: another keyspace whose *)
(* namespace and name run together alike, or a key whose hex digits are    *)
(* the keyspace's letters and the digits of the key asked for.             *)
Clash(c) ==
    \/ \E ks \in DOMAIN keyspaces :
          ks # Keyspace(c) /\ keyspaceCacheKey(ks) = keyspaceCacheKey(Keyspace(c))
    \/ \E key \in Key : Hex[key] = keyCacheKey(Keyspace(c), AskedKey(c))

(* A request is sent to the range that the keyspace's creator laid out for *)
(* the key, whatever other keyspaces, creations and calls the caches have  *)
(* seen: the first of its ranges that has the key.                         *)
RoutedAsCreated ==
    \A c \in ClientCall :
       /\ range[c] # None /\ ~Clash(c)
       /\ Keyspace(c) \in DOMAIN acknowledged
       => range[c] = find(constructFromParts(acknowledged[Keyspace(c)]), AskedKey(c))

(* The oracle, the warden and the range server read the same bounds: no    *)
(* get and no prepare is refused because its key is out of the range it    *)
(* was sent to.                                                            *)
NeverOutOfRange ==
    \A c \in ClientCall : answer[c] # None /\ answer[c].status = "KeyIsOutOfRange" => Clash(c)

(* A keyspace that was created in a region is listed for that region,      *)
(* unless it calls another cloud by a public cloud's name.                 *)
ListedInItsRegion ==
    \A ks \in DOMAIN acknowledged :
       LET cloud == acknowledged[ks].cloud
       IN  cloud \in {Other(name) : name \in PublicCloud} \/ ks \in listKeyspaces(cloud)

(* However many calls find the pool empty at once, all use one client.     *)
OneClient ==
    \A c, d \in ClientCall : client[c] # None /\ client[d] # None => client[c] = client[d]

(* A call ends, in an answer or in a panic of its task, although neither   *)
(* side has a timeout: the one that waits for ever came between the bind   *)
(* of the socket and the registration of the handler.                      *)
EveryCallEnds ==
    []<>(\A c \in ClientCall : pc[c] = "idle" \/ Over(c) \/ Stranded(c))
=============================================================================
