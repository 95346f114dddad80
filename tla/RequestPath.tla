----------------------------- MODULE RequestPath -----------------------------
(***************************************************************************)
(* The way of a request from Express to a message: the guard, the          *)
(* interceptor with its exclusions and routes, and the choice of a queue,  *)
(* or the controller.  One request at a time; the configuration of queues  *)
(* and the exclusions change at any time.  The queue switch is on: what it *)
(* does is in JobLifecycle.                                                *)
(***************************************************************************)
EXTENDS Integers, RequestRoutes, HttpCacheKeys, FiniteSets

CONSTANTS
    Requests,       \* the requests that may arrive
    InitialQueues,  \* the definitions of the configuration at the start, in order
    NewQueues,      \* the definitions that may be created later
    DefaultQueue,   \* the name of the default queue
    Loads,          \* the loads a queue may report
    Unreadable,     \* the load that stands for an error, above all others
    Exclusions,     \* the exclusions an administrator may add
    MaxChanges      \* bound: changes of queues and exclusions

VARIABLES
    request,        \* the request under way, or None
    stage,          \* where it is
    choice,         \* the state of the choice of a queue
    outcome,        \* the message and the queue of a request that is queued
    queues,         \* the definitions of the configuration, in order
    live,           \* the names in the map of queues
    customExclusions,
    changes         \* the number of changes so far

configuration == <<queues, live, customExclusions, changes>>
vars == <<request, stage, choice, outcome, configuration>>

Definitions == Range(InitialQueues) \cup NewQueues

ASSUME RequestAssumption ==
    /\ Loads \subseteq Nat /\ Unreadable \in Nat /\ MaxChanges \in Nat
    /\ \A l \in Loads : l < Unreadable
    /\ InitialQueues \in Seq(Definitions)
    /\ \A d \in Definitions : d.priority \in Int
    /\ \A r \in Requests : r.endpoint \in Endpoints
    /\ None \notin Requests \cup Seq(Definitions)

(* The paths of the controllers and of the table are words in lower case.  *)
(* Express tells no capitals: a request has them in its first word, if it   *)
(* has any.  The ids are the microservices' UUIDs: none is a word of a path,*)
(* and no two differ in case alone.  A parameter has a list of values.     *)
ASSUME UrlAssumption ==
    LET Folded(word) == toLowerCase(<<word>>)
    IN  /\ \A e \in Endpoints :
              /\ e.path \in Seq(STRING \ {""}) /\ e.path # <<>>
              /\ toLowerCase(e.path) = e.path
        /\ \A i \in DOMAIN routes : Folded(routes[i].path[1]) = <<routes[i].path[1]>>
        /\ \A r \in Requests :
              /\ r.first \in STRING \ {""} /\ Folded(r.first) = <<r.endpoint.path[1]>>
              /\ r.id \in STRING \ {""}
              /\ \A e \in Endpoints : Folded(r.id)[1] \notin Range(e.path)
              /\ r.query \in [DOMAIN r.query -> Seq(STRING)]
              /\ DOMAIN r.query \subseteq Range(Names)
        /\ \A r, q \in Requests : Folded(r.id) = Folded(q.id) => r.id = q.id
        /\ Names \in Seq(STRING) /\ IsInjective(Names)
        /\ Spelled \in [DOMAIN Spelled -> Seq(STRING)]

-----------------------------------------------------------------------------
(* A request reaches the endpoint whose path it has, with an id in place of *)
(* ":id".  A token names its user by id, and his role.                     *)
Url(r) ==
    [i \in DOMAIN r.endpoint.path |->
        IF r.endpoint.path[i] = ":id" THEN r.id
        ELSE IF i = 1 THEN r.first ELSE r.endpoint.path[i]]
    \o IF r.slash THEN <<"">> ELSE <<>>

buildJobData(r) ==
    [method |-> r.endpoint.method, url |-> Url(r), query |-> r.query, key |-> r.key,
     id |-> IF ":id" \in Range(r.endpoint.path) THEN r.id ELSE None,
     data |-> r.body, user |-> IF r.token = None THEN None ELSE r.token.id]
Job == buildJobData(request)

(* JwtAuthGuard, for the endpoints that have it. *)
canActivate(r) ==
    r.endpoint.roles # None =>
        /\ r.token # None
        /\ r.token.valid
        /\ r.endpoint.roles = {} \/ r.token.role \in r.endpoint.roles

(* ValidationPipe, which stands before the controllers and after the        *)
(* interceptor: a body and the query of a list become instances of their    *)
(* classes, with values of the types declared and the defaults of           *)
(* PaginationDto.  What is declared a string stays as it is.               *)
Typed(value) == <<"typed", value>>
PaginationDto == [page |-> 1, limit |-> 10, sortOrder |-> "ASC"]

transform(part, value) ==
    CASE part = Body -> Typed(value)
      [] part = Query -> [name \in DOMAIN value |-> Typed(value[name])] @@ PaginationDto
      [] OTHER -> value

(* What the controller and its service send.  Parameters that are absent   *)
(* are left out of the message, empty ones are not.                        *)
DirectMessage(r) ==
    LET fields == r.endpoint.message.fields
        job == buildJobData(r)
        Sent(part) == IF IsParam(part) THEN part[2] \in DOMAIN r.query ELSE Present(part, job)
    IN  [pattern |-> r.endpoint.message.pattern,
         payload |-> [f \in {g \in DOMAIN fields : Sent(fields[g])} |->
                         transform(fields[f], ValueOf(fields[f], job))]]

(* The checks before that: the pipes of the endpoint and the controllers   *)
(* that insist on a header.                                                *)
Accepted(r) ==
    /\ r.valid
    /\ r.endpoint.message # None =>
          \A f \in DOMAIN r.endpoint.message.fields :
             r.endpoint.message.fields[f] = Header => r.key # None

-----------------------------------------------------------------------------
defaultExclusions ==
    {<<"queues", "">>, <<"admin", "queues">>, <<"health">>, <<"metrics">>,
     <<"queue-dashboard">>, <<"queue-control">>, <<"websocket">>, <<"sse">>,
     <<"__">>, <<"monitoring">>, <<"public">>}

shouldExcludeFromQueue(url) ==
    \E p \in defaultExclusions \cup customExclusions : UrlStartsWith(url, p)

(* A pattern is exact, or the prefix before its "/*". *)
matches(url, pattern) ==
    IF pattern.any THEN UrlStartsWith(url, pattern.path) ELSE url = pattern.path

Fits(d, url) == d.enabled /\ \E p \in d.urlPatterns : matches(url, p)

(* `array` is the array the router goes over: it stays the same when       *)
(* removeQueue() puts another one in its place.                            *)
NoChoice == [array |-> None, next |-> 0, matching |-> <<>>, steady |-> {}]
Array(c) == IF c.array = None THEN queues ELSE c.array

(* The first entry from `from` on whose queue is asked for its load; 0 if  *)
(* there is none.                                                          *)
candidate(array, from) ==
    LET url == Url(request)
        asked == {i \in from .. Len(array) : Fits(array[i], url) /\ array[i].name \in live}
    IN  IF asked = {} THEN 0 ELSE Min(asked)

(* A wrong version of the next: a later queue wins a tie. *)
selectedMut(matching) ==
    CHOOSE i \in DOMAIN matching :
        /\ \A j \in 1 .. (i - 1) : matching[j].load >= matching[i].load
        /\ \A j \in (i + 1) .. Len(matching) : matching[j].load > matching[i].load

(* The least load, of equal ones the higher priority, of those the first.  *)
selected(matching) ==
    LET Beats(a, b) == \/ a.load < b.load
                       \/ a.load = b.load /\ a.def.priority > b.def.priority
    IN  CHOOSE i \in DOMAIN matching :
            /\ \A j \in DOMAIN matching : ~Beats(matching[j], matching[i])
            /\ \A j \in 1 .. (i - 1) : Beats(matching[i], matching[j])

(* The router goes on until it awaits a load or has seen all. *)
GoOn(c, from, message) ==
    LET i == candidate(Array(c), from)
        name == IF c.matching = <<>> THEN DefaultQueue
                ELSE c.matching[selected(c.matching)].def.name
    IN  /\ choice' = [c EXCEPT !.next = i]
        /\ IF i # 0
           THEN stage' = "choosing" /\ outcome' = [message |-> message, queue |-> None]
           ELSE /\ stage' = IF name \in live THEN "queued" ELSE "direct"
                /\ outcome' = [message |-> message, queue |-> name]

Init ==
    /\ request = None
    /\ stage = "idle"
    /\ choice = NoChoice
    /\ outcome = None
    /\ queues = InitialQueues
    /\ live = {d.name : d \in {e \in Range(InitialQueues) : e.enabled}}
    /\ customExclusions = {}
    /\ changes = 0

(* The request arrives and passes the guard, or not. *)
arrive(r) ==
    /\ stage = "idle"
    /\ request' = r
    /\ stage' = IF canActivate(r) THEN "intercept" ELSE "refused"
    /\ UNCHANGED <<choice, outcome, configuration>>

(* intercept(), up to the await of the router. *)
intercept ==
    /\ stage = "intercept"
    /\ LET message == resolve(Job)
       IN  IF shouldExcludeFromQueue(Url(request)) \/ message = None
           THEN stage' = "direct" /\ UNCHANGED <<choice, outcome>>
           ELSE GoOn([NoChoice EXCEPT !.steady = Range(queues)], 1, message)
    /\ UNCHANGED <<request, configuration>>

(* The load of the queue that was asked arrives, or an error. *)
getLoad(load) ==
    /\ stage = "choosing"
    /\ GoOn([choice EXCEPT !.matching =
                Append(@, [def |-> Array(choice)[choice.next], load |-> load])],
            choice.next + 1, outcome.message)
    /\ UNCHANGED <<request, configuration>>

(* The controller handles the request, or its pipes refuse it. *)
handle ==
    /\ stage = "direct"
    /\ stage' = IF Accepted(request) THEN "handled" ELSE "refused"
    /\ UNCHANGED <<request, choice, outcome, configuration>>

(* The response is sent. *)
respond ==
    /\ stage \in {"queued", "handled", "refused"}
    /\ request' = None /\ stage' = "idle" /\ choice' = NoChoice /\ outcome' = None
    /\ UNCHANGED configuration

(* The calls of an administrator. *)
Change == changes < MaxChanges /\ changes' = changes + 1

(* The entries of an array that have another name. *)
Without(array, name) ==
    LET kept(d) == IF d.name = name THEN << >> ELSE <<d>>
    IN  FlattenSeq([i \in DOMAIN array |-> kept(array[i])])

(* An entry that was not enabled at the start has no queue: another may be  *)
(* created in its name.                                                    *)
createQueue(d) ==
    /\ Change
    /\ d.name \notin live
    /\ queues' = Append(queues, d)
    /\ live' = live \cup {d.name}
    /\ UNCHANGED <<request, stage, choice, outcome, customExclusions>>

(* A wrong version of the next: the entry is taken out of the array itself. *)
removeQueueMut(d) ==
    /\ Change
    /\ d.name \in live
    /\ queues' = Without(queues, d.name)
    /\ live' = live \ {d.name}
    /\ choice' = [choice EXCEPT !.steady = {e \in @ : e.name # d.name}]
    /\ UNCHANGED <<request, stage, outcome, customExclusions>>

removeQueue(d) ==
    /\ Change
    /\ d.name \in live
    /\ queues' = Without(queues, d.name)
    /\ live' = live \ {d.name}
    /\ choice' = [choice EXCEPT !.steady = {e \in @ : e.name # d.name},
                    !.array = IF stage = "choosing" THEN Array(choice) ELSE @]
    /\ UNCHANGED <<request, stage, outcome, customExclusions>>

addExclusion(p) ==
    /\ Change
    /\ customExclusions' = customExclusions \cup {p}
    /\ UNCHANGED <<request, stage, choice, outcome, queues, live>>

removeExclusion(p) ==
    /\ Change
    /\ p \in customExclusions
    /\ customExclusions' = customExclusions \ {p}
    /\ UNCHANGED <<request, stage, choice, outcome, queues, live>>

clearCustomExclusions ==
    /\ Change
    /\ customExclusions' = {}
    /\ UNCHANGED <<request, stage, choice, outcome, queues, live>>

Next ==
    \/ \E r \in Requests : arrive(r)
    \/ intercept
    \/ \E l \in Loads \cup {Unreadable} : getLoad(l)
    \/ handle
    \/ respond
    \/ \E d \in Definitions : createQueue(d) \/ removeQueue(d)
    \/ \E p \in Exclusions : addExclusion(p) \/ removeExclusion(p)
    \/ clearCustomExclusions

Spec == Init /\ [][Next]_vars

-----------------------------------------------------------------------------
Stages == {"idle", "intercept", "choosing", "queued", "direct", "handled", "refused"}

(* The type of every variable; a choice has a queue to wait for exactly    *)
(* while it is made (QueueInterceptor.intercept, QueueRouter).             *)
TypeOK ==
    /\ request # None => request.endpoint \in Endpoints
    /\ stage \in Stages
    /\ stage = "idle" <=> request = None
    /\ stage = "choosing" <=> choice.next # 0
    /\ stage = "choosing" => choice.next \in DOMAIN Array(choice)
    /\ \A i \in DOMAIN choice.matching :
          choice.matching[i].load \in Loads \cup {Unreadable}
    /\ Range(queues) \subseteq Definitions /\ live \subseteq {d.name : d \in Range(queues)}
    /\ customExclusions \subseteq Exclusions

(* No parameter is repeated: the tables treat a repeated one differently.  *)
Single(r) == \A name \in DOMAIN r.query : Len(r.query[name]) = 1

(* One message asks for what another does: the same fields, each of which  *)
(* is what the pipe makes of that of the queued message.  Only the advice   *)
(* on courses has its parameters trimmed, and left out when that leaves     *)
(* nothing, on the way to a queue.                                         *)
Corresponds(queued, direct, fields) ==
    /\ queued.pattern = direct.pattern
    /\ DOMAIN queued.payload \subseteq DOMAIN direct.payload
    /\ \A f \in DOMAIN direct.payload :
          IF direct.pattern = recommendedCourses.pattern
          THEN trim(direct.payload[f]) = IF f \in DOMAIN queued.payload
                                         THEN queued.payload[f] ELSE ""
          ELSE /\ f \in DOMAIN queued.payload
               /\ direct.payload[f] = transform(fields[f], queued.payload[f])

(* The table of routes and the controllers are written apart and must      *)
(* agree.  A request that is queued becomes the message its controller     *)
(* would send, if the controller would accept it, but for what the pipe    *)
(* would have made of its parts, as nothing is converted, and no default   *)
(* filled in, on the way to a queue; and a request is left to a controller  *)
(* that sends a message only because it is excluded, has capitals in its   *)
(* path, lacks something the message needs, or its queue is gone.          *)
TablesAgree ==
    /\ stage = "queued" /\ Single(request) /\ Accepted(request) =>
          Corresponds(outcome.message, DirectMessage(request),
                      request.endpoint.message.fields)
    /\ stage = "choosing" => request.endpoint.message # None
    /\ stage = "intercept" /\ request.endpoint.message # None /\ resolve(Job) = None =>
          LET message == request.endpoint.message
          IN  \/ request.first # request.endpoint.path[1]
              \/ IF message = recommendedCourses
                 THEN \A f \in DOMAIN message.fields : ~Present(Trimmed(message.fields[f]), Job)
                 ELSE \E f \in DOMAIN message.fields : ~Present(message.fields[f], Job)

(* Queues come and go while the loads are read.  Every queue that fits and *)
(* was there all along has been asked, and none of those asked beats the   *)
(* one that is chosen: the load is the least, the priority the highest     *)
(* among the least loaded.  The default queue is for URLs that fit none.   *)
ChoiceIsBest ==
    stage = "queued" =>
        LET read == Range(choice.matching)
        IN  /\ \A d \in choice.steady :
                  Fits(d, Url(request)) => \E e \in read : e.def = d
            /\ IF read = {} THEN outcome.queue = DefaultQueue
               ELSE \E e \in read :
                      /\ e.def.name = outcome.queue
                      /\ \A o \in read :
                            \/ e.load < o.load
                            \/ e.load = o.load /\ e.def.priority >= o.def.priority

Cacheable(r) == isCacheable(r.endpoint.method, Url(r)) /\ resolve(buildJobData(r)) # None

(* No word of the URL, no parameter and no user has a separator in it.      *)
Separable(r) ==
    \A word \in Range(normalizeUrl(Url(r))) \cup DOMAIN r.query
                 \cup Range(extractQueryParams(r.query)) \cup {buildJobData(r).user} :
        Simple(word)

CachedJobs ==
    {buildJobData(r) : r \in {q \in Requests : Cacheable(q) /\ Single(q) /\ Separable(q)}}
Answers ==
    {[key |-> buildCacheKey(j), user |-> j.user, message |-> resolve(j)] : j \in CachedJobs}

(* Two requests whose responses are kept under one key come from one user  *)
(* and ask the microservices for the same thing (HttpCacheKeyStrategy),     *)
(* although a key is one text: its parts can be told apart as long as none  *)
(* has a separator in it.  A response is kept for the wrong request when    *)
(* one has: ?page=2%26search=a has the key of ?page=2&search=a.            *)
(* It does not hold of a parameter that is repeated either: the key has its *)
(* last value, the message its first; nor of ids that differ in case alone, *)
(* as the key has them in lower case (UrlAssumption).                      *)
UniqueKey ==
    stage = "intercept" /\ Cacheable(request) /\ Single(request) /\ Separable(request) =>
        \A a \in Answers :
            a.key = buildCacheKey(Job) => a.user = Job.user /\ a.message = resolve(Job)

(* What the cache may keep.  Sessions and the critical enrollment          *)
(* operations are never answered from it.  Enrollments, their details, the  *)
(* count of them and the validation of a new one are at most a minute old;  *)
(* of what else the enrollment service answers, student-enrollment-details  *)
(* and advice included, nothing is older than five minutes but the         *)
(* prerequisites of a course and the check of them.                        *)
CacheIsCareful ==
    stage = "intercept" /\ Cacheable(request) =>
        LET pattern == resolve(Job).pattern
            minutes == getTtlForEndpoint(Url(request))
        IN  /\ request.endpoint.method = "GET"
            /\ pattern[1] # "enrollments.atomic"
            /\ pattern[1] = "auth" => pattern[2] = "get-users"
            /\ pattern[1] \in {"enrollments", "enrollment-details"}
               \/ pattern[2] \in {"enrollmentCount", "validateEnrollment"} => minutes = 1
            /\ pattern[1] \in {"enrollments.academic", "enrollments.students",
                               "enrollments.performance"}
               /\ pattern[2] \notin {"prerequisites", "checkPrerequisites"} => minutes <= 5
=============================================================================
