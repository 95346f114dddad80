---------------------------- MODULE MCRequestPath ----------------------------
(* Every endpoint with a complete request and the ways in which it may     *)
(* fall short; the queues of config/queues.json, of which some are removed *)
(* and created again, and another one.                                     *)
EXTENDS RequestPath

Student == [id |-> "u1", role |-> "STUDENT", valid |-> TRUE]
Admin == [id |-> "u2", role |-> "ADMIN", valid |-> TRUE]
Expired == [Student EXCEPT !.valid = FALSE]

Capital == "courses" :> "Courses" @@ "students" :> "Students"

FullQuery ==
    [n \in {"studentId", "studentCode", "courseId", "courseSectionId", "termId",
            "courseIds", "courseSectionIds"} |-> <<"v1">>]

ListQuery == "page" :> <<"2">> @@ "search" :> <<"s1">>

Parts(e) ==
    IF e.message = None THEN {} ELSE {e.message.fields[f] : f \in DOMAIN e.message.fields}

Complete(e, id, token) ==
    [endpoint |-> e, first |-> e.path[1], id |-> id, slash |-> FALSE,
     query |-> IF Query \in Parts(e) THEN ListQuery ELSE FullQuery,
     key |-> "k1", body |-> "b1", valid |-> TRUE, token |-> token]

(* What the way of a request through an endpoint depends on. *)
Variants(r) ==
    LET e == r.endpoint
        parts == Parts(e)
    IN  {r, [r EXCEPT !.slash = TRUE], [r EXCEPT !.valid = FALSE]}
        \cup (IF e.path[1] \in DOMAIN Capital
              THEN {[r EXCEPT !.first = Capital[e.path[1]]]} ELSE {})
        \cup (IF Query \in parts
              THEN {[r EXCEPT !.query = <<>>], [r EXCEPT !.token = Admin],
                    [r EXCEPT !.query = "page" :> <<"2&search=s1">>],
                    [r EXCEPT !.query = "search" :> <<"s1">>],
                    [r EXCEPT !.query = "search" :> <<"s1:user:u1">>, !.token = None]}
              ELSE {})
        \cup (IF \E p \in parts : IsParam(p)
              THEN {[r EXCEPT !.query = <<>>], [r EXCEPT !.token = Admin],
                    [r EXCEPT !.query = [n \in DOMAIN @ |-> <<"">>]],
                    [r EXCEPT !.query = [n \in DOMAIN @ |-> <<"  ">>]],
                    [r EXCEPT !.query = [@ EXCEPT !["studentId"] = <<" v1 ">>]],
                    [r EXCEPT !.query = [@ EXCEPT !["courseId"] = <<"v2">>]],
                    [r EXCEPT !.query = [@ EXCEPT !["courseId"] = <<"v2", "v1">>]],
                    [r EXCEPT !.query = [n \in {"studentCode"} |-> <<"v1">>]]}
              ELSE {})
        \cup (IF Header \in parts THEN {[r EXCEPT !.key = None]} ELSE {})
        \cup (IF Id \in parts THEN {[r EXCEPT !.id = "I2"]} ELSE {})
        \cup (IF e.roles # None
              THEN {[r EXCEPT !.token = t] : t \in {None, Admin, Expired}} ELSE {})

MCRequests == UNION {Variants(Complete(e, "i1", Student)) : e \in Endpoints}

Exact(path) == [path |-> path, any |-> FALSE]
Below(path) == [path |-> path, any |-> TRUE]
Queue(name, priority, patterns) ==
    [name |-> name, priority |-> priority, enabled |-> TRUE, urlPatterns |-> patterns]

Critical == Queue("critical", 10,
    {Exact(<<"auth", "login">>), Exact(<<"auth", "register">>),
     Exact(<<"auth", "logout">>), Exact(<<"auth", "logout-all">>),
     Exact(<<"auth", "change-password">>), Exact(<<"auth", "update-user">>)})
Standard == Queue("standard", 5,
    {Below(<<"enrollments">>), Below(<<"students">>), Below(<<>>)})
Background == Queue("background", 1, {Below(<<"reports">>)})
Batch == Queue("batch", 1, {Below(<<"auth">>), Below(<<"atomic-enrollment">>)})

MCInitialQueues ==
    <<[Batch EXCEPT !.enabled = FALSE], Background, Critical, Standard>>
MCNewQueues == {Batch}
MCExclusions == {<<"courses">>}
MCLower == "I2" :> "i2" @@ "Courses" :> "courses" @@ "Students" :> "students"
MCTrim == "  " :> "" @@ " v1 " :> "v1"
MCNames == <<"courseId", "courseIds", "courseSectionId", "courseSectionIds", "page",
             "search", "studentCode", "studentId", "termId">>
MCSpelled == "2&search=s1" :> <<"2", "&", "search", "=", "s1">>
             @@ "s1:user:u1" :> <<"s1", ":", "user", ":", "u1">>
=============================================================================
