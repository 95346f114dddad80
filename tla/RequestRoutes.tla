---------------------------- MODULE RequestRoutes ----------------------------
(***************************************************************************)
(* RequestRoutingService: the table by which a request that is queued is   *)
(* turned into a message, and its lookup.  The table is written by hand    *)
(* beside the controllers (HttpEndpoints).                                 *)
(*                                                                         *)
(* A URL is the sequence of its segments, a trailing slash an empty one.   *)
(* The interceptor passes request.path, which has no query string and      *)
(* starts with a slash, so the other cases of normalizePath() do not occur;*)
(* Express leads no path with an empty segment inside to a controller.     *)
(***************************************************************************)
EXTENDS HttpEndpoints, SequencesExt

CONSTANT Trim       \* value with blanks around it |-> the value without them

trim(value) == IF value \in DOMAIN Trim THEN Trim[value] ELSE value

(* A single query parameter, and one that a builder of payloads trims. *)
IsParam(part) == part[1] = "query" /\ part # Query
Trimmed(part) == <<"trimmed", part[2]>>

(* `needs`: the sets of parts of which one at least must be present.       *)
Route(method, path, resource, operation, fields, needs) ==
    [method |-> method, path |-> path, pattern |-> <<resource, operation>>,
     fields |-> fields, needs |-> needs]

(* Parts that the builder of the payload insists on. *)
Require(method, path, resource, operation, fields) ==
    Route(method, path, resource, operation, fields,
          {{fields[f]} : f \in {g \in DOMAIN fields : fields[g] # Body}})

CrudRoutes(path, resource, dto) ==
    LET One == Append(path, ":id")
    IN  <<Route("POST", path, resource, "create", Whole(Body), {}),
          Route("GET", path, resource, "list", Whole(Query), {}),
          Require("GET", One, resource, "findOne", Whole(Id)),
          Require("PATCH", One, resource, "update", "id" :> Id @@ dto :> Body),
          Require("DELETE", One, resource, "remove", Whole(Id))>>

enrollmentRoutes ==
    CrudRoutes(<<"enrollments">>, "enrollments", "updateEnrollmentDto")
    \o CrudRoutes(<<"enrollment-details">>, "enrollment-details",
                  "updateEnrollmentDetailDto")
    \o <<Require("GET", <<"academic-validations", "prerequisites", "check">>,
                 "enrollments.academic", "checkPrerequisites",
                 Params({"studentId", "courseId"})),
         Require("GET", <<"academic-validations", "enrollment", "validate">>,
                 "enrollments.academic", "validateEnrollment",
                 Params({"studentId", "courseSectionId", "termId"})),
         Route("GET", <<"students", "recommended-courses">>,
               "enrollments.students", "recommendedCourses",
               [f \in {"studentId", "studentCode"} |-> Trimmed(Param(f))],
               {{Trimmed(Param("studentId")), Trimmed(Param("studentCode"))}})>>

atomicRoutes ==
    LET At(rest) == <<"atomic-enrollment">> \o rest
        Enroll == [data |-> Body, idempotencyKey |-> Header]
    IN  <<Require("POST", At(<<"enroll">>), "enrollments.atomic", "enroll", Enroll),
          Require("POST", At(<<"enroll", "batch">>),
                  "enrollments.atomic", "enrollBatch", Enroll),
          Require("GET", At(<<"course-section", ":id", "quota-status">>),
                  "enrollments.atomic", "quotaStatus", [courseSectionId |-> Id]),
          Require("GET", At(<<"idempotency", "stats">>),
                  "enrollments.atomic", "idempotencyStats", <<>>)>>

performanceRoutes ==
    LET At(name, operation, names) ==
            Require("GET", <<"database-performance", name>>,
                    "enrollments.performance", operation, Params(names))
    IN  <<At("prerequisites", "prerequisites", {"courseId"}),
          At("approved-courses", "approvedCourses", {"studentId", "courseIds"}),
          At("schedules", "schedules", {"courseSectionIds"}),
          At("enrollment-count", "enrollmentCount", {"studentId", "termId"}),
          At("batch-prerequisites", "batchPrerequisites", {"studentId", "courseIds"}),
          At("has-passed", "hasPassed", {"studentId", "courseId"}),
          At("student-enrollment-details", "studentEnrollmentDetails",
             {"studentId", "termId"})>>

programRoutes ==
    CrudRoutes(<<"degree-programs">>, "programs.degreePrograms", "updateDegreeProgramDto")
    \o CrudRoutes(<<"study-plans">>, "programs.studyPlans", "updateStudyPlanDto")
    \o CrudRoutes(<<"levels">>, "programs.levels", "updateLevelDto")
    \o CrudRoutes(<<"courses">>, "programs.courses", "updateCourseDto")
    \o CrudRoutes(<<"prerequisites">>, "programs.prerequisites", "updatePrerequisiteDto")

(* A wrong version of the next: the update of a period names its field     *)
(* after the year it belongs to.                                           *)
calendarRoutesMut ==
    CrudRoutes(<<"academic-years">>, "calendar.academicYears", "updateAcademicYearDto")
    \o CrudRoutes(<<"terms">>, "calendar.terms", "updateTermDto")
    \o CrudRoutes(<<"calendar", "managements">>, "calendar.academicYears",
                  "updateAcademicYearDto")
    \o CrudRoutes(<<"calendar", "periods">>, "calendar.terms", "updateAcademicYearDto")

(* The first two serve paths that no controller has. *)
calendarRoutes ==
    CrudRoutes(<<"academic-years">>, "calendar.academicYears", "updateAcademicYearDto")
    \o CrudRoutes(<<"terms">>, "calendar.terms", "updateTermDto")
    \o CrudRoutes(<<"calendar", "managements">>, "calendar.academicYears",
                  "updateAcademicYearDto")
    \o CrudRoutes(<<"calendar", "periods">>, "calendar.terms", "updateTermDto")

facilityRoutes ==
    CrudRoutes(<<"classrooms">>, "facilities.classrooms", "updateClassroomDto")

teachingRoutes ==
    CrudRoutes(<<"course-sections">>, "teaching.courseSections", "updateCourseSectionDto")
    \o CrudRoutes(<<"schedules">>, "teaching.schedules", "updateScheduleDto")

gradeRoutes == CrudRoutes(<<"grades">>, "grades", "updateGradeDto")

authRoutes ==
    <<Route("POST", <<"auth", "register">>, "auth", "register", Whole(Body), {}),
      Route("POST", <<"auth", "login">>, "auth", "login", Whole(Body), {}),
      Route("GET", <<"auth", "users">>, "auth", "get-users", <<>>, {}),
      Require("PATCH", <<"auth", "update-user">>, "auth", "update-user",
              [userId |-> UserId, updateUserDto |-> Body]),
      Require("PUT", <<"auth", "change-password">>, "auth", "change-password",
              [userId |-> UserId, changePasswordDto |-> Body]),
      Require("POST", <<"auth", "logout">>, "auth", "logout",
              [jti |-> Token("jti"), exp |-> Token("exp")]),
      Require("POST", <<"auth", "logout-all">>, "auth", "logout-all",
              [userId |-> UserId])>>

routes ==
    enrollmentRoutes \o atomicRoutes \o performanceRoutes \o programRoutes
    \o calendarRoutes \o facilityRoutes \o teachingRoutes \o gradeRoutes \o authRoutes

-----------------------------------------------------------------------------
normalizePath(url) == SubSeq(url, 1, SelectLastInSeq(url, LAMBDA s : s # ""))

(* Letter by letter, unlike the routes of Express. *)
matchPath(template, actual) ==
    /\ Len(template) = Len(actual)
    /\ \A i \in DOMAIN actual : template[i] \in {":id", "*", actual[i]}

(* The value of a part of a job.  A query parameter has a list of values,   *)
(* of which the first counts.                                              *)
ValueOf(part, job) ==
    CASE part = Body -> job.data
      [] part = Query -> job.query
      [] part = Id -> job.id
      [] part = Header -> job.key
      [] IsParam(part) -> Head(job.query[part[2]])
      [] part[1] = "trimmed" -> trim(Head(job.query[part[2]]))
      [] OTHER -> <<part[2], job.user>>

(* An empty value is as good as none, a list of values never is; a trimmed *)
(* value must have something left.                                         *)
Present(part, job) ==
    CASE IsParam(part) ->
             part[2] \in DOMAIN job.query /\ job.query[part[2]] # <<"">>
      [] part[1] = "trimmed" ->
             part[2] \in DOMAIN job.query /\ ValueOf(part, job) # ""
      [] part = Id -> job.id # None
      [] part = Header -> job.key # None
      [] part[1] \in {"user", "token"} -> job.user # None
      [] OTHER -> TRUE

buildPayload(route, job) ==
    [f \in {g \in DOMAIN route.fields : Present(route.fields[g], job)} |->
        ValueOf(route.fields[f], job)]

(* The message for a job, or None.  The first route that matches decides,  *)
(* also when its payload cannot be built.                                  *)
resolve(job) ==
    LET path == normalizePath(job.url)
        Matches(route) == route.method = job.method /\ matchPath(route.path, path)
        first == SelectInSeq(routes, Matches)
    IN  IF first = 0 \/ \E parts \in routes[first].needs :
                            \A part \in parts : ~Present(part, job)
        THEN None
        ELSE [pattern |-> routes[first].pattern,
              payload |-> buildPayload(routes[first], job)]
=============================================================================
