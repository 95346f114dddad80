---------------------------- MODULE HttpEndpoints ----------------------------
(***************************************************************************)
(* The controllers that forward a request to a microservice, and the       *)
(* services that send the message: what a request becomes when it is       *)
(* handled directly.  Each of them is a table; the behaviour is in         *)
(* RequestPath.                                                            *)
(*                                                                         *)
(* A message has a pattern and a payload.  The payload is described by its *)
(* fields, each with the part of the request it is taken from; a payload   *)
(* that is one part as it stands has the single field "whole".             *)
(***************************************************************************)
EXTENDS Sequences, TLC

CONSTANT None

(* The parts of a request. *)
Body == <<"body">>
Query == <<"query">>
Id == <<"param", "id">>
Param(name) == <<"query", name>>
Header == <<"header", "x-idempotency-key">>
UserId == <<"user", "id">>
Token(claim) == <<"token", claim>>

Whole(part) == [whole |-> part]
Params(names) == [n \in names |-> Param(n)]
Message(resource, operation, fields) ==
    [pattern |-> <<resource, operation>>, fields |-> fields]

(* The five methods most services have; `dto` names the field of an update. *)
CrudMessages(resource, dto) ==
    [create  |-> Message(resource, "create", Whole(Body)),
     list    |-> Message(resource, "list", Whole(Query)),
     findOne |-> Message(resource, "findOne", Whole(Id)),
     update  |-> Message(resource, "update", "id" :> Id @@ dto :> Body),
     remove  |-> Message(resource, "remove", Whole(Id))]

-----------------------------------------------------------------------------
(* The services. *)

degreePrograms == CrudMessages("programs.degreePrograms", "updateDegreeProgramDto")
studyPlans == CrudMessages("programs.studyPlans", "updateStudyPlanDto")
levels == CrudMessages("programs.levels", "updateLevelDto")
courses == CrudMessages("programs.courses", "updateCourseDto")
prerequisites == CrudMessages("programs.prerequisites", "updatePrerequisiteDto")
academicYears == CrudMessages("calendar.academicYears", "updateAcademicYearDto")
terms == CrudMessages("calendar.terms", "updateTermDto")
classrooms == CrudMessages("facilities.classrooms", "updateClassroomDto")
courseSections == CrudMessages("teaching.courseSections", "updateCourseSectionDto")
schedules == CrudMessages("teaching.schedules", "updateScheduleDto")
grades == CrudMessages("grades", "updateGradeDto")
enrollments == CrudMessages("enrollments", "updateEnrollmentDto")
enrollmentDetails == CrudMessages("enrollment-details", "updateEnrollmentDetailDto")

academicValidations ==
    [checkPrerequisites |-> Message("enrollments.academic", "checkPrerequisites",
                                    Params({"studentId", "courseId"})),
     validateEnrollment |-> Message("enrollments.academic", "validateEnrollment",
                                    Params({"studentId", "courseSectionId", "termId"}))]

atomicEnrollment ==
    LET Enroll == [data |-> Body, idempotencyKey |-> Header]
    IN  [enroll      |-> Message("enrollments.atomic", "enroll", Enroll),
         enrollBatch |-> Message("enrollments.atomic", "enrollBatch", Enroll),
         quotaStatus |-> Message("enrollments.atomic", "quotaStatus",
                                 [courseSectionId |-> Id]),
         idempotencyStats |-> Message("enrollments.atomic", "idempotencyStats", <<>>)]

(* The methods that take the names of their query parameters as they are. *)
performance ==
    LET Of(operation, names) ==
            Message("enrollments.performance", operation, Params(names))
    IN  [prerequisites |-> Of("prerequisites", {"courseId"}),
         approvedCourses |-> Of("approvedCourses", {"studentId", "courseIds"}),
         schedules |-> Of("schedules", {"courseSectionIds"}),
         enrollmentCount |-> Of("enrollmentCount", {"studentId", "termId"}),
         batchPrerequisites |-> Of("batchPrerequisites", {"studentId", "courseIds"}),
         hasPassed |-> Of("hasPassed", {"studentId", "courseId"}),
         studentEnrollmentDetails |->
             Of("studentEnrollmentDetails", {"studentId", "termId"})]

recommendedCourses ==
    Message("enrollments.students", "recommendedCourses",
            Params({"studentId", "studentCode"}))

auth ==
    [register |-> Message("auth", "register", Whole(Body)),
     login |-> Message("auth", "login", Whole(Body)),
     findAllUsers |-> Message("auth", "get-users", <<>>),
     updateUser |-> Message("auth", "update-user",
                            [userId |-> UserId, updateUserDto |-> Body]),
     changePassword |-> Message("auth", "change-password",
                                [userId |-> UserId, changePasswordDto |-> Body]),
     logout |-> Message("auth", "logout",
                        [jti |-> Token("jti"), exp |-> Token("exp")]),
     logoutAll |-> Message("auth", "logout-all", [userId |-> UserId])]

-----------------------------------------------------------------------------
(* The controllers: method, path, the message sent (None: the answer is    *)
(* computed here) and the roles the guard asks for (None: no guard; {}: any *)
(* valid token).                                                           *)

Endpoint(method, path, message) ==
    [method |-> method, path |-> path, message |-> message, roles |-> None]
Guarded(method, path, roles, message) ==
    [Endpoint(method, path, message) EXCEPT !.roles = roles]

CrudEndpoints(base, service) ==
    {Endpoint("POST", base, service.create),
     Endpoint("GET", base, service.list),
     Endpoint("GET", Append(base, ":id"), service.findOne),
     Endpoint("PATCH", Append(base, ":id"), service.update),
     Endpoint("DELETE", Append(base, ":id"), service.remove)}

DegreeProgramsController == CrudEndpoints(<<"degree-programs">>, degreePrograms)
StudyPlansController == CrudEndpoints(<<"study-plans">>, studyPlans)
LevelsController == CrudEndpoints(<<"levels">>, levels)
CoursesController == CrudEndpoints(<<"courses">>, courses)
PrerequisitesController == CrudEndpoints(<<"prerequisites">>, prerequisites)
AcademicYearsController == CrudEndpoints(<<"calendar", "managements">>, academicYears)
TermsController == CrudEndpoints(<<"calendar", "periods">>, terms)
ClassroomsController == CrudEndpoints(<<"classrooms">>, classrooms)
CourseSectionsController == CrudEndpoints(<<"course-sections">>, courseSections)
SchedulesController == CrudEndpoints(<<"schedules">>, schedules)
GradesController == CrudEndpoints(<<"grades">>, grades)
EnrollmentsController == CrudEndpoints(<<"enrollments">>, enrollments)
EnrollmentDetailsController == CrudEndpoints(<<"enrollment-details">>, enrollmentDetails)

AcademicValidationsController ==
    {Endpoint("GET", <<"academic-validations", "prerequisites", "check">>,
              academicValidations.checkPrerequisites),
     Endpoint("GET", <<"academic-validations", "enrollment", "validate">>,
              academicValidations.validateEnrollment)}

StudentAdvisoryController ==
    {Endpoint("GET", <<"students", "recommended-courses">>, recommendedCourses)}

AtomicEnrollmentController ==
    LET At(rest) == <<"atomic-enrollment">> \o rest
    IN  {Endpoint("POST", At(<<"enroll">>), atomicEnrollment.enroll),
         Endpoint("POST", At(<<"enroll", "batch">>), atomicEnrollment.enrollBatch),
         Endpoint("GET", At(<<"course-section", ":id", "quota-status">>),
                  atomicEnrollment.quotaStatus),
         Endpoint("GET", At(<<"idempotency", "stats">>),
                  atomicEnrollment.idempotencyStats)}

DatabasePerformanceController ==
    LET At(name, message) == Endpoint("GET", <<"database-performance", name>>, message)
    IN  {At("prerequisites", performance.prerequisites),
         At("approved-courses", performance.approvedCourses),
         At("schedules", performance.schedules),
         At("enrollment-count", performance.enrollmentCount),
         At("batch-prerequisites", performance.batchPrerequisites),
         At("has-passed", performance.hasPassed),
         At("student-enrollment-details", performance.studentEnrollmentDetails)}

AuthController ==
    {Endpoint("POST", <<"auth", "register">>, auth.register),
     Endpoint("POST", <<"auth", "login">>, auth.login),
     Guarded("GET", <<"auth", "users">>, {"ADMIN"}, auth.findAllUsers),
     Guarded("GET", <<"auth", "check-status">>, {}, None),
     Guarded("PATCH", <<"auth", "update-user">>, {}, auth.updateUser),
     Guarded("PUT", <<"auth", "change-password">>, {}, auth.changePassword),
     Guarded("POST", <<"auth", "logout">>, {}, auth.logout),
     Guarded("POST", <<"auth", "logout-all">>, {}, auth.logoutAll)}

Endpoints ==
    UNION {DegreeProgramsController, StudyPlansController, LevelsController,
           CoursesController, PrerequisitesController, AcademicYearsController,
           TermsController, ClassroomsController, CourseSectionsController,
           SchedulesController, GradesController, EnrollmentsController,
           EnrollmentDetailsController, AcademicValidationsController,
           StudentAdvisoryController, AtomicEnrollmentController,
           DatabasePerformanceController, AuthController}
=============================================================================
