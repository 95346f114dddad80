------------------------------ MODULE Seeding ------------------------------
(***************************************************************************)
(* The seeding of the microservices with test data (SeedingService): eight *)
(* seeders run one after the other, share the ids they were given, and     *)
(* send one message per record.  Nothing is rolled back when one fails,    *)
(* and nothing keeps two requests from seeding and clearing together.      *)
(*                                                                         *)
(* A record is its own id: its fields, the records it refers to, and the   *)
(* operation that sent it, which sends no message twice.  The rooms and    *)
(* teachers of sections, handed out in turn, are left out.                 *)
(***************************************************************************)
EXTENDS Naturals, Sequences, FiniteSets, FiniteSetsExt, SequencesExt

CONSTANTS
    Ops,            \* requests to seed or to clear
    Staff,          \* e-mails of administrators and teachers
    Students,       \* e-mails of students
    Program,        \* the code of the degree program
    Levels,         \* the number of levels
    Courses,        \* level -> codes of its courses
    Prerequisites,  \* pairs of codes: a course and one it requires
    Years,          \* academic years
    Terms,          \* academic year -> its terms
    Classrooms,
    Plan,           \* the terms that get sections and enrollments, with their levels
    Past,           \* the first of them, which get details
    Slots,          \* schedules per section
    MaxFaults,      \* bound on messages that fail or are late, and on runs
                    \* that begin during another
    None

(* The records of each table: the fields that matter, the records they      *)
(* refer to, and the request that sent them.                                *)
Codes == UNION {ToSet(Courses[l]) : l \in 1 .. Levels}
Dates == UNION {ToSet(Terms[y]) : y \in ToSet(Years)}
ProgramRecord == [key: {Program}, by: Ops]
PlanRecord == [key: {"2024"}, program: ProgramRecord, by: Ops]
UserRecord == [key: ToSet(Staff), student: {FALSE}, plan: {None}, by: Ops]
         \cup [key: ToSet(Students), student: {TRUE}, plan: PlanRecord, by: Ops]
LevelRecord == [key: 1 .. Levels, by: Ops]
CourseRecord == [key: Codes, plan: PlanRecord, level: LevelRecord, by: Ops]
PrerequisiteRecord ==
    [key: ToSet(Prerequisites), course: CourseRecord, requires: CourseRecord, by: Ops]
YearRecord == [key: ToSet(Years), by: Ops]
TermRecord == [key: Dates, year: YearRecord, by: Ops]
ClassroomRecord == [key: ToSet(Classrooms), by: Ops]
SectionRecord == [course: CourseRecord, term: TermRecord, by: Ops]
ScheduleRecord == [key: 1 .. Slots, section: SectionRecord, by: Ops]
EnrollmentRecord == [student: UserRecord, term: TermRecord, by: Ops]
DetailRecord == [enrollment: EnrollmentRecord, section: SectionRecord, by: Ops]
GradeRecord == [student: UserRecord, section: SectionRecord, by: Ops]

Record(table) ==
    CASE table = "users"         -> UserRecord
      [] table = "programs"      -> ProgramRecord
      [] table = "plans"         -> PlanRecord
      [] table = "levels"        -> LevelRecord
      [] table = "courses"       -> CourseRecord
      [] table = "prerequisites" -> PrerequisiteRecord
      [] table = "years"         -> YearRecord
      [] table = "terms"         -> TermRecord
      [] table = "classrooms"    -> ClassroomRecord
      [] table = "sections"      -> SectionRecord
      [] table = "schedules"     -> ScheduleRecord
      [] table = "enrollments"   -> EnrollmentRecord
      [] table = "details"       -> DetailRecord
      [] table = "grades"        -> GradeRecord

Tables == {"users", "programs", "plans", "levels", "courses", "prerequisites", "years",
           "terms", "classrooms", "sections", "schedules", "enrollments", "details", "grades"}

ASSUME SeedingAssumption ==
    /\ Levels \in Nat \ {0} /\ Slots \in Nat \ {0} /\ MaxFaults \in Nat
    /\ Staff \in Seq(ToSet(Staff)) /\ Students \in Seq(ToSet(Students))
    /\ Courses \in [1 .. Levels -> Seq(Codes)] /\ Prerequisites \in Seq(Codes \X Codes)
    /\ Years \in Seq(ToSet(Years)) /\ Terms \in [ToSet(Years) -> Seq(Dates)]
    /\ Classrooms \in Seq(ToSet(Classrooms))
    /\ Plan \in Seq(ToSet(Plan)) /\ \A p \in ToSet(Plan) : p.level \in 1 .. Levels
    /\ Past \in Seq(ToSet(Past)) /\ ToSet(Past) \subseteq {p.term : p \in ToSet(Plan)}
    /\ \A table \in Tables : None \notin Record(table)

VARIABLES
    op,         \* request -> where it is, what it has left to send, what it knows
    store,      \* table -> the records of the microservices
    late,       \* messages given up that may still be executed
    faults,     \* what counts against MaxFaults so far
    disturbed   \* operations overlapped, a clear was incomplete, something came late,
                \* or a section counts that was not stored

vars == <<op, store, late, faults, disturbed>>

(* The tables whose ids the seeders pass on, *)
Kept == {"users", "programs", "plans", "levels", "courses", "years", "terms",
         "classrooms", "enrollments"}
(* those that refuse a second record of a key, those of them in which the   *)
(* one that exists is looked up then,                                       *)
Unique == {"users", "programs", "plans", "levels", "courses", "prerequisites", "years",
           "terms", "classrooms"}
LookedUp == {"users", "levels"}
(* those whose failures are reported, and those whose failures count as     *)
(* created.                                                                 *)
Reported == {"levels", "sections", "enrollments"}
Unchecked == {"schedules", "details", "grades"}

TableOf(step) == IF step \in {"staff", "students"} THEN "users" ELSE step

UnderWay(r) == op[r].at \notin {"idle", "done", "failed"}
First(seq) == IF seq = << >> THEN None ELSE Head(seq)

(* One message per element of a sequence, or per element that passes a test;*)
(* the first element that passes a test, or None.                           *)
ForEach(seq, Message(_)) == [i \in DOMAIN seq |-> Message(seq[i])]
ForEachThat(seq, Test(_), Message(_)) ==
    FlattenSeq([i \in DOMAIN seq |-> IF Test(seq[i]) THEN <<Message(seq[i])>> ELSE << >>])
Find(seq, Test(_)) ==
    LET passing == {i \in DOMAIN seq : Test(seq[i])}
    IN  IF passing = {} THEN None ELSE seq[Min(passing)]

-----------------------------------------------------------------------------
(* The requests: POST seeding/run, with or without clear, and seeding/clear. *)
ClearSteps == <<"grades", "enrollments", "teaching", "calendar", "facilities", "programs", "auth">>

NoIds == [t \in Kept |-> << >>]
Idle == [at |-> "idle", seed |-> FALSE, toClear |-> << >>, todo |-> << >>, ids |-> NoIds,
         errors |-> FALSE, counted |-> 0, success |-> TRUE]

Init ==
    /\ op = [r \in Ops |-> Idle]
    /\ store = [t \in Tables |-> {}]
    /\ late = {} /\ faults = 0 /\ disturbed = FALSE

Fault == faults < MaxFaults /\ faults' = faults + 1

start(r, seed, steps) ==
    /\ op[r] = Idle
    /\ op' = [op EXCEPT ![r] = [Idle EXCEPT !.at = IF steps = << >> THEN "start" ELSE "clearing",
                                            !.seed = seed, !.toClear = steps]]
    /\ disturbed' = (disturbed \/ \E q \in Ops : UnderWay(q))
    /\ IF seed /\ \E q \in Ops : UnderWay(q) /\ op[q].seed THEN Fault ELSE UNCHANGED faults
    /\ UNCHANGED <<store, late>>

seedAll(r) == \E steps \in {<< >>, ClearSteps} : start(r, TRUE, steps)
clearAllData(r) == start(r, FALSE, ClearSteps)

(* What a service removes, its own cascades included. *)
Removes(service) ==
    CASE service = "grades"      -> {"grades"}
      [] service = "enrollments" -> {"enrollments", "details"}
      [] service = "teaching"    -> {"sections", "schedules"}
      [] service = "calendar"    -> {"years", "terms"}
      [] service = "facilities"  -> {"classrooms"}
      [] service = "programs"    -> {"programs", "plans", "levels", "courses", "prerequisites"}
      [] service = "auth"        -> {"users"}

Wiped(service) == [t \in Tables |-> IF t \in Removes(service) THEN {} ELSE store[t]]

(* The seeders of these services go on when their clear fails. *)
Swallowed == {"grades", "enrollments", "teaching"}

cleared(r) ==
    LET rest == Tail(op[r].toClear) IN
    op' = [op EXCEPT ![r].toClear = rest,
                     ![r].at = IF rest # << >> THEN "clearing"
                               ELSE IF op[r].seed THEN "start" ELSE "done"]

clear(r) ==
    /\ op[r].at = "clearing"
    /\ store' = Wiped(Head(op[r].toClear))
    /\ cleared(r)
    /\ UNCHANGED <<late, faults, disturbed>>

(* The service fails, or it is late: then it may clear its tables later. *)
clearFails(r) ==
    /\ op[r].at = "clearing"
    /\ Fault
    /\ IF Head(op[r].toClear) \in Swallowed
       THEN cleared(r)
       ELSE op' = [op EXCEPT ![r].at = "failed", ![r].toClear = << >>]
    /\ late' \in {late, late \cup {[clear |-> Head(op[r].toClear)]}}
    /\ disturbed' = TRUE
    /\ UNCHANGED store

-----------------------------------------------------------------------------
(* The steps of the seeders.  Each computes its messages from the ids that *)
(* are known and sends them one by one.                                    *)
At(r, step) == op[r].at = step /\ op[r].todo = << >>

goOn(r, step, messages) ==
    /\ op' = [op EXCEPT ![r].at = step, ![r].todo = messages]
    /\ UNCHANGED <<store, late, faults, disturbed>>

(* The result of a seeder, whatever it could not create. *)
Result(o) == o.success /\ ~o.errors /\ o.counted > 0

(* The next seeder begins, possibly with an error. *)
begin(r, step, messages, error) ==
    op' = [op EXCEPT ![r].at = step, ![r].todo = messages, ![r].errors = error,
                     ![r].counted = 0, ![r].success = Result(op[r])]
Quietly == UNCHANGED <<store, late, faults, disturbed>>

(* AuthSeeder *)
createStaff(r) ==
    LET user(email) == [key |-> email, student |-> FALSE, plan |-> None, by |-> r] IN
    /\ At(r, "start")
    /\ goOn(r, "staff", ForEach(Staff, user))

(* ProgramsSeeder *)
createDegreePrograms(r) ==
    /\ At(r, "staff")
    /\ begin(r, "programs", <<[key |-> Program, by |-> r]>>, FALSE) /\ Quietly

createStudyPlans(r) ==
    LET plan(program) == [key |-> "2024", program |-> program, by |-> r] IN
    /\ At(r, "programs")
    /\ goOn(r, "plans", ForEach(op[r].ids.programs, plan))

createLevels(r) ==
    /\ At(r, "plans")
    /\ goOn(r, "levels", [i \in 1 .. Levels |-> [key |-> i, by |-> r]])

(* Without any level the seeder ends here; without a plan it has no courses. *)
createCourses(r) ==
    LET plan == First(op[r].ids.plans)
        course(level, code) == [key |-> code, plan |-> plan, level |-> level, by |-> r]
        ofLevel(level) == [i \in DOMAIN Courses[level.key] |-> course(level, Courses[level.key][i])]
    IN
    /\ At(r, "levels")
    /\ \/ /\ op[r].ids.levels = << >>
          /\ goOn(r, "students", << >>)
       \/ /\ op[r].ids.levels # << >>
          /\ goOn(r, "courses",
                  IF plan = None THEN << >> ELSE FlattenSeq(ForEach(op[r].ids.levels, ofLevel)))

Course(r, code) ==
    LET ofCode(c) == c.key = code IN Find(op[r].ids.courses, ofCode)

(* A wrong version of the next: one of the two courses is enough. *)
createPrerequisitesMut(r) ==
    LET known(pair) == Course(r, pair[1]) # None \/ Course(r, pair[2]) # None
        message(pair) == [key |-> pair, course |-> Course(r, pair[1]),
                          requires |-> Course(r, pair[2]), by |-> r]
    IN
    /\ At(r, "courses")
    /\ goOn(r, "prerequisites", ForEachThat(Prerequisites, known, message))

createPrerequisites(r) ==
    LET known(pair) == Course(r, pair[1]) # None /\ Course(r, pair[2]) # None
        message(pair) == [key |-> pair, course |-> Course(r, pair[1]),
                          requires |-> Course(r, pair[2]), by |-> r]
    IN
    /\ At(r, "courses")
    /\ goOn(r, "prerequisites", ForEachThat(Prerequisites, known, message))

createStudents(r) ==
    LET plan == First(op[r].ids.plans)
        student(email) == [key |-> email, student |-> TRUE, plan |-> plan, by |-> r]
    IN
    /\ At(r, "prerequisites")
    /\ goOn(r, "students", IF plan = None THEN << >> ELSE ForEach(Students, student))

(* CalendarSeeder *)
createAcademicYears(r) ==
    LET year(y) == [key |-> y, by |-> r] IN
    /\ At(r, "students")
    /\ begin(r, "years", ForEach(Years, year), FALSE) /\ Quietly

createTerms(r) ==
    LET ofYear(year) == [i \in DOMAIN Terms[year.key] |->
                            [key |-> Terms[year.key][i], year |-> year, by |-> r]]
    IN
    /\ At(r, "years")
    /\ goOn(r, "terms", FlattenSeq(ForEach(op[r].ids.years, ofYear)))

createClassrooms(r) ==
    LET room(code) == [key |-> code, by |-> r] IN
    /\ At(r, "terms")
    /\ goOn(r, "classrooms", ForEach(Classrooms, room))

Term(r, key) ==
    LET ofKey(t) == t.key = key IN Find(op[r].ids.terms, ofKey)

(* CourseSectionsSeeder *)
createSections(r) ==
    LET sections(p) ==
            LET ofLevel(c) == c.level.key = p.level
                section(c) == [course |-> c, term |-> Term(r, p.term), by |-> r]
            IN  IF Term(r, p.term) = None THEN << >>
                ELSE ForEachThat(op[r].ids.courses, ofLevel, section)
    IN
    /\ At(r, "classrooms")
    /\ begin(r, "sections", FlattenSeq(ForEach(Plan, sections)),
             op[r].ids.classrooms = << >> \/ \E p \in ToSet(Plan) : Term(r, p.term) = None)
    /\ Quietly

(* What a service lists, in some order and within its limit; nothing when *)
(* it fails.                                                               *)
List(table, listed) ==
    \/ listed = SetToSeq(store[table]) /\ UNCHANGED faults
    \/ listed = << >> /\ Fault

(* SchedulesSeeder *)
createSchedules(r) ==
    LET ofSection(s) == [i \in 1 .. Slots |-> [key |-> i, section |-> s, by |-> r]] IN
    /\ At(r, "sections")
    /\ \E listed \in {<< >>, SetToSeq(store["sections"])} :
         /\ List("sections", listed)
         /\ begin(r, "schedules", FlattenSeq(ForEach(listed, ofSection)), listed = << >>)
    /\ UNCHANGED <<store, late, disturbed>>

FirstStudent(r) ==
    LET isStudent(u) == u.student IN Find(op[r].ids.users, isStudent)

(* EnrollmentsSeeder *)
createEnrollments(r) ==
    LET present(p) == Term(r, p.term) # None
        enrollment(p) == [student |-> FirstStudent(r), term |-> Term(r, p.term), by |-> r]
    IN
    /\ At(r, "schedules")
    /\ \/ /\ FirstStudent(r) = None
          /\ begin(r, "enrollments", << >>, TRUE)
       \/ /\ FirstStudent(r) # None
          /\ begin(r, "enrollments", ForEachThat(Plan, present, enrollment),
                   \E p \in ToSet(Plan) : ~present(p))
    /\ Quietly

(* A wrong version of the next: sections of any term. *)
detailsMut(r, listed, key) ==
    LET term == Term(r, key)
        inTerm(s) == TRUE
        ofTerm(e) == term = None \/ e.term = term
        enrollment == Find(op[r].ids.enrollments, ofTerm)
        detail(s) == [enrollment |-> enrollment, section |-> s, by |-> r]
    IN  IF enrollment = None THEN << >> ELSE ForEachThat(listed, inTerm, detail)

(* The details of one term.  Without the term every key includes its id,    *)
(* the empty string, and the first enrollment is found; but no section is. *)
details(r, listed, key) ==
    LET term == Term(r, key)
        inTerm(s) == s.term = term
        ofTerm(e) == term = None \/ e.term = term
        enrollment == Find(op[r].ids.enrollments, ofTerm)
        detail(s) == [enrollment |-> enrollment, section |-> s, by |-> r]
    IN  IF enrollment = None THEN << >> ELSE ForEachThat(listed, inTerm, detail)

(* EnrollmentDetailsSeeder *)
createEnrollmentDetails(r) ==
    /\ At(r, "enrollments")
    /\ \/ /\ op[r].ids.enrollments = << >>
          /\ begin(r, "details", << >>, TRUE)
          /\ UNCHANGED faults
       \/ /\ op[r].ids.enrollments # << >>
          /\ \E listed \in {<< >>, SetToSeq(store["sections"])} :
               LET ofTerm(key) == details(r, listed, key) IN
               /\ List("sections", listed)
               /\ begin(r, "details", FlattenSeq(ForEach(Past, ofTerm)), listed = << >>)
    /\ UNCHANGED <<store, late, disturbed>>

(* GradesSeeder *)
createGrades(r) ==
    LET mine(d) == d.enrollment.student = FirstStudent(r)
        grade(d) == [student |-> FirstStudent(r), section |-> d.section, by |-> r]
    IN
    /\ At(r, "details")
    /\ \/ /\ FirstStudent(r) = None
          /\ begin(r, "grades", << >>, TRUE)
          /\ UNCHANGED faults
       \/ /\ FirstStudent(r) # None
          /\ \E listed \in {<< >>, SetToSeq(store["details"])} :
               /\ List("details", listed)
               /\ begin(r, "grades", ForEachThat(listed, mine, grade), listed = << >>)
    /\ UNCHANGED <<store, late, disturbed>>

finish(r) ==
    /\ At(r, "grades")
    /\ op' = [op EXCEPT ![r] = [Idle EXCEPT !.at = "done", !.success = Result(op[r])]]
    /\ Quietly

-----------------------------------------------------------------------------
(* The answers to the messages. *)
Sending(r) == UnderWay(r) /\ op[r].todo # << >>
Message(r) == Head(op[r].todo)
Table(r) == TableOf(op[r].at)
Existing(table, m) == {x \in store[table] : x.key = m.key}

(* An id is counted and kept, *)
answered(r, id) ==
    op' = [op EXCEPT ![r].todo = Tail(@), ![r].counted = @ + 1,
                     ![r].ids = IF Table(r) \notin Kept THEN @
                                ELSE [@ EXCEPT ![Table(r)] = Append(@, id)]]

(* A wrong version of the next: a failure is not reported. *)
unansweredMut(r) ==
    op' = [op EXCEPT ![r].todo = Tail(@),
                     ![r].counted = IF Table(r) \in Unchecked THEN @ + 1 ELSE @]

(* and the lack of one is reported, counted all the same, or passed over.   *)
unanswered(r) ==
    op' = [op EXCEPT ![r].todo = Tail(@),
                     ![r].counted = IF Table(r) \in Unchecked THEN @ + 1 ELSE @,
                     ![r].errors = @ \/ Table(r) \in Reported]

(* What a record of a table refers to, with the tables it is in. *)
References(table, x) ==
    CASE table = "users"         -> IF x.student THEN {<<"plans", x.plan>>} ELSE {}
      [] table = "plans"         -> {<<"programs", x.program>>}
      [] table = "courses"       -> {<<"plans", x.plan>>, <<"levels", x.level>>}
      [] table = "prerequisites" -> {<<"courses", x.course>>, <<"courses", x.requires>>}
      [] table = "terms"         -> {<<"years", x.year>>}
      [] table = "sections"      -> {<<"courses", x.course>>, <<"terms", x.term>>}
      [] table = "schedules"     -> {<<"sections", x.section>>}
      [] table = "enrollments"   -> {<<"users", x.student>>, <<"terms", x.term>>}
      [] table = "details"       -> {<<"enrollments", x.enrollment>>, <<"sections", x.section>>}
      [] table = "grades"        -> {<<"users", x.student>>, <<"sections", x.section>>}
      [] OTHER                   -> {}

Executes(table, m) == store' = [store EXCEPT ![table] = @ \cup {m}]
Refused(table, m) == table \in Unique /\ Existing(table, m) # {}
Dangling(table, m) == \E ref \in References(table, m) : ref[2] \notin store[ref[1]]

createSucceeds(r) ==
    /\ Sending(r)
    /\ ~Refused(Table(r), Message(r))
    /\ Executes(Table(r), Message(r))
    /\ answered(r, Message(r))
    /\ UNCHANGED <<late, faults, disturbed>>

(* "already exists": the lookup of the one that does may fail.  A service   *)
(* may also refuse a record whose references are gone.                      *)
createRefused(r) ==
    /\ Sending(r)
    /\ \/ /\ Refused(Table(r), Message(r)) /\ Table(r) \in LookedUp
          /\ \/ \E x \in Existing(Table(r), Message(r)) : answered(r, x) /\ UNCHANGED faults
             \/ unanswered(r) /\ Fault
       \/ /\ \/ Refused(Table(r), Message(r)) /\ Table(r) \notin LookedUp
             \/ Dangling(Table(r), Message(r))
          /\ unanswered(r)
          /\ UNCHANGED faults
    /\ UNCHANGED <<store, late, disturbed>>

(* An error, or a timeout after which the message may still be executed. *)
createFails(r) ==
    /\ Sending(r)
    /\ Fault
    /\ unanswered(r)
    /\ late' \in {late, late \cup {[table |-> Table(r), message |-> Message(r)]}}
    /\ UNCHANGED <<store, disturbed>>

(* An answer without an id, of a service that has stored nothing: an error  *)
(* like another, but a section counts whatever the answer is.              *)
createIgnored(r) ==
    /\ Sending(r) /\ Table(r) = "sections"
    /\ Fault
    /\ answered(r, None)
    /\ disturbed' = TRUE
    /\ UNCHANGED <<store, late>>

(* A message that was given up is executed after all. *)
executeLate ==
    \E m \in late :
        /\ late' = late \ {m}
        /\ \/ /\ "clear" \in DOMAIN m
              /\ store' = Wiped(m.clear)
              /\ disturbed' = TRUE
           \/ /\ "table" \in DOMAIN m
              /\ ~Refused(m.table, m.message)
              /\ Executes(m.table, m.message)
              /\ disturbed' = (disturbed \/ ~UnderWay(m.message.by))
        /\ UNCHANGED <<op, faults>>

-----------------------------------------------------------------------------
Seeders(r) ==
    \/ createStaff(r)
    \/ createDegreePrograms(r) \/ createStudyPlans(r) \/ createLevels(r)
    \/ createCourses(r) \/ createPrerequisites(r) \/ createStudents(r)
    \/ createAcademicYears(r) \/ createTerms(r) \/ createClassrooms(r)
    \/ createSections(r) \/ createSchedules(r)
    \/ createEnrollments(r) \/ createEnrollmentDetails(r) \/ createGrades(r)
    \/ finish(r)

Answers(r) ==
    \/ clear(r) \/ clearFails(r)
    \/ createSucceeds(r) \/ createRefused(r) \/ createFails(r) \/ createIgnored(r)

Next ==
    \/ \E r \in Ops : seedAll(r) \/ clearAllData(r) \/ Seeders(r) \/ Answers(r)
    \/ executeLate

Spec == Init /\ [][Next]_vars

-----------------------------------------------------------------------------
(* The type of every variable: a message, an id and a record are those of   *)
(* their table, and none lacks what it refers to; a key is stored once.     *)
Steps == {"idle", "clearing", "start", "staff", "students", "done", "failed"} \cup Tables
TypeOK ==
    /\ \A r \in Ops :
         /\ op[r].at \in Steps
         /\ op[r].counted \in Nat
         /\ {op[r].seed, op[r].errors, op[r].success} \subseteq BOOLEAN
         /\ \A t \in Kept : op[r].ids[t] \in Seq(Record(t))
         /\ op[r].todo = << >> \/ op[r].todo \in Seq(Record(Table(r)))
    /\ \A t \in Tables : store[t] \subseteq Record(t)
    /\ \A t \in Unique : \A x, y \in store[t] : x.key = y.key => x = y
    /\ faults \in 0 .. MaxFaults /\ disturbed \in BOOLEAN

(* Records belong together, whatever failed, came late or overlapped: a     *)
(* section is one of a course of the level its term is planned for, a      *)
(* detail joins an enrollment with a section of its term, and only a       *)
(* student is enrolled (CourseSectionsSeeder, EnrollmentDetailsSeeder).    *)
(* As long as nothing disturbed the requests, what a record refers to       *)
(* exists, the study plan of a student excepted, which is removed before    *)
(* the student (clearAllData).                                             *)
RecordsBelongTogether ==
    /\ \A s \in store["sections"] :
         \E p \in ToSet(Plan) : s.term.key = p.term /\ s.course.level.key = p.level
    /\ \A d \in store["details"] : d.enrollment.term = d.section.term
    /\ \A e \in store["enrollments"] : e.student.student
    /\ ~disturbed => \A t \in Tables \ {"users"} : \A x \in store[t] :
         \A ref \in References(t, x) : ref[2] \in store[ref[1]]

(* A run that reports success, and that nothing disturbed, has enrolled its *)
(* first student in every term of the plan and has a section for each of    *)
(* its courses of the level of that term (SeedingService.seedAll).          *)
(* It says nothing of a section that a service answered without storing it: *)
(* that is success for the seeder (createIgnored).                         *)
Earned(r) ==
    \A p \in ToSet(Plan) :
        /\ \E e \in store["enrollments"] :
             e.by = r /\ e.student = FirstStudent(r) /\ e.term.key = p.term
        /\ \A c \in ToSet(op[r].ids.courses) : c.level.key = p.level =>
             \E s \in store["sections"] : s.by = r /\ s.course = c /\ s.term.key = p.term
SuccessIsEarned ==
    [][\A r \in Ops : finish(r) /\ Result(op[r]) /\ ~disturbed => Earned(r)]_vars
=============================================================================
