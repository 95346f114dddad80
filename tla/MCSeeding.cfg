SPECIFICATION Spec
CONSTANTS
    Ops = {1, 2}
    Staff <- MCStaff
    Students <- MCStudents
    Program = "ISI"
    Levels = 2
    Courses <- MCCourses
    Prerequisites <- MCPrerequisites
    Years <- MCYears
    Terms <- MCTerms
    Classrooms <- MCClassrooms
    Plan <- MCPlan
    Past <- MCPast
    Slots = 1
    MaxFaults = 1
    None = None
INVARIANTS
    TypeOK
    RecordsBelongTogether
PROPERTY
    SuccessIsEarned
CHECK_DEADLOCK FALSE
