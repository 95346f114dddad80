----------------------------- MODULE MCSeeding -----------------------------
(***************************************************************************)
(* Two requests and the smallest fixtures in which every seeder has        *)
(* something to do: two levels of one course each, two terms, of which one *)
(* is past.                                                                *)
(***************************************************************************)
EXTENDS Seeding

MCStaff == <<"docente1">>
MCStudents == <<"estudiante1">>
MCCourses == <<<<"MAT101">>, <<"MAT102">>>>
MCPrerequisites == <<<<"MAT102", "MAT101">>>>
MCYears == <<"2024">>
MCTerms == [y \in {"2024"} |-> <<"2024-02-01", "2024-08-01">>]
MCClassrooms == <<"A-101">>
MCPlan == <<[term |-> "2024-02-01", level |-> 1], [term |-> "2024-08-01", level |-> 2]>>
MCPast == <<"2024-02-01">>
=============================================================================
