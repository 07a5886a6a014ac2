---------------------------- MODULE MCCourseWork ----------------------------
(* Small instances of CourseWork for TLC. *)
EXTENDS CourseWork

CONSTANTS u1, c1

UserAndCourse == {u1, c1}
OldSubmissions == Submissions
=============================================================================
