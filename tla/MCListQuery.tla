----------------------------- MODULE MCListQuery -----------------------------
(* Four systems, three of which share a name and two a creation time, next  *)
(* to a pending version and a soft-deleted system.                          *)
EXTENDS ListQuery

Doc(id, name, created, contains, live, deleted) ==
    [id |-> id, name |-> name, created |-> created, contains |-> contains,
     live |-> live, deleted |-> deleted]

MCDocuments ==
    {Doc(1, 2, 1, {"d"}, TRUE, FALSE), Doc(2, 2, 3, {"d"}, TRUE, FALSE),
     Doc(3, 2, 3, {"d"}, TRUE, FALSE), Doc(4, 1, 2, {}, TRUE, FALSE),
     Doc(5, 2, 1, {"d"}, FALSE, FALSE), Doc(6, 1, 1, {"d"}, TRUE, TRUE)}

MCSearchTerms == {"", "d"}
MCSorts       == {"", "name", "-name", "created", "-created", "rating"}

(* 7 is the largest integer: with it as page number the skip overflows, to  *)
(* a negative number or to a small one depending on the page size.          *)
RawPages      == {Absent, Malformed, -1, 1, 7}
=============================================================================
