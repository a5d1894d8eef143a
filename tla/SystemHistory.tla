---------------------------- MODULE SystemHistory ----------------------------
(***************************************************************************)
(* What the version store promises its readers, without requests, program  *)
(* counters or states other than pending and decided: each system has an   *)
(* append-only numbered history, a set of its versions awaits review, and  *)
(* a pointer moves only to versions that do not. Versioning implements it. *)
(***************************************************************************)
EXTENDS Naturals

VARIABLES history,  \* document -> [record, version, content, base, submittedBy]
          pending,  \* the documents that await review
          current   \* record -> the number of its current version

hvars == <<history, pending, current>>

Numbered(r, n) == {d \in DOMAIN history : /\ history[d].record = r
                                          /\ history[d].version = n}

(* The versions of a system that have been published or decided on.         *)
Decided(r, n) == Numbered(r, n) \ pending

Init == /\ pending = {}
        /\ \A r \in DOMAIN current : Decided(r, current[r]) # {}

(* A system is named before its first version is stored.                    *)
Register(r) ==
    /\ r \notin DOMAIN current
    /\ current' = [x \in DOMAIN current \cup {r} |->
                     IF x = r THEN 1 ELSE current[x]]
    /\ UNCHANGED <<history, pending>>

(* A version takes the next number of its record and names as its base a    *)
(* decided version of the same record; the first has none.                  *)
Append(d) ==
    /\ d \notin DOMAIN history
    /\ DOMAIN history' = DOMAIN history \cup {d}
    /\ \A x \in DOMAIN history : history'[x] = history[x]
    /\ LET v == history'[d]
       IN  /\ Numbered(v.record, v.version) = {}
           /\ \A n \in 1 .. v.version - 1 : Numbered(v.record, n) # {}
           /\ v.record \in DOMAIN current
           /\ IF v.version = 1 THEN v.base = 0
              ELSE Decided(v.record, v.base) # {}
    /\ pending' \in {pending, pending \cup {d}}
    /\ UNCHANGED current

Decide(d) ==
    /\ d \in pending
    /\ pending' = pending \ {d}
    /\ UNCHANGED <<history, current>>

MovePointer(r, n) ==
    /\ r \in DOMAIN current
    /\ Decided(r, n) # {}
    /\ current' = [current EXCEPT ![r] = n]
    /\ UNCHANGED <<history, pending>>

Next == \/ \E r \in DOMAIN current' : Register(r) \/ MovePointer(r, current'[r])
        \/ \E d \in DOMAIN history' : Append(d)
        \/ \E d \in pending : Decide(d)

Spec == Init /\ [][Next]_hvars
=============================================================================
