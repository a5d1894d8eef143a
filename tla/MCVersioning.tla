---------------------------- MODULE MCVersioning ----------------------------
(* Small instances of the workflow for TLC: two fields, an editor, a        *)
(* submitter and a reviewer.                                                *)
EXTENDS VersioningInvariant, TLC

CONSTANTS ed, sub, rev,        \* users: editor, submitter, reviewer
          name, notes,         \* fields
          x, y, z,             \* values; x is the seeded one
          dune, mork           \* slugs

MCUsers      == {ed, sub, rev}
MCEditors    == {ed}
MCSubmitters == {sub}
MCReviewers  == {rev}
MCFields     == {name, notes}
MCValues     == {x, y, z}
MCSlugs      == {dune, mork}
MCBlank      == [f \in MCFields |-> x]

NoSpelling == [s \in {} |-> MetaId(Seed)]
MorkAsSeed == [s \in {mork} |-> MetaId(Seed)]

RenameTo(v) == [f \in {name} |-> v]
SetNotes(v) == [f \in {notes} |-> v]

(* Two bodies that clash on one field and differ in reach, so that merging  *)
(* one onto the other has both a conflict and a field to carry over.        *)
ClashingPatches == {RenameTo(y), [f \in MCFields |-> z]}
EmptyPatch      == [f \in {} |-> x]
AllPatches      == ClashingPatches \cup {EmptyPatch}

(* Accept everything, only the name, or nothing.                            *)
MCSelections == {None, {name}, {}}
AllSelected  == {None}

PlainBody    == [content |-> MCBlank, reviewedBy |-> None, resulting |-> 0]
ReviewedBody == [content |-> [f \in MCFields |-> y], reviewedBy |-> rev,
                 resulting |-> 2]
MCBodies     == {PlainBody, ReviewedBody}

SeedId    == {MetaId(Seed)}
OwnIds    == {MetaId(Seed), DocId(Seed)}
SeedForms == {MetaId(Seed), SlugId(dune), DocId(Seed)}
NewIds    == SeedForms \cup {MetaId(r) : r \in Requests} \cup {SlugId(mork)}

EveryOp   == {"create", "patch", "accept", "reject", "retract", "setCurrent"}
Editorial == EveryOp \ {"create"}
Creation  == {"create", "patch", "reject", "retract"}

Symmetry == Permutations(Requests)
=============================================================================
