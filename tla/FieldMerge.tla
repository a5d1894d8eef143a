----------------------------- MODULE FieldMerge -----------------------------
(***************************************************************************)
(* The substantive content of a game-system version and the field-wise     *)
(* diff and merge that PATCH and AcceptVersion are built on                *)
(* (models/versioning.go, server/game_systems.go).                         *)
(*                                                                         *)
(* A content is a function from the patchable fields to opaque values.     *)
(* Lists of field names are sets here: changedFields sorts its result and  *)
(* nothing depends on the order.                                           *)
(***************************************************************************)
CONSTANTS Fields,   \* the patchable fields: name, edition, publisher_id, notes, tags
          Values,   \* opaque field values
          None      \* Go's nil where the value is not a number

Content == [Fields -> Values]

(* patchGameSystem: the existing snapshot with the fields named by the body *)
(* replaced. A patch is a function on the fields it names; it is empty when *)
(* the body names no recognised field.                                      *)
Overlay(content, patch) ==
    [f \in Fields |-> IF f \in DOMAIN patch THEN patch[f] ELSE content[f]]

changedFields(submitted, base) == {f \in Fields : submitted[f] # base[f]}

(* AcceptVersion's target: every changed field, or the selected ones among  *)
(* them. A nil selection (None) means all; an empty one means none.         *)
Target(submitted, base, selected) ==
    {f \in changedFields(submitted, base) : selected = None \/ f \in selected}

(* Variant: no target field is ever reported as a conflict.                 *)
NoConflicts(target, current, base) == {}

(* A target field whose current value has left the submission's base.       *)
Conflicts(target, current, base) == {f \in target : current[f] # base[f]}

(* Variant: a conflicting field is reported and overwritten all the same.   *)
DerivedOverConflicts(target, submitted, current, base) ==
    [f \in Fields |-> IF f \in target THEN submitted[f] ELSE current[f]]

(* derived := *current, then every target field without a conflict set.     *)
Derived(target, submitted, current, base) ==
    [f \in Fields |-> IF f \in target \ Conflicts(target, current, base)
                      THEN submitted[f] ELSE current[f]]
=============================================================================
