--------------------------- MODULE MCChangeEvents ---------------------------
(* Small instances of the workflow with its change events: the handlers     *)
(* that announce, and PATCHes by a submitter, which must not.               *)
EXTENDS MCVersioning, ChangeEventsProperties

Announced   == {"create", "patch", "accept", "setCurrent"}
PlainBodies == {PlainBody}
OneRename   == {RenameTo(y)}
=============================================================================
