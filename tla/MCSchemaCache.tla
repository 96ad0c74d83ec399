--------------------------- MODULE MCSchemaCache ----------------------------
(***************************************************************************)
(* Small instances of SchemaCache: everything on one replica r1, or the    *)
(* writer a2 on another one.                                               *)
(***************************************************************************)
EXTENDS SchemaCache

CONSTANTS a2, r1, r2

OneReplica == [x \in Requests \cup Writers |-> r1]

TwoReplicas == [x \in Requests \cup Writers |-> IF x = a2 THEN r2 ELSE r1]

=============================================================================
