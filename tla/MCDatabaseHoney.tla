-------------------------- MODULE MCDatabaseHoney --------------------------
(* Four shapes of tables: a serial key, a UUID key that the row has to supply, no key
   at all, and one that holds credentials.                                          *)
EXTENDS DatabaseHoney, TLC

Column(name, type, sensitivity) ==
  [name |-> name, type |-> type, sensitivity |-> sensitivity,
   nullable |-> FALSE, default |-> FALSE, generated |-> FALSE, foreign |-> FALSE]

TableOf(columns, primaryKey) ==
  [columns |-> columns, primaryKey |-> primaryKey,
   allowedSchema |-> TRUE, blockedName |-> FALSE, triggers |-> FALSE]

Email == Column("email", "text", "synthetic_email")

Orders == TableOf({[Column("id", "integer", "identifier") EXCEPT !.default = TRUE], Email}, {"id"})
Tickets == TableOf({Column("id", "uuid", "identifier"), Email}, {"id"})
Notes == TableOf({[Email EXCEPT !.nullable = TRUE]}, {})
Logins == TableOf({Column("id", "uuid", "identifier"), Column("hash", "text", "credential")}, {"id"})

MCTables == {Orders, Tickets, Notes, Logins}

ActorSymmetry == Permutations(Handlers) \cup Permutations(Workers)
=============================================================================
