--------------------------- MODULE MCAgentSensor ---------------------------
(* A small agent sensor: one token, one session, concurrent requests. *)
EXTENDS AgentSensor, TLC

Env == <<"web", "api", "env">>       \* a credential file beside the task
Key == <<"ops", "key">>              \* another one, where a decoy may be deployed
Other == <<"ops", "notes">>          \* unrelated

MCPatternClass(path) == IF path \in {Env, Key} THEN "credential" ELSE "none"

Access(type, path, escapes) ==
  [type |-> type, path |-> [path |-> path, escapes |-> escapes], tool |-> None, resource |-> None]

MCActivities ==
  {Access("file_read", Env, FALSE), Access("file_read", Key, FALSE),
   Access("file_listed", Other, FALSE), Access("file_read", Other, TRUE)}

MCScopes == {[allowed |-> {<<"web", "ui">>}, denied |-> {}]}
MCDecoyPaths == {Key}

Symmetry ==
  Permutations(Enrollers) \cup Permutations(Sensors)
    \cup Permutations(Requests) \cup Permutations(EventIds)
=============================================================================
