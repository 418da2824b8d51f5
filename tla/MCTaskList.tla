------------------------------ MODULE MCTaskList ------------------------------
(* Instances of TaskList for TLC. *)
EXTENDS TaskList, TLC

CONSTANTS acme, globex

\* Both companies exist from the start, each with its key.
AcmeKey == <<"a">>
GlobexKey == <<"g">>
Keys == {AcmeKey, GlobexKey}
TwoCompanies == (acme :> AcmeKey) @@ (globex :> GlobexKey)

NoUser == <<>>

\* The client shows the key of the first company, another company's tasks appear
\* beside it.
ClientKeys == {AcmeKey}

\* Tasks are interchangeable.
Symmetry == Permutations(TaskId)

===============================================================================
