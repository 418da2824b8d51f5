------------------------------- MODULE MCService -------------------------------
(* Instances of Service for TLC. *)
EXTENDS Service, TLC

CONSTANTS acme, c1, u0, a1

OneMessage == {<<"a">>}

\* The key of the company that exists at the start, and the one that a call
\* gives the company it creates.
AcmeKey == <<"a">>
NewKey == <<c1>>
BothKeys == {AcmeKey, NewKey}
OnlyNewKey == {NewKey}

OneCompany == (acme :> AcmeKey)
OneUser == (u0 :> [companyId |-> acme, emails |-> {a1}])

===============================================================================
