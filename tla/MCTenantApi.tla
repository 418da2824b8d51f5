------------------------------ MODULE MCTenantApi ------------------------------
(* Instances of TenantApi for TLC. *)
EXTENDS TenantApi, TLC

CONSTANTS acme, u0, a1

\* Keys as clients write them: plain, with a blank in front, nothing but blanks.
TypedKeys == {<<"a">>, <<" ", "b">>, <<" ">>}

\* The keys of the first company and of nobody yet.
PlainKeys == {<<"a">>, <<"b">>}

\* The only key that calls ask for: the company calls compete for it.
OneKey == {<<" ", "b">>}

AllKeys ==
  {trim(k) : k \in TypedKeys \cup PlainKeys} \cup {uuidv4(c) : c \in CompanyCall}

\* What exists at the start.
OneCompany == (acme :> <<"a">>)

NoUser == <<>>

OneUser == (u0 :> [companyId |-> acme, emails |-> {a1}])

\* Reviews are interchangeable.
Symmetry == Permutations(Review)

===============================================================================
