------------------------------ MODULE MCHttpEdge ------------------------------
(* Instances of HttpEdge for TLC. *)
EXTENDS HttpEdge

User == <<"u">>
Pass == <<"p", ":">>

\* The right credentials, and wrong ones that differ in one place.
Credentials ==
  {<<"u", ":", "p", ":">>, <<"u", ":", "p">>, <<"u", "p">>, <<":", "u", ":", "p">>, <<>>}

Weights == {Null} \cup [blank : BOOLEAN, tenths : {3, 9, Null}]

Parts == [language : {"en", "ru", "fr"}, weight : Weights]

\* Every header of at most two parts, and of three without blanks.
Headers ==
  LET Plain == [language : {"ru", "uz", "fr"},
                weight   : {Null} \cup [blank : {FALSE}, tenths : {3, 9}]]
  IN  (UNION {[1..n -> Parts] : n \in 1..2}) \cup [1..3 -> Plain]

===============================================================================
