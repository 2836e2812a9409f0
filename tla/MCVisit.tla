------------------------------ MODULE MCVisit ------------------------------
(***************************************************************************)
(* An instance of Visit for TLC.  Rows are alike.  The deployments are    *)
(* production servers, behind a proxy or not, with either setting of       *)
(* SESSION_SECURE, either form of export and FRONTEND_BASE_URL left at its *)
(* default; one without ENV; and developers', of which the last is what    *)
(* the two example environments describe.                                  *)
(***************************************************************************)
EXTENDS Visit, TLC

CONSTANTS front, local, loopback

Symmetry == Permutations(Rows)

Local(host, port) == [scheme |-> "http", host |-> host, port |-> port]
Public == [scheme |-> "https", host |-> front, port |-> 443]

Server(production, at, base) ==
  [production |-> production, secure |-> TRUE, base |-> base, api |-> Nothing,
   registered |-> {at}, trailingSlash |-> TRUE]

Behind == Server(TRUE, Public, Local(local, 3000))
Alone == Server(TRUE, Local(local, 8080), Local(local, 3000))

Developer(api) ==
  [production |-> FALSE, secure |-> FALSE, base |-> Local(local, 3000),
   api |-> Local(api, 8080), registered |-> {Local(local, 3000)}, trailingSlash |-> TRUE]

Documented == {Developer(loopback)}

Sites ==
  {[d EXCEPT !.secure = s] : d \in {Behind, Alone}, s \in BOOLEAN}
    \cup {[Behind EXCEPT !.trailingSlash = FALSE], Server(FALSE, Public, Public)}
    \cup {Developer(local)} \cup Documented
=============================================================================
