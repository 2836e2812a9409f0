--------------------------- MODULE MCReverseProxy ---------------------------
(***************************************************************************)
(* Instances of ReverseProxy for TLC.  A run keeps the parts of the system *)
(* it is about by giving the others nothing to work on: no connections, no *)
(* instances, no login states.                                             *)
(***************************************************************************)
EXTENDS ReverseProxy, Sequences, TLC

Symmetry == Permutations(Requests) \cup Permutations(Conns)

Table(max, rows) == [i \in 1 .. max |-> IF i <= Len(rows) THEN rows[i] ELSE None]

Alice == [email |-> "alice", role |-> "admin", active |-> TRUE, subject |-> "a"]
Bob == [email |-> "bob", role |-> "user", active |-> TRUE, subject |-> "b"]
SessionOf(u) == [user |-> u, valid |-> TRUE]
KeyOf(u, f) == [owner |-> u, fingerprint |-> f, active |-> TRUE]
Gate == [slug |-> "gate", enabled |-> TRUE, method |-> "none",
         password |-> None, key |-> None, passphrase |-> None]

Database(us, ks, is, ss, asg) ==
  [users |-> Table(MaxUsers, us), keys |-> Table(MaxKeys, ks),
   instances |-> Table(MaxInstances, is), sessions |-> Table(MaxSessions, ss),
   assigned |-> asg,
   lastId |-> [users |-> Len(us), keys |-> Len(ks),
               instances |-> Len(is), sessions |-> Len(ss)]]

(* A generated key, and pasted ones: one without a passphrase, and one     *)
(* that no passphrase opens.                                               *)
GeneratedPairs == {<<"sealed", "phrase">>}
PlainPair == <<"plain", None>>
PastedPairs == {PlainPair, <<"broken", "typo">>}
ReadablePairs == GeneratedPairs \cup {PlainPair}

(* A fresh installation.                                                   *)
Fresh == Database(<<>>, <<>>, <<>>, <<>>, {})

(* One administrator, signed in, and an instance.                          *)
Solo == Database(<<Alice>>, <<>>, <<Gate>>, <<SessionOf(1)>>, {})

(* An administrator and a user, both signed in; the user has a key.        *)
Team == Database(<<Alice, Bob>>, <<KeyOf(2, "f1")>>, <<>>,
                 <<SessionOf(1), SessionOf(2)>>, {})

(* The same with an instance assigned to the user; nobody but the          *)
(* administrator is signed in.                                             *)
Gated == Database(<<Alice, Bob>>, <<KeyOf(2, "f1")>>, <<Gate>>,
                  <<SessionOf(1)>>, {<<1, 2>>})
=============================================================================
