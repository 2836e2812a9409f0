--------------------------- MODULE AccessControl ---------------------------
(***************************************************************************)
(* What the proxy promises, without tables, requests or handlers: a key    *)
(* identifies a person, who is then let through to a gate that is open and *)
(* granted to that person, and to no other.  What administrators change    *)
(* does not reach sessions that are already through.                       *)
(***************************************************************************)
CONSTANTS Conns, People, Gates

VARIABLES
  people, gates,  \* those that exist
  open,           \* the gates that let anyone through
  granted,        \* who is granted which gate: pairs of a gate and a person
  trusted,        \* the people that some key identifies
  session         \* <<>>, <<person>>, then <<person, gate>>

rules == <<people, gates, open, granted, trusted>>
vars == <<rules, session>>

(* No grant is left behind by, or lies ready for, a person or a gate that  *)
(* does not exist.                                                         *)
Sound == open \subseteq gates /\ trusted \subseteq people /\ granted \subseteq gates \X people

Init ==
  /\ people \subseteq People /\ gates \subseteq Gates /\ Sound
  /\ session = [c \in Conns |-> <<>>]

(* Whoever is granted something new has existed before.                    *)
Administer ==
  /\ UNCHANGED session
  /\ people' \subseteq People /\ gates' \subseteq Gates /\ Sound'
  /\ \A grant \in granted' \ granted : grant[2] \in people

Identify(c) ==
  /\ session[c] = <<>>
  /\ \E p \in trusted : session' = [session EXCEPT ![c] = <<p>>]
  /\ UNCHANGED rules

Admit(c) ==
  /\ \E p \in people, g \in open :
       /\ session[c] = <<p>> /\ <<g, p>> \in granted
       /\ session' = [session EXCEPT ![c] = <<p, g>>]
  /\ UNCHANGED rules

(* Sessions end one by one, or all at once with the process.               *)
Leave ==
  /\ \E left \in SUBSET Conns :
       session' = [c \in Conns |-> IF c \in left THEN <<>> ELSE session[c]]
  /\ UNCHANGED rules

Next == Administer \/ Leave \/ \E c \in Conns : Identify(c) \/ Admit(c)

Spec == Init /\ [][Next]_vars
=============================================================================
