-------------------------- MODULE KnownHostsProofs --------------------------
(***************************************************************************)
(* For any number of connections, addresses and keys: a key is on record   *)
(* before an upstream is accepted with it.  The file only ever grows, so   *)
(* what a callback has read of it, perhaps long ago, is still there.       *)
(***************************************************************************)
EXTENDS KnownHosts, TLAPS

Lines(sequence) == {sequence[n] : n \in 1 .. Len(sequence)}

(* What a connection relies on: past ensureFile there is a file, past the  *)
(* fetch there is a key, and the lines its callback goes by are still in   *)
(* the file.                                                               *)
Backed(state, lines) ==
  /\ state.pc \in PCs \ {"dial", "connected", "refused"} => policy # "unverified"
  /\ state.pc \in {"load", "append"} => lines # None
  /\ state.pc \in {"statAgain", "createAgain", "append"} => state.key \in HostKeys
  /\ policy # "unverified" /\ state.pc \in PCs /\ state.callback # <<>> =>
       lines # None /\ Lines(state.callback) \subseteq Lines(lines)
  /\ policy # "unverified" /\ state.pc = "connected" =>
       lines # None /\ state.key \in Recorded(lines, state.host)

OnRecord == TypeOK /\ \A c \in Conns : Backed(dial[c], file)

(* How a connection leaves the file.                                       *)
Growing ==
  \/ file' = file
  \/ file = None /\ file' = <<>>
  \/ file # None /\ \E line \in Line : file' = Append(file, line)

Becomes(c, state) ==
  /\ state \in Dialling \cup {Closed} /\ Backed(state, file')
  /\ dial' = [dial EXCEPT ![c] = state]

----------------------------------------------------------------------------
LEMMA NormalizedIsRecorded ==
  ASSUME NEW host \in Hosts, NEW key \in HostKeys
  PROVE  [host |-> Normalize(host), key |-> key] \in Line
<1>1. Normalize(host) \in Hosts \cup {[h EXCEPT !.port = None] : h \in Hosts}
  BY DEF Normalize
<1>2. QED
  BY <1>1 DEF Line

(* What has been recorded stays recorded while lines are added.            *)
LEMMA RecordsGrow ==
  ASSUME NEW old \in Seq(Line), NEW new \in Seq(Line), NEW host,
         Lines(old) \subseteq Lines(new)
  PROVE  Recorded(old, host) \subseteq Recorded(new, host)
<1>1. SUFFICES ASSUME NEW n \in 1 .. Len(old), old[n].host = Normalize(host)
               PROVE  old[n].key \in Recorded(new, host)
  BY DEF Recorded
<1>2. PICK m \in 1 .. Len(new) : new[m] = old[n]
  BY DEF Lines
<1>3. QED
  BY <1>1, <1>2 DEF Recorded

LEMMA AppendedLines ==
  ASSUME NEW lines \in Seq(Line), NEW line \in Line
  PROVE  /\ Append(lines, line) \in Seq(Line)
         /\ Lines(lines) \subseteq Lines(Append(lines, line))
  BY DEF Lines

LEMMA FileGrows ==
  ASSUME TypeOK, Growing
  PROVE  /\ file' = None \/ file' \in Seq(Line)
         /\ file # None => file' \in Seq(Line) /\ Lines(file) \subseteq Lines(file')
<1>1. CASE file' = file
  BY <1>1 DEF TypeOK
<1>2. CASE file = None /\ file' = <<>>
  <2>1. <<>> \in Seq(Line)
    OBVIOUS
  <2>2. QED
    BY <1>2, <2>1
<1>3. CASE file # None /\ \E line \in Line : file' = Append(file, line)
  <2>1. file \in Seq(Line)
    BY <1>3 DEF TypeOK
  <2>2. PICK line \in Line : file' = Append(file, line)
    BY <1>3
  <2>3. QED
    BY <2>1, <2>2, AppendedLines
<1>4. QED
  BY <1>1, <1>2, <1>3 DEF Growing

(* Other connections do not notice that the file grows.                    *)
LEMMA StaysBacked ==
  ASSUME TypeOK, Growing, policy' = policy, NEW state \in Dialling \cup {Closed},
         Backed(state, file)
  PROVE  Backed(state, file')
<1>1. file # None => file' # None /\ Lines(file) \subseteq Lines(file')
  BY FileGrows, NoneIsNothingElse
<1>2. file # None => Recorded(file, state.host) \subseteq Recorded(file', state.host)
  BY FileGrows, RecordsGrow DEF TypeOK
<1>3. QED
  BY <1>1, <1>2 DEF Backed

LEMMA InitOnRecord == Init => OnRecord
<1>1. SUFFICES ASSUME Init PROVE OnRecord
  OBVIOUS
<1>2. <<>> \in Seq(Line)
  OBVIOUS
<1>3. TypeOK
  BY <1>1, <1>2, CuratedIsFile DEF Init, TypeOK
<1>4. ASSUME NEW c \in Conns PROVE Backed(dial[c], file)
  BY <1>1 DEF Init, Closed, Backed, PCs
<1>5. QED
  BY <1>3, <1>4 DEF OnRecord

----------------------------------------------------------------------------
(* Each step changes one connection, and leaves it backed by the file.     *)
LEMMA StartDialKeeps ==
  ASSUME OnRecord, NEW c \in Conns, NEW host \in Hosts, StartDial(c, host)
  PROVE  Growing /\ \E state : Becomes(c, state)
<1> DEFINE state == [pc |-> IF policy = "unverified" THEN "dial" ELSE "stat", host |-> host,
                     key |-> None, retried |-> FALSE, callback |-> <<>>]
<1>1. state \in Dialling
  BY DEF Dialling, PCs
<1>2. Backed(state, file')
  BY DEF Backed
<1>3. QED
  BY <1>1, <1>2 DEF StartDial, Growing, Becomes

LEMMA StepKeeps ==
  ASSUME OnRecord, NEW c \in Conns, NEW pc \in PCs,
         dial[c].pc \in PCs, Step(c, pc), Growing, policy' = policy,
         pc \in {"stat", "create", "load", "statAgain", "createAgain", "append"},
         policy # "unverified", pc \in {"load", "append"} => file' # None,
         pc \in {"statAgain", "createAgain", "append"} =>
           dial[c].pc \in {"statAgain", "createAgain", "append"}
  PROVE  \E state : Becomes(c, state)
<1> DEFINE state == [dial[c] EXCEPT !.pc = pc]
<1>1. dial[c] \in Dialling
  BY DEF OnRecord, TypeOK, Closed, PCs
<1>2. state \in Dialling
  BY <1>1 DEF Dialling
<1>3. Backed(dial[c], file')
  BY <1>1, StaysBacked DEF OnRecord
<1>4. /\ state.pc = pc /\ state.key = dial[c].key
      /\ state.callback = dial[c].callback
  BY <1>1 DEF Dialling
<1>5. Backed(state, file')
  BY <1>3, <1>4 DEF Backed
<1>6. QED
  BY <1>2, <1>5 DEF Becomes, Step

LEMMA StatKeeps ==
  ASSUME OnRecord, policy' = policy, NEW c \in Conns, Stat(c)
  PROVE  Growing /\ \E state : Becomes(c, state)
<1>1. Growing
  BY DEF Stat, Growing
<1>2. dial[c].pc \in PCs /\ policy # "unverified"
  BY DEF Stat, OnRecord, Backed, PCs
<1>3. CASE dial[c].pc = "stat"
  <2>1. Step(c, IF file = None THEN "create" ELSE "load") /\ file' = file
    BY <1>3 DEF Stat
  <2>2. CASE file = None
    BY <1>1, <1>2, <2>1, <2>2, StepKeeps DEF PCs
  <2>3. CASE file # None
    BY <1>1, <1>2, <2>1, <2>3, StepKeeps DEF PCs
  <2>4. QED
    BY <1>1, <2>2, <2>3
<1>4. CASE dial[c].pc = "statAgain"
  <2>1. Step(c, IF file = None THEN "createAgain" ELSE "append") /\ file' = file
    BY <1>4 DEF Stat
  <2>2. CASE file = None
    BY <1>1, <1>2, <1>4, <2>1, <2>2, StepKeeps DEF PCs
  <2>3. CASE file # None
    BY <1>1, <1>2, <1>4, <2>1, <2>3, StepKeeps DEF PCs
  <2>4. QED
    BY <1>1, <2>2, <2>3
<1>5. QED
  BY <1>3, <1>4 DEF Stat

LEMMA CreateFileKeeps ==
  ASSUME OnRecord, policy' = policy, NEW c \in Conns, CreateFile(c)
  PROVE  Growing /\ \E state : Becomes(c, state)
<1>1. Growing /\ file' # None
  <2>1. <<>> \in Seq(Line)
    OBVIOUS
  <2>2. QED
    BY <2>1, NoneIsNothingElse DEF CreateFile, Growing
<1>2. dial[c].pc \in PCs /\ policy # "unverified"
  BY DEF CreateFile, OnRecord, Backed, PCs
<1>3. CASE dial[c].pc = "create"
  <2>1. Step(c, "load")
    BY <1>3 DEF CreateFile
  <2>2. QED
    BY <1>1, <1>2, <2>1, StepKeeps DEF PCs
<1>4. CASE dial[c].pc = "createAgain"
  <2>1. Step(c, "append")
    BY <1>4 DEF CreateFile
  <2>2. QED
    BY <1>1, <1>2, <1>4, <2>1, StepKeeps DEF PCs
<1>5. QED
  BY <1>3, <1>4 DEF CreateFile

LEMMA LoadKeeps ==
  ASSUME OnRecord, NEW c \in Conns, LoadKnownHosts(c)
  PROVE  Growing /\ \E state : Becomes(c, state)
<1> DEFINE state == [dial[c] EXCEPT !.pc = "dial", !.callback = file]
<1>1. dial[c] \in Dialling /\ dial[c].pc = "load"
  BY DEF LoadKnownHosts, OnRecord, TypeOK, Closed
<1>2. file \in Seq(Line) /\ file' = file
  BY <1>1 DEF LoadKnownHosts, OnRecord, TypeOK, Backed
<1>3. state \in Dialling
  BY <1>1, <1>2 DEF Dialling, PCs
<1>4. state.pc = "dial" /\ state.callback = file
  BY <1>1 DEF Dialling
<1>5. Backed(state, file')
  BY <1>2, <1>4, NoneIsNothingElse DEF Backed
<1>6. dial' = [dial EXCEPT ![c] = state]
  BY DEF LoadKnownHosts
<1>7. QED
  BY <1>2, <1>3, <1>5, <1>6 DEF Growing, Becomes

(* The key is accepted by lines that are still in the file.                *)
LEMMA DialKeeps ==
  ASSUME OnRecord, NEW c \in Conns, Dial(c)
  PROVE  Growing /\ \E state : Becomes(c, state)
<1>1. dial[c] \in Dialling /\ dial[c].pc = "dial" /\ file' = file
  BY DEF Dial, OnRecord, TypeOK, Closed
<1>2. PICK key \in Presents[dial[c].host] :
        \E verdict \in Verdicts(dial[c].callback, dial[c].host, key) :
          dial' = [dial EXCEPT
            ![c].key = key,
            ![c].pc = IF verdict = "accepted" THEN "connected"
                      ELSE IF verdict = "unknown" /\ policy = "acceptNew" /\ ~dial[c].retried THEN "fetch"
                      ELSE "refused"]
  BY DEF Dial
<1>3. PICK verdict \in Verdicts(dial[c].callback, dial[c].host, key) :
        dial' = [dial EXCEPT
          ![c].key = key,
          ![c].pc = IF verdict = "accepted" THEN "connected"
                    ELSE IF verdict = "unknown" /\ policy = "acceptNew" /\ ~dial[c].retried THEN "fetch"
                    ELSE "refused"]
  BY <1>2
<1> DEFINE pc == IF verdict = "accepted" THEN "connected"
                 ELSE IF verdict = "unknown" /\ policy = "acceptNew" /\ ~dial[c].retried THEN "fetch"
                 ELSE "refused"
           state == [dial[c] EXCEPT !.key = key, !.pc = pc]
<1>4. key \in HostKeys
  BY <1>1, HostKeysArePresented DEF Dialling
<1>5. pc \in {"connected", "fetch", "refused"} /\ (pc = "fetch" => policy # "unverified")
  OBVIOUS
<1>6. state \in Dialling
  BY <1>1, <1>4, <1>5 DEF Dialling, PCs
<1>7. /\ state.pc = pc /\ state.key = key /\ state.host = dial[c].host
      /\ state.callback = dial[c].callback
  BY <1>1 DEF Dialling
<1>8. ASSUME policy # "unverified", pc = "connected"
      PROVE  file # None /\ key \in Recorded(file, dial[c].host)
  <2>1. key \in Recorded(dial[c].callback, dial[c].host)
    BY <1>8 DEF Verdicts
  <2>2. dial[c].callback # <<>>
    BY <2>1 DEF Recorded
  <2>3. file # None /\ Lines(dial[c].callback) \subseteq Lines(file)
    BY <1>1, <1>8, <2>2 DEF OnRecord, Backed, PCs
  <2>4. dial[c].callback \in Seq(Line) /\ file \in Seq(Line)
    BY <1>1, <2>3 DEF Dialling, OnRecord, TypeOK
  <2>5. QED
    BY <2>1, <2>3, <2>4, RecordsGrow
<1>9. Backed(dial[c], file) /\ dial[c].pc \in PCs
  BY <1>1 DEF OnRecord, PCs
<1>10. Backed(state, file')
  BY <1>1, <1>5, <1>7, <1>8, <1>9 DEF Backed
<1>11. dial' = [dial EXCEPT ![c] = state]
  BY <1>3
<1>12. QED
  BY <1>1, <1>6, <1>10, <1>11 DEF Growing, Becomes

LEMMA FetchKeeps ==
  ASSUME OnRecord, NEW c \in Conns, FetchHostKey(c)
  PROVE  Growing /\ \E state : Becomes(c, state)
<1>1. dial[c] \in Dialling /\ dial[c].pc = "fetch" /\ file' = file
  BY DEF FetchHostKey, OnRecord, TypeOK, Closed
<1>2. PICK key \in Presents[dial[c].host] :
        dial' = [dial EXCEPT ![c].pc = "statAgain", ![c].key = key]
  BY DEF FetchHostKey
<1> DEFINE state == [dial[c] EXCEPT !.pc = "statAgain", !.key = key]
<1>3. key \in HostKeys
  BY <1>1, HostKeysArePresented DEF Dialling
<1>4. state \in Dialling
  BY <1>1, <1>3 DEF Dialling, PCs
<1>5. state.pc = "statAgain" /\ state.key = key /\ state.callback = dial[c].callback
  BY <1>1 DEF Dialling
<1>6. Backed(dial[c], file) /\ dial[c].pc \in PCs
  BY <1>1 DEF OnRecord, PCs
<1>7. Backed(state, file')
  BY <1>1, <1>3, <1>5, <1>6 DEF Backed, PCs
<1>8. dial' = [dial EXCEPT ![c] = state]
  BY <1>2
<1>9. QED
  BY <1>1, <1>4, <1>7, <1>8 DEF Growing, Becomes

LEMMA AppendKeeps ==
  ASSUME OnRecord, policy' = policy, NEW c \in Conns, AppendHostKey(c)
  PROVE  Growing /\ \E state : Becomes(c, state)
<1> DEFINE line == [host |-> Normalize(dial[c].host), key |-> dial[c].key]
           state == [dial[c] EXCEPT !.pc = "load", !.retried = TRUE]
<1>1. /\ dial[c] \in Dialling /\ dial[c].pc = "append" /\ Backed(dial[c], file)
      /\ file' = Append(file, line)
  BY DEF AppendHostKey, OnRecord, TypeOK, Closed
<1>2. line \in Line
  BY <1>1, NormalizedIsRecorded DEF Dialling, Backed
<1>3. file \in Seq(Line) /\ file' \in Seq(Line)
  BY <1>1, <1>2, AppendedLines DEF OnRecord, TypeOK, Backed
<1>4. Growing
  BY <1>1, <1>2, <1>3, NoneIsNothingElse DEF Growing
<1>5. Backed(dial[c], file')
  BY <1>1, <1>4, StaysBacked DEF OnRecord
<1>6. state \in Dialling
  BY <1>1 DEF Dialling, PCs
<1>7. state.pc = "load" /\ state.callback = dial[c].callback
  BY <1>1 DEF Dialling
<1>8. Backed(state, file')
  BY <1>1, <1>3, <1>5, <1>7, NoneIsNothingElse DEF Backed, PCs
<1>9. dial' = [dial EXCEPT ![c] = state]
  BY DEF AppendHostKey
<1>10. QED
  BY <1>4, <1>6, <1>8, <1>9 DEF Becomes

LEMMA CloseDialKeeps ==
  ASSUME OnRecord, NEW c \in Conns, CloseDial(c)
  PROVE  Growing /\ \E state : Becomes(c, state)
<1>1. Backed(Closed, file')
  BY DEF Backed, Closed, PCs
<1>2. QED
  BY <1>1 DEF CloseDial, Growing, Becomes

LEMMA EveryStepKeeps ==
  ASSUME OnRecord, Next
  PROVE  policy' = policy /\ Growing /\ \E c \in Conns : \E state : Becomes(c, state)
<1>1. policy' = policy
  BY DEF Next
<1>2. PICK c \in Conns :
        \/ \E host \in Hosts : StartDial(c, host)
        \/ Stat(c) \/ CreateFile(c) \/ LoadKnownHosts(c) \/ Dial(c)
        \/ FetchHostKey(c) \/ AppendHostKey(c) \/ CloseDial(c)
  BY DEF Next
<1>3. Growing /\ \E state : Becomes(c, state)
  BY <1>1, <1>2, StartDialKeeps, StatKeeps, CreateFileKeeps, LoadKeeps, DialKeeps,
     FetchKeeps, AppendKeeps, CloseDialKeeps
<1>4. QED
  BY <1>1, <1>3

LEMMA StepOnRecord == OnRecord /\ [Next]_vars => OnRecord'
<1>1. CASE OnRecord /\ Next
  <2>1. policy' = policy /\ Growing
    BY <1>1, EveryStepKeeps
  <2>2. PICK c \in Conns : \E state : Becomes(c, state)
    BY <1>1, EveryStepKeeps
  <2>3. PICK state : Becomes(c, state)
    BY <2>2
  <2>4. TypeOK'
    BY <1>1, <2>1, <2>3, FileGrows DEF OnRecord, TypeOK, Becomes
  <2>5. ASSUME NEW d \in Conns PROVE Backed(dial[d], file)'
    <3>1. CASE d = c
      BY <1>1, <2>1, <2>3, <3>1 DEF OnRecord, TypeOK, Becomes, Backed
    <3>2. CASE d # c
      <4>1. dial[d]' = dial[d] /\ dial[d] \in Dialling \cup {Closed}
        BY <1>1, <2>3, <3>2 DEF OnRecord, TypeOK, Becomes
      <4>2. Backed(dial[d], file')
        BY <1>1, <2>1, <4>1, StaysBacked DEF OnRecord
      <4>3. QED
        BY <2>1, <4>1, <4>2 DEF Backed
    <3>3. QED
      BY <3>1, <3>2
  <2>6. QED
    BY <2>4, <2>5 DEF OnRecord
<1>2. CASE OnRecord /\ UNCHANGED vars
  BY <1>2 DEF vars, OnRecord, TypeOK, Backed
<1>3. QED
  BY <1>1, <1>2

LEMMA AlwaysOnRecord == Spec => []OnRecord
  BY InitOnRecord, StepOnRecord, PTL DEF Spec

----------------------------------------------------------------------------
(* Whatever connections do with the file at once, it stays a file of       *)
(* lines, and each dial keeps to its steps.                                *)
THEOREM FileTypeCorrect == Spec => []TypeOK
<1>1. OnRecord => TypeOK
  BY DEF OnRecord
<1>2. QED
  BY <1>1, AlwaysOnRecord, PTL

(* fetchAndAppendHostKey writes a key down before an upstream is accepted  *)
(* with it, and nothing that other connections do loses it again.          *)
THEOREM AcceptedKeysStayRecorded == Spec => []AcceptedKeysAreRecorded
<1>1. OnRecord => AcceptedKeysAreRecorded
  BY DEF OnRecord, Backed, AcceptedKeysAreRecorded
<1>2. QED
  BY <1>1, AlwaysOnRecord, PTL

----------------------------------------------------------------------------
(* Lines are the operator's, or were fetched from the host they are about. *)
Honest(lines) ==
  \A h \in Hosts : Recorded(lines, h) \subseteq Presents[h] \cup Recorded(Curated, h)

(* A connection reads honest lines and fetches an honest key; one that     *)
(* tries again finds the host on record.                                   *)
Sincere(state, lines) ==
  /\ Honest(state.callback)
  /\ state.pc \in {"statAgain", "createAgain", "append"} => state.key \in Presents[state.host]
  /\ state.retried =>
       /\ state.pc \in {"load", "dial", "connected", "refused"}
       /\ state.pc = "load" => lines # None /\ Recorded(lines, state.host) # {}
       /\ state.pc = "dial" => Recorded(state.callback, state.host) # {}
  /\ state.pc = "refused" /\ policy = "acceptNew" =>
       \/ Presents[state.host] # {state.key}
       \/ ~(Recorded(Curated, state.host) \subseteq {state.key})

HonestInv ==
  /\ file # None => Honest(file)
  /\ \A c \in Conns : dial[c] # Closed => Sincere(dial[c], file)

(* Two addresses do not share a line.                                      *)
LEMMA NormalizeIsInjective ==
  ASSUME NEW g \in Hosts, NEW h \in Hosts, Normalize(g) = Normalize(h)
  PROVE  g = h
<1>1. /\ g = [host |-> g.host, port |-> g.port] /\ g.port # None
      /\ h = [host |-> h.host, port |-> h.port] /\ h.port # None
  BY AddressesHavePorts
<1>2. \A a : a = [host |-> a.host, port |-> a.port] /\ a.port # None =>
        Normalize(a) = [host |-> a.host, port |-> IF a.port = 22 THEN None ELSE a.port]
  BY DEF Normalize
<1>3. /\ g.host = h.host
      /\ (IF g.port = 22 THEN None ELSE g.port) = (IF h.port = 22 THEN None ELSE h.port)
  BY <1>1, <1>2
<1>. QED BY <1>1, <1>3

LEMMA NothingRecorded == Honest(<<>>)
  BY DEF Honest, Recorded

(* A line adds its key to what is on record of its host, and to no other's. *)
LEMMA AppendRecords ==
  ASSUME NEW lines \in Seq(Line), NEW h \in Hosts, NEW key \in HostKeys
  PROVE  LET new == Append(lines, [host |-> Normalize(h), key |-> key]) IN
           /\ key \in Recorded(new, h)
           /\ \A g \in Hosts : Recorded(new, g) \subseteq
                Recorded(lines, g) \cup (IF g = h THEN {key} ELSE {})
<1>. DEFINE line == [host |-> Normalize(h), key |-> key]
            new == Append(lines, line)
<1>1. line \in Line
  BY NormalizedIsRecorded
<1>2. /\ Len(lines) \in Nat /\ Len(new) = Len(lines) + 1
      /\ new[Len(lines) + 1] = line
      /\ \A n \in 1 .. Len(lines) : new[n] = lines[n]
  BY <1>1
<1>3. key \in Recorded(new, h)
  BY <1>2 DEF Recorded
<1>4. ASSUME NEW g \in Hosts, NEW n \in 1 .. Len(new), new[n].host = Normalize(g)
      PROVE  new[n].key \in Recorded(lines, g) \cup (IF g = h THEN {key} ELSE {})
  <2>1. CASE n \in 1 .. Len(lines)
    BY <1>2, <1>4, <2>1 DEF Recorded
  <2>2. CASE n = Len(lines) + 1
    BY <1>2, <1>4, <2>2, NormalizeIsInjective
  <2>. QED BY <1>2, <2>1, <2>2
<1>5. \A g \in Hosts : Recorded(new, g) \subseteq Recorded(lines, g) \cup (IF g = h THEN {key} ELSE {})
  BY <1>4 DEF Recorded
<1>. QED BY <1>3, <1>5

----------------------------------------------------------------------------
(* The other connections stay sincere while the file grows.                *)
LEMMA StaysSincere ==
  ASSUME TypeOK, Growing, policy' = policy, NEW state \in Dialling, Sincere(state, file)
  PROVE  Sincere(state, file')
<1>1. file # None => file' # None /\ Recorded(file, state.host) \subseteq Recorded(file', state.host)
  BY FileGrows, RecordsGrow, NoneIsNothingElse DEF TypeOK
<1>. QED BY <1>1 DEF Sincere

(* Each step, for the connection that takes it.                            *)
Sincerely(c) ==
  /\ file' # None => Honest(file')
  /\ \E state : /\ state \in Dialling => Sincere(state, file')
                /\ dial' = [dial EXCEPT ![c] = state]

LEMMA ActiveDial ==
  ASSUME OnRecord, HonestInv, NEW c \in Conns, dial[c].pc \in PCs
  PROVE  dial[c] \in Dialling /\ Sincere(dial[c], file)
  BY DEF OnRecord, TypeOK, HonestInv, Closed, PCs

LEMMA StartSincerely ==
  ASSUME OnRecord, HonestInv, NEW c \in Conns, NEW host \in Hosts, StartDial(c, host)
  PROVE  Sincerely(c)
<1>. DEFINE state == [pc |-> IF policy = "unverified" THEN "dial" ELSE "stat", host |-> host,
                      key |-> None, retried |-> FALSE, callback |-> <<>>]
<1>1. Sincere(state, file')
  BY NothingRecorded DEF Sincere
<1>. QED BY <1>1 DEF StartDial, Sincerely, HonestInv

LEMMA StatSincerely ==
  ASSUME OnRecord, HonestInv, NEW c \in Conns, Stat(c)
  PROVE  Sincerely(c)
<1>1. dial[c] \in Dialling /\ Sincere(dial[c], file) /\ file' = file
  BY ActiveDial DEF Stat, PCs
<1>2. PICK pc : /\ Step(c, pc)
                /\ \/ dial[c].pc = "stat" /\ pc \in {"create", "load"}
                   \/ dial[c].pc = "statAgain" /\ pc \in {"createAgain", "append"}
  BY DEF Stat
<1>. DEFINE state == [dial[c] EXCEPT !.pc = pc]
<1>3. /\ state.pc = pc /\ state.key = dial[c].key /\ state.host = dial[c].host
      /\ state.callback = dial[c].callback /\ state.retried = dial[c].retried
  BY <1>1 DEF Dialling
<1>4. Sincere(state, file')
  BY <1>1, <1>2, <1>3 DEF Sincere
<1>. QED BY <1>1, <1>2, <1>4 DEF Step, Sincerely, HonestInv

LEMMA CreateSincerely ==
  ASSUME OnRecord, HonestInv, NEW c \in Conns, CreateFile(c)
  PROVE  Sincerely(c)
<1>1. dial[c] \in Dialling /\ Sincere(dial[c], file)
  BY ActiveDial DEF CreateFile, PCs
<1>2. PICK pc : /\ Step(c, pc)
                /\ \/ dial[c].pc = "create" /\ pc = "load"
                   \/ dial[c].pc = "createAgain" /\ pc = "append"
  BY DEF CreateFile
<1>. DEFINE state == [dial[c] EXCEPT !.pc = pc]
<1>3. /\ state.pc = pc /\ state.key = dial[c].key /\ state.host = dial[c].host
      /\ state.callback = dial[c].callback /\ state.retried = dial[c].retried
  BY <1>1 DEF Dialling
<1>4. Sincere(state, file')
  BY <1>1, <1>2, <1>3 DEF Sincere
<1>5. file' # None => Honest(file')
  BY NothingRecorded DEF CreateFile, HonestInv
<1>. QED BY <1>2, <1>4, <1>5 DEF Step, Sincerely

LEMMA LoadSincerely ==
  ASSUME OnRecord, HonestInv, NEW c \in Conns, LoadKnownHosts(c)
  PROVE  Sincerely(c)
<1>1. dial[c] \in Dialling /\ Sincere(dial[c], file) /\ file' = file
  BY ActiveDial DEF LoadKnownHosts, PCs
<1>2. file # None
  BY DEF LoadKnownHosts, OnRecord, Backed
<1>. DEFINE state == [dial[c] EXCEPT !.pc = "dial", !.callback = file]
<1>3. /\ state.pc = "dial" /\ state.key = dial[c].key /\ state.host = dial[c].host
      /\ state.callback = file /\ state.retried = dial[c].retried
  BY <1>1 DEF Dialling
<1>4. Sincere(state, file')
  BY <1>1, <1>2, <1>3 DEF LoadKnownHosts, Sincere, HonestInv
<1>5. dial' = [dial EXCEPT ![c] = state]
  BY DEF LoadKnownHosts
<1>. QED BY <1>1, <1>4, <1>5 DEF Sincerely, HonestInv

(* A host that tries again is on record; if it has but one key, and no     *)
(* other is the operator's, that key is what is on record.                 *)
LEMMA DialSincerely ==
  ASSUME OnRecord, HonestInv, NEW c \in Conns, Dial(c)
  PROVE  Sincerely(c)
<1>1. dial[c] \in Dialling /\ Sincere(dial[c], file) /\ dial[c].pc = "dial" /\ file' = file
  BY ActiveDial DEF Dial, PCs
<1>. DEFINE lines == dial[c].callback
            h == dial[c].host
<1>2. PICK key \in Presents[h] : \E verdict \in Verdicts(lines, h, key) :
        dial' = [dial EXCEPT
          ![c].key = key,
          ![c].pc = IF verdict = "accepted" THEN "connected"
                    ELSE IF verdict = "unknown" /\ policy = "acceptNew" /\ ~dial[c].retried THEN "fetch"
                    ELSE "refused"]
  BY DEF Dial
<1>3. PICK verdict \in Verdicts(lines, h, key) :
        dial' = [dial EXCEPT
          ![c].key = key,
          ![c].pc = IF verdict = "accepted" THEN "connected"
                    ELSE IF verdict = "unknown" /\ policy = "acceptNew" /\ ~dial[c].retried THEN "fetch"
                    ELSE "refused"]
  BY <1>2
<1>. DEFINE pc == IF verdict = "accepted" THEN "connected"
                  ELSE IF verdict = "unknown" /\ policy = "acceptNew" /\ ~dial[c].retried THEN "fetch"
                  ELSE "refused"
            state == [dial[c] EXCEPT !.key = key, !.pc = pc]
<1>4. /\ state.pc = pc /\ state.key = key /\ state.host = h
      /\ state.callback = lines /\ state.retried = dial[c].retried
  BY <1>1 DEF Dialling
<1>5. ASSUME pc = "refused", policy = "acceptNew", Presents[h] = {key}, Recorded(Curated, h) \subseteq {key}
      PROVE  FALSE
  <2>1. Recorded(lines, h) \subseteq {key}
    BY <1>1, <1>5 DEF Sincere, Honest, Dialling
  <2>2. CASE Recorded(lines, h) = {}
    BY <1>1, <1>5, <2>2 DEF Verdicts, Sincere
  <2>3. CASE Recorded(lines, h) = {key}
    BY <1>5, <2>3 DEF Verdicts
  <2>. QED BY <2>1, <2>2, <2>3
<1>6. dial[c].retried => pc # "fetch"
  OBVIOUS
<1>7. pc \in {"connected", "fetch", "refused"}
  OBVIOUS
<1>8. Sincere(state, file')
  <2>. HIDE DEF pc, state
  <2>. QED BY <1>1, <1>4, <1>5, <1>6, <1>7 DEF Sincere
<1>9. dial' = [dial EXCEPT ![c] = state]
  BY <1>3
<1>. QED BY <1>1, <1>8, <1>9 DEF Sincerely, HonestInv

LEMMA FetchSincerely ==
  ASSUME OnRecord, HonestInv, NEW c \in Conns, FetchHostKey(c)
  PROVE  Sincerely(c)
<1>1. dial[c] \in Dialling /\ Sincere(dial[c], file) /\ dial[c].pc = "fetch" /\ file' = file
  BY ActiveDial DEF FetchHostKey, PCs
<1>2. PICK key \in Presents[dial[c].host] :
        dial' = [dial EXCEPT ![c].pc = "statAgain", ![c].key = key]
  BY DEF FetchHostKey
<1>. DEFINE state == [dial[c] EXCEPT !.pc = "statAgain", !.key = key]
<1>3. /\ state.pc = "statAgain" /\ state.key = key /\ state.host = dial[c].host
      /\ state.callback = dial[c].callback /\ state.retried = dial[c].retried
  BY <1>1 DEF Dialling
<1>4. Sincere(state, file')
  BY <1>1, <1>3 DEF Sincere
<1>5. dial' = [dial EXCEPT ![c] = state]
  BY <1>2
<1>. QED BY <1>1, <1>4, <1>5 DEF Sincerely, HonestInv

LEMMA AppendSincerely ==
  ASSUME OnRecord, HonestInv, NEW c \in Conns, AppendHostKey(c)
  PROVE  Sincerely(c)
<1>. DEFINE h == dial[c].host
            key == dial[c].key
            line == [host |-> Normalize(h), key |-> key]
            state == [dial[c] EXCEPT !.pc = "load", !.retried = TRUE]
<1>1. dial[c] \in Dialling /\ Sincere(dial[c], file) /\ dial[c].pc = "append"
  BY ActiveDial DEF AppendHostKey, PCs
<1>2. h \in Hosts /\ key \in HostKeys /\ key \in Presents[h] /\ file \in Seq(Line) /\ file # None
  BY <1>1 DEF Dialling, OnRecord, TypeOK, Backed, Sincere
<1>3. /\ file' = Append(file, line)
      /\ key \in Recorded(file', h)
      /\ \A g \in Hosts : Recorded(file', g) \subseteq Recorded(file, g) \cup (IF g = h THEN {key} ELSE {})
  BY <1>2, AppendRecords DEF AppendHostKey
<1>4. Honest(file')
  BY <1>2, <1>3 DEF HonestInv, Honest
<1>5. file' # None
  BY <1>2, <1>3, NormalizedIsRecorded, AppendedLines, NoneIsNothingElse
<1>6. /\ state.pc = "load" /\ state.key = key /\ state.host = h
      /\ state.callback = dial[c].callback
  BY <1>1 DEF Dialling
<1>7. Sincere(state, file')
  BY <1>1, <1>3, <1>5, <1>6 DEF Sincere
<1>8. dial' = [dial EXCEPT ![c] = state]
  BY DEF AppendHostKey
<1>. QED BY <1>4, <1>7, <1>8 DEF Sincerely

LEMMA CloseSincerely ==
  ASSUME HonestInv, NEW c \in Conns, CloseDial(c)
  PROVE  Sincerely(c)
<1>1. Closed \notin Dialling
  BY DEF Closed, Dialling, PCs
<1>. QED BY <1>1 DEF CloseDial, Sincerely, HonestInv

LEMMA HonestStep ==
  ASSUME OnRecord, HonestInv, [Next]_vars
  PROVE  HonestInv'
<1>1. CASE Next
  <2>1. PICK c \in Conns :
          \/ \E host \in Hosts : StartDial(c, host)
          \/ Stat(c) \/ CreateFile(c) \/ LoadKnownHosts(c) \/ Dial(c)
          \/ FetchHostKey(c) \/ AppendHostKey(c) \/ CloseDial(c)
    BY <1>1 DEF Next
  <2>2. policy' = policy /\ Growing /\ OnRecord'
    BY <1>1, EveryStepKeeps, StepOnRecord
  <2>3. Sincerely(c)
    BY <2>1, StartSincerely, StatSincerely, CreateSincerely, LoadSincerely, DialSincerely,
       FetchSincerely, AppendSincerely, CloseSincerely
  <2>4. ASSUME NEW d \in Conns, dial'[d] # Closed PROVE Sincere(dial[d], file)'
    <3>1. dial'[d] \in Dialling
      BY <2>2, <2>4 DEF OnRecord, TypeOK
    <3>2. CASE d = c
      <4>1. Sincere(dial'[d], file')
        BY <2>3, <3>1, <3>2 DEF Sincerely, OnRecord, TypeOK
      <4>. QED BY <2>2, <4>1 DEF Sincere
    <3>3. CASE d # c
      <4>1. dial'[d] = dial[d]
        BY <2>3, <3>3 DEF Sincerely, OnRecord, TypeOK
      <4>2. Sincere(dial[d], file')
        BY <2>2, <2>4, <3>1, <4>1, StaysSincere DEF OnRecord, HonestInv
      <4>. QED BY <2>2, <4>1, <4>2 DEF Sincere
    <3>. QED BY <3>2, <3>3
  <2>5. (file # None => Honest(file))'
    BY <2>3 DEF Sincerely, Honest
  <2>. QED BY <2>4, <2>5 DEF HonestInv, Closed
<1>2. CASE UNCHANGED vars
  BY <1>2 DEF vars, HonestInv, Sincere, Honest, Closed
<1>. QED BY <1>1, <1>2

(* However many connections find a host unknown at once, fetch its key and *)
(* append it, a host with one key is let in: what is on record of it is    *)
(* that key, and the second dial finds it.                                 *)
THEOREM HonestHostsAreNotRefused == Spec => []HonestHostsAreAccepted
<1>1. Init => HonestInv
  <2>. SUFFICES ASSUME Init PROVE HonestInv
    OBVIOUS
  <2>1. Honest(Curated)
    BY DEF Honest
  <2>. QED BY <2>1, NothingRecorded DEF Init, HonestInv
<1>2. OnRecord /\ HonestInv => HonestHostsAreAccepted
  BY DEF HonestInv, Sincere, HonestHostsAreAccepted, Closed
<1>. QED BY <1>1, <1>2, HonestStep, AlwaysOnRecord, PTL DEF Spec
=============================================================================
