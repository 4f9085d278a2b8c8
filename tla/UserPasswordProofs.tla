------------------------- MODULE UserPasswordProofs -------------------------
(***************************************************************************)
(* Proofs about UserPassword, for any passwords, stringprep tables and     *)
(* normalization, and any number of users and of concurrent requests.      *)
(***************************************************************************)
EXTENDS UserPassword, TLAPS

(* What a save leaves: saslprep accepted the row's password, and the row's
   verifier was made of it. *)
RowsHashed ==
  \A u \in UserIds : users[u] # Absent =>
    /\ users[u].hash[2] = Prepared(users[u].password)
    /\ Outcome(users[u].password) = "returned"

IInv == TypeOK /\ RowsHashed

(* Only strings that saslprep refuses fail its checks: the code decides from
   the first character which table the last loop adds, RFC 3454 from all. *)
LEMMA FailsIffDisallowed ==
  ASSUME NEW data \in Seq(Char), data # << >>
  PROVE  Fails(data) <=> ~Allowed(data)
<1>1. Len(data) \in Nat /\ DOMAIN data = 1..Len(data) /\ Len(data) > 0
  OBVIOUS
<1>2. 1 \in DOMAIN data /\ Len(data) \in DOMAIN data
  BY <1>1
<1>3. CASE RightToLeft(data)
  BY <1>2, <1>3 DEF Fails, Refused, RightToLeft, Allowed, NothingProhibited, OneDirection
<1>4. CASE ~RightToLeft(data)
  BY <1>2, <1>4 DEF Fails, Refused, RightToLeft, Allowed, NothingProhibited, OneDirection
<1> QED BY <1>3, <1>4

LEMMA Scram ==
  ASSUME NEW s \in Given, NEW salt \in Salts
  PROVE  /\ scram_sha_256(s, salt) \in Verifier
         /\ scram_sha_256(s, salt)[1] = salt
         /\ scram_sha_256(s, salt)[2] = Prepared(s)
  BY DEF scram_sha_256, Verifier

LEMMA InitIInv == Init => IInv
  BY PasswordsAssumption DEF Init, IInv, TypeOK, RowsHashed

LEMMA BeginKeeps ==
  ASSUME IInv, NEW w \in Workers, NEW r \in Request, Ready(w), Begin(w, r)
  PROVE  IInv'
<1>1. saves' \in 0..MaxSaves
  BY PasswordsAssumption DEF IInv, TypeOK, Ready, Begin
<1>2. request' \in [Workers -> Request \cup {Absent}]
  BY DEF IInv, TypeOK, Begin
<1> QED BY <1>1, <1>2 DEF IInv, TypeOK, RowsHashed, Begin

(* A save of a password that came with the request or with the row it loaded. *)
LEMMA SaveKeeps ==
  ASSUME IInv, NEW w \in Workers, NEW s \in Given, request[w] # Absent, HashAndSave(w, s)
  PROVE  IInv'
<1> DEFINE u == request[w].user
<1>1. u \in UserIds
  BY DEF IInv, TypeOK, Request
<1>2. request' \in [Workers -> Request \cup {Absent}] /\ saves' \in 0..MaxSaves
  BY DEF HashAndSave, IInv, TypeOK
<1>3. users' \in [UserIds -> Row \cup {Absent}] /\ RowsHashed'
  <2>1. CASE Outcome(s) = "returned"
    <3>1. PICK salt \in Salts : SaveRow(w, s, scram_sha_256(s, salt))
      BY <2>1 DEF HashAndSave
    <3>2. users' = [users EXCEPT ![u] = [password |-> s, hash |-> scram_sha_256(s, salt)]]
      BY <3>1 DEF SaveRow
    <3>3. [password |-> s, hash |-> scram_sha_256(s, salt)] \in Row
      BY Scram DEF Row
    <3> QED BY <1>1, <2>1, <3>2, <3>3, Scram DEF IInv, TypeOK, RowsHashed
  <2>2. CASE Outcome(s) # "returned"
    BY <2>2 DEF HashAndSave, IInv, TypeOK, RowsHashed
  <2> QED BY <2>1, <2>2
<1> QED BY <1>2, <1>3 DEF IInv, TypeOK

LEMMA StepIInv == IInv /\ [Next]_vars => IInv'
<1> SUFFICES ASSUME IInv, [Next]_vars PROVE IInv'
  OBVIOUS
<1>1. ASSUME NEW w \in Workers, NEW u \in UserIds, BeginCreate(w, u) PROVE IInv'
  <2>1. PICK s \in Given : Begin(w, [op |-> "create", user |-> u, password |-> s])
    BY <1>1 DEF BeginCreate
  <2>2. [op |-> "create", user |-> u, password |-> s] \in Request
    BY DEF Request
  <2> QED BY <1>1, <2>1, <2>2, BeginKeeps DEF BeginCreate
<1>2. ASSUME NEW w \in Workers, NEW u \in UserIds, BeginUpdate(w, u) PROVE IInv'
  <2>1. PICK s \in Given \cup {Absent} :
          Begin(w, [op |-> "update", user |-> u, password |-> s, row |-> users[u]])
    BY <1>2 DEF BeginUpdate
  <2>2. users[u] \in Row
    BY <1>2 DEF BeginUpdate, IInv, TypeOK
  <2>3. [op |-> "update", user |-> u, password |-> s, row |-> users[u]] \in Request
    BY <2>2 DEF Request
  <2> QED BY <1>2, <2>1, <2>3, BeginKeeps DEF BeginUpdate
<1>3. ASSUME NEW w \in Workers, NEW u \in UserIds, BeginDelete(w, u) PROVE IInv'
  <2>1. [op |-> "delete", user |-> u] \in Request
    BY DEF Request
  <2> QED BY <1>3, <2>1, BeginKeeps DEF BeginDelete
<1>4. ASSUME NEW w \in Workers, Insert(w) PROVE IInv'
  <2>1. request[w].password \in Given
    BY <1>4 DEF Insert, IInv, TypeOK, Request
  <2> QED BY <1>4, <2>1, SaveKeeps DEF Insert
<1>5. ASSUME NEW w \in Workers, Update(w) PROVE IInv'
  <2> DEFINE r == request[w]
             s == IF r.password = Absent THEN r.row.password ELSE r.password
  <2>1. s \in Given
    BY <1>5 DEF Update, IInv, TypeOK, Request, Row
  <2>2. HashAndSave(w, s) /\ request[w] # Absent
    BY <1>5 DEF Update
  <2> HIDE DEF s
  <2> QED BY <2>1, <2>2, SaveKeeps
<1>6. ASSUME NEW w \in Workers, Delete(w) PROVE IInv'
  BY <1>6 DEF Delete, IInv, TypeOK, RowsHashed
<1>7. ASSUME NEW w \in Workers, Conflict(w) PROVE IInv'
  BY <1>7 DEF Conflict, IInv, TypeOK, RowsHashed
<1>8. CASE UNCHANGED vars
  BY <1>8 DEF vars, IInv, TypeOK, RowsHashed
<1> QED BY <1>1, <1>2, <1>3, <1>4, <1>5, <1>6, <1>7, <1>8 DEF Next

LEMMA Invariance == Spec => []IInv
  BY InitIInv, StepIInv, PTL DEF Spec

(* Types, and no row without a verifier, in every state of every instance. *)
THEOREM TypeCorrect == Spec => []TypeOK
<1>1. IInv => TypeOK
  BY DEF IInv
<1> QED BY <1>1, Invariance, PTL

(* verify_password on a verifier: the passwords that prepare to the same text. *)
LEMMA Verifies ==
  ASSUME NEW s \in Given \ Lookalikes, NEW v \in Verifier
  PROVE  VerifyPassword(s, v) <=> v[2] = Prepared(s)
<1>1. s \notin Verifier \cup Lookalikes
  BY PasswordsAssumption DEF Verifier
<1>2. v = <<v[1], v[2]>>
  BY DEF Verifier
<1> QED BY <1>1, <1>2 DEF VerifyPassword, scram_sha_256

(* However requests interleave, what the nodes get admits exactly the
   passwords equivalent to the one that the API shows. *)
THEOREM HashesFit == Spec => []HashFitsPassword
<1>1. IInv => HashFitsPassword
  <2> SUFFICES ASSUME IInv, NEW u \in UserIds, users[u] # Absent, NEW s \in Given \ Lookalikes
               PROVE  VerifyPassword(s, users[u].hash) <=> Prepared(s) = Prepared(users[u].password)
    BY DEF HashFitsPassword
  <2>1. users[u].hash \in Verifier /\ users[u].hash[2] = Prepared(users[u].password)
    BY DEF IInv, TypeOK, RowsHashed, Row
  <2> QED BY <2>1, Verifies
<1> QED BY <1>1, Invariance, PTL

(* saslprep decides what RFC 4013 says of strings of any length, for any tables
   and any normalization. *)
LEMMA Judged ==
  ASSUME NEW s \in Strings, Prepared(s) # << >>
  PROVE  Outcome(s) = "returned" <=> Allowed(Prepared(s))
<1>1. Fails(Prepared(s)) <=> ~Allowed(Prepared(s))
  BY StringsAssumption, FailsIffDisallowed
<1> QED BY <1>1 DEF Outcome

(* No input is misjudged, and no row holds a password that is not allowed. *)
THEOREM DecidesRight == Spec => []DecidesLikeRFC
<1>1. Misjudged = {}
  BY Judged DEF Misjudged
<1>2. IInv => DecidesLikeRFC
  <2> SUFFICES ASSUME IInv, NEW u \in UserIds, users[u] # Absent
               PROVE  Allowed(Prepared(users[u].password))
    BY <1>1 DEF DecidesLikeRFC
  <2>1. users[u].password \in Strings /\ Outcome(users[u].password) = "returned"
    BY PasswordsAssumption DEF IInv, TypeOK, RowsHashed, Row
  <2>2. Prepared(users[u].password) # << >>
    BY <2>1 DEF Outcome
  <2> QED BY <2>1, <2>2, Judged
<1> QED BY <1>2, Invariance, PTL
=============================================================================
