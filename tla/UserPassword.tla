---------------------------- MODULE UserPassword ----------------------------
(***************************************************************************)
(* The passwords of the users of an instance: requests that create, update *)
(* and delete rows of postgres_users (user_api/dm/models.py), each save of *)
(* which hashes the row's password again (common/pg_auth/passwd.py).       *)
(*                                                                         *)
(* A request loads the whole row when it starts and saves the whole row    *)
(* when it ends, so two of them may interleave.                            *)
(***************************************************************************)
EXTENDS SaslPrep

CONSTANTS
  Workers,      \* concurrent requests
  UserIds,
  Given,        \* the passwords clients send: 8 to 99 characters in the code
  Lookalikes,   \* those of them that start with "SCRAM-SHA-256"
  Salts,        \* what token_bytes(16) returns
  Absent,       \* no row, no request, no password in the request
  MaxSaves      \* bound: requests

ASSUME PasswordsAssumption ==
  /\ Given \subseteq Strings
  /\ Lookalikes \subseteq Given
  /\ Given \cap (Salts \X {Prepared(s) : s \in Given}) = {}  \* a verifier has 133 characters
  /\ Absent \notin Given
  /\ MaxSaves \in Nat

VARIABLES
  users,     \* the rows of postgres_users
  request,   \* what each worker is doing, with the row it loaded
  saves

vars == <<users, request, saves>>

(* The text "SCRAM-SHA-256$4096:<salt>$<keys>": the keys stand for the
   prepared password, of which they are a one-way function. *)
Verifier == Salts \X {Prepared(s) : s \in Given}
Row == [password : Given, hash : Verifier]

scram_sha_256(password, salt) == <<salt, Prepared(password)>>

(* verify_password with its default method: what starts like a verifier is
   compared as it is, anything else is hashed with the verifier's salt. *)
VerifyPassword(given, verifier) ==
  IF given \in Verifier \cup Lookalikes
  THEN verifier = given
  ELSE verifier = scram_sha_256(given, verifier[1])

Request ==
  [op : {"create"}, user : UserIds, password : Given]
  \cup [op : {"update"}, user : UserIds, password : Given \cup {Absent}, row : Row]
  \cup [op : {"delete"}, user : UserIds]

(* TypeOK: every variable keeps its type; every row has a verifier. *)
TypeOK ==
  /\ users \in [UserIds -> Row \cup {Absent}]
  /\ request \in [Workers -> Request \cup {Absent}]
  /\ saves \in 0..MaxSaves

Init ==
  /\ users = [u \in UserIds |-> Absent]
  /\ request = [w \in Workers |-> Absent]
  /\ saves = 0

-----------------------------------------------------------------------------
Ready(w) == request[w] = Absent /\ saves < MaxSaves

Begin(w, r) ==
  /\ request' = [request EXCEPT ![w] = r]
  /\ saves' = saves + 1
  /\ UNCHANGED users

BeginCreate(w, u) ==
  /\ Ready(w)
  /\ \E s \in Given : Begin(w, [op |-> "create", user |-> u, password |-> s])

(* The controller loads the row; the body may name a new password or not. *)
BeginUpdate(w, u) ==
  /\ Ready(w)
  /\ users[u] # Absent
  /\ \E s \in Given \cup {Absent} :
       Begin(w, [op |-> "update", user |-> u, password |-> s, row |-> users[u]])

BeginDelete(w, u) ==
  /\ Ready(w)
  /\ users[u] # Absent
  /\ Begin(w, [op |-> "delete", user |-> u])

(* Mutant: a save writes the columns that the request changed; the hash is
   always one of them. *)
SaveChanged(w, password, hash) ==
  LET r == request[w] IN
    users' = [users EXCEPT ![r.user] =
                [password |-> IF r.password = Absent /\ users[r.user] # Absent
                              THEN users[r.user].password ELSE password,
                 hash |-> hash]]

(* insert() and update() of a whole row. *)
SaveRow(w, password, hash) ==
  users' = [users EXCEPT ![request[w].user] = [password |-> password, hash |-> hash]]

(* Mutant: the row is saved first, with the hash once there is one. *)
SaveAndHash(w, password) ==
  /\ IF Outcome(password) = "returned"
     THEN \E salt \in Salts : SaveRow(w, password, scram_sha_256(password, salt))
     ELSE SaveRow(w, password, Absent)
  /\ request' = [request EXCEPT ![w] = Absent]
  /\ UNCHANGED saves

(* _update_pw_hash comes first: when it raises, nothing is saved. *)
HashAndSave(w, password) ==
  /\ IF Outcome(password) = "returned"
     THEN \E salt \in Salts : SaveRow(w, password, scram_sha_256(password, salt))
     ELSE UNCHANGED users
  /\ request' = [request EXCEPT ![w] = Absent]
  /\ UNCHANGED saves

Insert(w) ==
  /\ request[w] # Absent
  /\ request[w].op = "create"
  /\ users[request[w].user] = Absent
  /\ HashAndSave(w, request[w].password)

Update(w) ==
  /\ request[w] # Absent
  /\ request[w].op = "update"
  /\ users[request[w].user] # Absent
  /\ LET r == request[w] IN
       HashAndSave(w, IF r.password = Absent THEN r.row.password ELSE r.password)

Delete(w) ==
  /\ request[w] # Absent
  /\ request[w].op = "delete"
  /\ users' = [users EXCEPT ![request[w].user] = Absent]
  /\ request' = [request EXCEPT ![w] = Absent]
  /\ UNCHANGED saves

(* The row exists already, or is gone. *)
Conflict(w) ==
  /\ request[w] # Absent
  /\ request[w].op = "create" => users[request[w].user] # Absent
  /\ request[w].op # "create" => users[request[w].user] = Absent
  /\ request' = [request EXCEPT ![w] = Absent]
  /\ UNCHANGED <<users, saves>>

Next ==
  \E w \in Workers :
    \/ \E u \in UserIds : BeginCreate(w, u) \/ BeginUpdate(w, u) \/ BeginDelete(w, u)
    \/ Insert(w) \/ Update(w) \/ Delete(w) \/ Conflict(w)

Spec == Init /\ [][Next]_vars

-----------------------------------------------------------------------------
(* A row's password and its verifier belong together however requests
   interleave: the verifier that goes to the nodes admits exactly the passwords
   that prepare to the same text as the password the API shows. *)
HashFitsPassword ==
  \A u \in UserIds : users[u] # Absent =>
    \A s \in Given \ Lookalikes :
      VerifyPassword(s, users[u].hash) <=> Prepared(s) = Prepared(users[u].password)

(* Reading the first and the last character, then every character once,
   decides what RFC 4013 says of the whole string: no input is misjudged, and
   no row ever holds a password that the RFC does not allow. *)
DecidesLikeRFC ==
  /\ Misjudged = {}
  /\ \A u \in UserIds : users[u] # Absent => Allowed(Prepared(users[u].password))
=============================================================================
