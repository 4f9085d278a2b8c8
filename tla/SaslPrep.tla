------------------------------ MODULE SaslPrep ------------------------------
(***************************************************************************)
(* saslprep() of common/pg_auth/saslprep.py, through which every password  *)
(* goes before it is hashed.  A password is a sequence of characters; the  *)
(* stringprep tables are sets of characters and NFKC is an operator.       *)
(***************************************************************************)
EXTENDS Integers, Sequences

CONSTANTS
  Char,
  Space,              \* U+0020
  MappedToNothing,    \* table B.1
  NonAsciiSpace,      \* table C.1.2
  Prohibited,         \* tables C.1.2, C.2 to C.9 and A.1
  RandALCat, LCat,    \* tables D.1 and D.2
  NFKC(_),
  Strings             \* inputs to judge saslprep by

ASSUME TablesAssumption ==
  /\ Space \in Char
  /\ MappedToNothing \cup NonAsciiSpace \cup Prohibited \cup RandALCat \cup LCat \subseteq Char

Map(s) ==
  LET kept == SelectSeq(s, LAMBDA c : c \notin MappedToNothing) IN
    [j \in DOMAIN kept |-> IF kept[j] \in NonAsciiSpace THEN Space ELSE kept[j]]

Prepared(s) == NFKC(Map(s))

ASSUME StringsAssumption == \A s \in Strings : Prepared(s) \in Seq(Char)

RightToLeft(data) == data[1] \in RandALCat

(* What the last loop refuses, given the direction of the first character. *)
Refused(data) == Prohibited \cup (IF RightToLeft(data) THEN LCat ELSE RandALCat)

(* Mutant: the last character is not looked at. *)
FailsByFirst(data) == \E j \in DOMAIN data : data[j] \in Refused(data)

(* Either of the two ValueErrors. *)
Fails(data) ==
  \/ RightToLeft(data) /\ data[Len(data)] \notin RandALCat
  \/ \E j \in DOMAIN data : data[j] \in Refused(data)

(* data[0] of an empty string is an IndexError. *)
Outcome(s) ==
  CASE Prepared(s) = << >> -> "IndexError"
    [] Prepared(s) # << >> /\ Fails(Prepared(s)) -> "ValueError"
    [] OTHER -> "returned"

-----------------------------------------------------------------------------
(* RFC 4013, sections 2.3 and 2.4, with RFC 3454, section 6, as conditions on
   the whole of a mapped and normalized string. *)
NothingProhibited(data) == \A j \in DOMAIN data : data[j] \notin Prohibited

OneDirection(data) ==
  (\E j \in DOMAIN data : data[j] \in RandALCat) =>
    /\ data[1] \in RandALCat /\ data[Len(data)] \in RandALCat
    /\ \A j \in DOMAIN data : data[j] \notin LCat

Allowed(data) == NothingProhibited(data) /\ OneDirection(data)

(* The inputs of which something is left to judge, and of which the code thinks
   otherwise than the RFC. *)
Misjudged ==
  {s \in Strings : /\ Prepared(s) # << >>
                   /\ Outcome(s) = "returned" <=> ~Allowed(Prepared(s))}
=============================================================================
