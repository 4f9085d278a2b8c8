--------------------------- MODULE MCUserPassword ---------------------------
(* One character of every class that the stringprep tables tell apart, and the
   passwords made of them. *)
EXTENDS UserPassword, SequencesExt

CONSTANTS
  a, digit, alef,  \* in D.2, in no table, in D.1
  wide,            \* a full-width letter: NFKC makes it a
  soft, nbsp,      \* soft hyphen, no-break space
  control,
  macron,          \* U+00AF: NFKC makes it a space and a combining macron
  combining,
  sp

Chars == {a, digit, alef, wide, soft, nbsp, control, macron, combining, sp}

Normal(c) ==
  CASE c = wide -> <<a>>
    [] c = macron -> <<sp, combining>>
    [] OTHER -> <<c>>
Normalized(s) == FlattenSeq([j \in DOMAIN s |-> Normal(s[j])])

(* Every password of up to four characters. *)
AllForms == UNION {[1..n -> Chars] : n \in 1..4}

(* Two that prepare to the same text, one of its own, one of each error. *)
FewForms == {<<wide, digit>>, <<a, soft, digit>>, <<alef, digit, alef>>,
             <<a, alef>>, <<soft, soft>>, <<digit, a>>}
LookalikeForms == {<<digit, a>>}
=============================================================================
