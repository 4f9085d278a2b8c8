SPECIFICATION Spec
CONSTANTS
  a = a
  digit = digit
  alef = alef
  wide = wide
  soft = soft
  nbsp = nbsp
  control = control
  macron = macron
  combining = combining
  sp = sp
  Char <- Chars
  Space = sp
  MappedToNothing = {soft}
  NonAsciiSpace = {nbsp}
  Prohibited = {nbsp, control}
  RandALCat = {alef}
  LCat = {a, wide}
  NFKC <- Normalized
  Strings <- AllForms
  Absent = Absent
  Given <- FewForms
  Lookalikes <- LookalikeForms
  Workers = {w1, w2}
  UserIds = {u1}
  Salts = {salt1, salt2}
  MaxSaves = 5
INVARIANTS TypeOK HashFitsPassword DecidesLikeRFC
CHECK_DEADLOCK FALSE
