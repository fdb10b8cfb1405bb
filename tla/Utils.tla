-------------------------------- MODULE Utils --------------------------------
(***************************************************************************)
(* The conversions of b2g-info/utils.cpp: strip() and the two families of  *)
(* str_to_int(), which decide what b2g-info takes for a pid, a tid, or a   *)
(* number in a file of /proc and /sys, and those of pages and kB.          *)
(***************************************************************************)
EXTENDS Integers, Sequences, FiniteSetsExt, SequencesExt

CONSTANTS
  DigitOf,  \* DigitOf[c]: the digit that the character c is; the other
            \* characters are a blank, the two signs and a comma
  LongMax,  \* the greatest long (a bound of the model: 32 bits on the device)
  PageSize, \* sPageSize, in bytes (a bound of the model)
  Kilo      \* 1024 (a bound of the model)

\* The _default that every caller of str_to_int() gives, the mark of an unknown
\* number.
Default == -1

Blank == " "
Comma == ","
Signs == {"-", "+"}
Digits == DOMAIN DigitOf
Chars == Digits \cup Signs \cup {Blank, Comma}

ASSUME UtilsAssumption ==
  /\ DigitOf \in [Digits -> 0..9]
  /\ Digits \cap (Signs \cup {Blank, Comma}) = {}
  /\ LongMax \in Nat
  /\ PageSize \in Nat /\ Kilo \in Nat \ {0} /\ PageSize % Kilo = 0
  /\ PageSize > 0 /\ (2 * (LongMax + 1)) % PageSize = 0

-----------------------------------------------------------------------------
Inked(s) == {i \in 1..Len(s) : s[i] # Blank}

\* Mistake: the blanks at the end, such as the newline of a file in /proc,
\* are kept.
StripLeft(s) ==
  IF Inked(s) = {} THEN <<>> ELSE SubSeq(s, Min(Inked(s)), Len(s))

\* strip()
Strip(s) ==
  IF Inked(s) = {} THEN <<>> ELSE SubSeq(s, Min(Inked(s)), Max(Inked(s)))

\* Mistake: the number is taken modulo the word, as atoi() may take it.
WrapAround(n) == n % (2 * (LongMax + 1))

Clamp(n) == IF n > LongMax THEN LongMax
            ELSE IF n < -LongMax - 1 THEN -LongMax - 1 ELSE n

Value(digits) == FoldLeft(LAMBDA n, c : 10 * n + DigitOf[c], 0, digits)

\* strtol(s, &endptr, 10) for an s without leading blanks: the number its
\* longest numeric prefix makes, and what endptr points at.
Strtol(s) ==
  LET start == IF s # <<>> /\ s[1] \in Signs THEN 2 ELSE 1
      end == Min({i \in start..Len(s) + 1 :
                    i = Len(s) + 1 \/ s[i] \notin Digits})
      n == Value(SubSeq(s, start, end - 1))
  IN IF end = start THEN [value |-> 0, rest |-> s]
     ELSE [value |-> Clamp(IF s[1] = "-" THEN -n ELSE n),
           rest |-> SubSeq(s, end, Len(s))]

Converts(s) == s # <<>> /\ Strtol(s).rest = <<>>

\* str_to_int(str, &result).  The long is cut to an int (113, 135), which leaves
\* it as it is on the devices, where both have 32 bits.
StrToInt(s) ==
  LET t == Strip(s) IN [ok |-> Converts(t), result |-> Strtol(t).value]

\* str_to_int(str, _default)
StrToIntOr(s) ==
  LET t == Strip(s) IN IF Converts(t) THEN Strtol(t).value ELSE Default

-----------------------------------------------------------------------------
\* A product as a long holds it: on a device of 32 bits it wraps around.
AsLong(n) == ((n + LongMax + 1) % (2 * (LongMax + 1))) - (LongMax + 1)

\* Mistake: an unknown number of pages is converted like any other.
KbOfAnyPages(pages) == AsLong(pages * PageSize) \div Kilo

\* pages_to_kb()
PagesToKb(pages) ==
  IF pages = -1 THEN -1 ELSE AsLong(pages * PageSize) \div Kilo

\* kb_to_mb(), in kB: the mark of an unknown number is -1 MB.
KbToMb(kb) == IF kb = -1 THEN -Kilo ELSE kb

-----------------------------------------------------------------------------
\* The numbers a string denotes: one for a decimal numeral between blanks,
\* with or without a sign, and none for any other string.
Denoted(s) ==
  {Value(SubSeq(s, r[1], r[2])) *
     (IF r[1] > 1 /\ s[r[1] - 1] = "-" THEN -1 ELSE 1) :
   r \in {r \in (1..Len(s)) \X (1..Len(s)) : r[1] <= r[2] /\
           \A m \in 1..Len(s) :
             \/ m \in r[1]..r[2] /\ s[m] \in Digits
             \/ m \notin r[1]..r[2] /\ s[m] = Blank
             \/ m = r[1] - 1 /\ s[m] \in Signs}}

=============================================================================
