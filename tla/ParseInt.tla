------------------------------ MODULE ParseInt ------------------------------
(***************************************************************************)
(* parseInt (src/src/types.c) on text that is a sequence of characters: a  *)
(* digit is its value, Minus and Other stand for the rest.  Arithmetic is  *)
(* that of the machine, Bits wide (64 in the code): the digits are added   *)
(* up in an unsigned number, the result is signed.                         *)
(***************************************************************************)
EXTENDS Integers, Sequences

CONSTANTS Bits

ASSUME BitsAssumption == Bits \in Nat \ {0}

Minus == 10
Other == 11
Char  == 0 .. 11

MaxUnsigned == 2 ^ Bits - 1
MaxSigned   == 2 ^ (Bits - 1) - 1

Reject    == [ok |-> FALSE, num |-> 0]
Accept(n) == [ok |-> TRUE, num |-> n]

(* The loop's two tests for overflow.                                      *)
Fits_OneTest(n, d) == n <= MaxUnsigned \div 10
Fits(n, d)         == n <= MaxUnsigned \div 10 /\ n * 10 <= MaxUnsigned - d

(* The digits read so far and one more; -1 when the loop gives up.  Only   *)
(* the digits 1 to 9 are taken, after the first one too.                   *)
AddDigit(n, d) ==
    IF n # -1 /\ d \in 1 .. 9 /\ Fits(n, d) THEN (n * 10 + d) % 2 ^ Bits ELSE -1

Digits(text, from) ==
    LET n[i \in from - 1 .. Len(text)] ==
            IF i < from THEN 0 ELSE AddDigit(n[i - 1], text[i])
    IN  n[Len(text)]

Signed(n, negative) ==
    IF n = -1 \/ n > MaxSigned + (IF negative THEN 1 ELSE 0) THEN Reject
    ELSE Accept(IF negative THEN -n ELSE n)

parseInt(text) ==
    LET negative == text # <<>> /\ text[1] = Minus
        from     == IF negative THEN 2 ELSE 1
    IN  IF from > Len(text) THEN Reject
        ELSE IF text = <<0>> \/ (negative /\ text[2] = 0) THEN Accept(0)
        ELSE Signed(Digits(text, from), negative)

-----------------------------------------------------------------------------
(* For reference: the number a text denotes, by the value of its places.   *)
Unsigned(text) == IF text # <<>> /\ text[1] = Minus THEN Tail(text) ELSE text

Denotes(text) ==
    LET ds == Unsigned(text)
        place[i \in 0 .. Len(ds)] == IF i = 0 THEN 0 ELSE 10 * place[i - 1] + ds[i]
    IN  IF ds = text THEN place[Len(ds)] ELSE -place[Len(ds)]

(* A decimal numeral as Redis writes it, that the machine can hold.        *)
IsNumeral(text) ==
    LET ds == Unsigned(text)
    IN  /\ ds # <<>>
        /\ \A i \in DOMAIN ds : ds[i] \in 0 .. 9
        /\ ds[1] = 0 => text = <<0>>
        /\ Denotes(text) \in -MaxSigned - 1 .. MaxSigned

HasInnerZero(text) == \E i \in 2 .. Len(text) : text[i] = 0
=============================================================================
