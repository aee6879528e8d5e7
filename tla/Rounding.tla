------------------------------- MODULE Rounding -------------------------------
(***************************************************************************)
(* round(), where a number is kept to fewer places than it was computed    *)
(* to.  Numbers are integers in some unit.                                 *)
(***************************************************************************)
EXTENDS Integers

\* The integer nearest to a / b, the even one if two are as near.
Nearest(a, b) ==
    LET q == a \div b
        twice == 2 * (a % b)
    IN  IF twice > b \/ (twice = b /\ q % 2 = 1) THEN q + 1 ELSE q

\* n kept to multiples of grain.
RoundedTo(n, grain) == Nearest(n, grain) * grain
=============================================================================
