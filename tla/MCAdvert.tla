------------------------------ MODULE MCAdvert ------------------------------
(***************************************************************************)
(* Values for BleAdvert: Device Information as 16, 32 and 128 bits, in     *)
(* small letters and in capitals, another service, and a text that is no   *)
(* UUID; a name and data that fill a payload.                              *)
(***************************************************************************)
EXTENDS BleAdvert

Small(digits) == [k \in DOMAIN digits |-> Digit(digits[k])]
Capital(digits) == [k \in DOMAIN digits |-> IF digits[k] < 10 THEN 48 + digits[k] ELSE 55 + digits[k]]
Fill(n) == [k \in 1 .. n |-> k]

MCTexts == {
    Small(<<1, 8, 0, 10>>), Capital(<<0, 0, 0, 0, 1, 8, 0, 10>>),
    ToText(FromText(Capital(<<1, 8, 0, 10>>))),
    Small(<<6, 14, 4, 0>>), Small(<<15>>) }
MCNames == { Fill(3), Fill(29) }
MCData  == { << >>, Fill(9) }
=============================================================================
