------------------------------ MODULE MCReport ------------------------------
(* Small instances of Report. *)
EXTENDS Report

\* "9FBSS1234X1234567", or the like.
MCCarVin == <<57, 70, 66, 83, 83, 49, 50, 51, 52, 88, 49, 50, 51, 52, 53, 54, 55>>

Place(deg, min, frac, hemisphere) ==
  [deg |-> deg, min |-> min, frac |-> frac, hemisphere |-> hemisphere]

\* Santiago, and a place whose minutes have a zero behind the point, east of it.
MCFixes == {[lat |-> Place(33, 26, 1234, 83), long |-> Place(70, 34, 5678, 87)],
            [lat |-> Place(33, 2, 612, 83), long |-> Place(171, 59, 99, 69)]}

\* A clock, and one that never was set: its year is 80.
MCClocks == {[time |-> Digits(123456, 6), date |-> Digits(10220, 6)],
             [time |-> Digits(10, 6), date |-> Digits(60180, 6)]}
=============================================================================
