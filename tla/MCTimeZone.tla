------------------------------- MODULE MCTimeZone ------------------------------
(* Instances of TimeZone for TLC: days of eight seconds, so that offsets   *)
(* of one to three seconds are hours and more.                             *)
EXTENDS TimeZone

Type(offset, dst) == [utcOffset |-> offset, isDst |-> dst, desigIdx |-> 0]
Summer == <<Type(1, 0), Type(2, 1)>>

(* standard, summer, standard, summer, standard: skips and repeats         *)
SummerTime == <<<<-20, 1>>, <<-9, 0>>, <<3, 1>>, <<11, 0>>, <<25, 1>>, <<33, 0>>>>

Zone(types, trans, version, indicators, v1) ==
    [types |-> types, trans |-> trans, rule |-> <<>>, version |-> version, leap |-> 0,
     isstd |-> IF indicators THEN Len(types) ELSE 0, isut |-> IF indicators THEN Len(types) ELSE 0,
     v1 |-> v1]

NoBlock == [types |-> <<Type(0, 0)>>, trans |-> <<>>, leap |-> 0, isstd |-> 0, isut |-> 0]
\* the same zone by a TZ string, from the end of its table on
SummerRule == <<<<36, 1>>, <<43, 0>>>>
WithLeap == [types |-> Summer, trans |-> SummerTime, leap |-> 1, isstd |-> 2, isut |-> 2]

SomeZones ==
    {Zone(Summer, SummerTime, "1", TRUE, NoBlock),
     [Zone(Summer, SummerTime, "2", FALSE, WithLeap) EXCEPT !.rule = SummerRule],
     Zone(Summer, SummerTime, "2", TRUE, NoBlock),
     \* a zone that moves by three hours, across the date line and back
     Zone(<<Type(-2, 0), Type(1, 0), Type(3, 1)>>,
          <<<<-10, 1>>, <<2, 2>>, <<9, 0>>, <<20, 1>>>>, "2", FALSE, NoBlock),
     \* a zone whose first type is daylight time
     Zone(<<Type(3, 1), Type(0, 0)>>, <<<<-7, 1>>, <<4, 0>>, <<12, 1>>>>, "2", FALSE, NoBlock),
     Zone(<<Type(-3, 0)>>, <<>>, "1", FALSE, NoBlock)}

West == {-3}
================================================================================
