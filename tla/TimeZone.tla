-------------------------------- MODULE TimeZone -------------------------------
(***************************************************************************)
(* muduo's calendar and time zones (src/event_server/common/Date.cc,       *)
(* TimeZone.cc): Julian day numbers, broken-down UTC time, zone files      *)
(* (RFC 8536) and local time, beside a clock that counts seconds, carries  *)
(* them into minutes, hours, days, months and years, and knows nothing of  *)
(* Julian days.  The clock runs forwards and backwards from the epoch.     *)
(* Timestamps (Timestamp.cc) are microseconds on the same scale.           *)
(***************************************************************************)
EXTENDS Integers, Sequences, FiniteSets

CONSTANTS
    SecondsPerMinute, MinutesPerHour, HoursPerDay, kMicroSecondsPerSecond,
    MinYear, MaxYear,   \* bound: the clock stays in these years
    Span,               \* bound: seconds the clock of a zone file runs off the epoch
    EastOfUtc,          \* the offsets of the fixed zones
    ZoneFiles,          \* the zones that zone files describe, see Written
    Garbage,            \* what a read gives that does not fall on a field
    EndOfFile,          \* the exception of a read that the file ends before
    NotLoaded,          \* no TimeZone yet
    Invalid             \* a TimeZone whose data_ is null

ASSUME TimeZoneAssumption ==
    /\ {SecondsPerMinute, MinutesPerHour, HoursPerDay} \subseteq 1 .. 100   \* two digits
    /\ kMicroSecondsPerSecond \in Nat \ {0}
    /\ MinYear \in 1 .. 1970 /\ MaxYear \in 1970 .. 9997                   \* four digits
    /\ Span \in Nat
    /\ EndOfFile \notin Int \cup {"TZif", "1", "2", "reserved", "name"}

VARIABLES
    zone,     \* the zone described by the file; a fixed zone is [east |-> ...]
    data_,    \* TimeZone::data_, NotLoaded or Invalid
    now,      \* seconds since the epoch
    utc,      \* the reference clock: the date and time in UTC
    weekday   \* and its day of the week, Sunday is 0

vars == <<zone, data_, now, utc, weekday>>

kSecondsPerDay == HoursPerDay * MinutesPerHour * SecondsPerMinute

(* ------------------------- Date.cc, with C's division ------------------- *)
Quot(a, b) == IF a >= 0 THEN a \div b ELSE -((-a) \div b)
Rem(a, b) == a - b * Quot(a, b)

getJulianDayNumber(year, month, day) ==
    LET a == Quot(14 - month, 12)
        y == year + 4800 - a
        m == month + 12 * a - 3
    IN  day + Quot(153 * m + 2, 5) + y * 365
            + Quot(y, 4) - Quot(y, 100) + Quot(y, 400) - 32045

getYearMonthDay(julianDayNumber) ==
    LET a == julianDayNumber + 32044
        b == Quot(4 * a + 3, 146097)
        c == a - Quot(b * 146097, 4)
        d == Quot(4 * c + 3, 1461)
        e == c - Quot(1461 * d, 4)
        m == Quot(5 * e + 2, 153)
    IN  [year |-> b * 100 + d - 4800 + Quot(m, 10),
         month |-> m + 3 - 12 * Quot(m, 10),
         day |-> e - Quot(153 * m + 2, 5) + 1]

(* A Date is its Julian day number; struct tm counts years from 1900 and   *)
(* months from 0.                                                          *)
Date(y, m, d) == getJulianDayNumber(y, m, d)
DateOfTm(t) == getJulianDayNumber(t.tm_year + 1900, t.tm_mon + 1, t.tm_mday)
yearMonthDay(date) == getYearMonthDay(date)
year(date) == yearMonthDay(date).year
month(date) == yearMonthDay(date).month
day(date) == yearMonthDay(date).day
DateLess(x, y) == x < y
DateEqual(x, y) == x = y
weekDay(date) == Rem(date + 1, 7)
kJulianDayOf1970_01_01 == getJulianDayNumber(1970, 1, 1)

(* printf of a number in a field, the rest of which is filled with pad. *)
Printed(n, width, pad) ==
    [i \in 1 .. width |->
        IF i < width /\ n < 10 ^ (width - i) THEN pad ELSE (n \div 10 ^ (width - i)) % 10]
Blank == -1   \* sorts before the digits

(* What Printed uses of exponentiation, for the proofs.                    *)
ASSUME PowersOfTen == 10 ^ 0 = 1 /\ 10 ^ 1 = 10 /\ 10 ^ 2 = 100 /\ 10 ^ 3 = 1000

(* Date::toIsoString, without the dashes. *)
toIsoString(date) ==
    LET ymd == yearMonthDay(date)
    IN  Printed(ymd.year, 4, Blank) \o Printed(ymd.month, 2, 0) \o Printed(ymd.day, 2, 0)

(* --------------------------- broken-down time --------------------------- *)
fillHMS(seconds) ==
    [second |-> seconds % SecondsPerMinute,
     minute |-> (seconds \div SecondsPerMinute) % MinutesPerHour,
     hour |-> (seconds \div SecondsPerMinute) \div MinutesPerHour]

(* A slip: the division is taken to round down.                            *)
BreakTimeNoCarry(t) ==
    LET hms == fillHMS(Rem(t, kSecondsPerDay))
        ymd == getYearMonthDay(Quot(t, kSecondsPerDay) + kJulianDayOf1970_01_01)
    IN  [year |-> ymd.year, month |-> ymd.month, day |-> ymd.day,
         hour |-> hms.hour, minute |-> hms.minute, second |-> hms.second]

BreakTime(t) ==
    LET seconds == Rem(t, kSecondsPerDay)
        days == Quot(t, kSecondsPerDay)
        carry == IF seconds < 0 THEN 1 ELSE 0   \* C rounds towards zero
        hms == fillHMS(seconds + carry * kSecondsPerDay)
        ymd == getYearMonthDay(days - carry + kJulianDayOf1970_01_01)
    IN  [year |-> ymd.year, month |-> ymd.month, day |-> ymd.day,
         hour |-> hms.hour, minute |-> hms.minute, second |-> hms.second]

toUtcTime(secondsSinceEpoch) == BreakTime(secondsSinceEpoch)

fromUtcTime(dt) ==
    LET secondsInDay == dt.hour * (MinutesPerHour * SecondsPerMinute)
                            + dt.minute * SecondsPerMinute + dt.second
        days == Date(dt.year, dt.month, dt.day) - kJulianDayOf1970_01_01
    IN  days * kSecondsPerDay + secondsInDay

DateTimeOfTm(t) ==
    [year |-> t.tm_year + 1900, month |-> t.tm_mon + 1, day |-> t.tm_mday,
     hour |-> t.tm_hour, minute |-> t.tm_min, second |-> t.tm_sec]

(* DateTime::toIsoString, without what stands between the numbers. *)
DateTimeToIsoString(dt) ==
    Printed(dt.year, 4, 0) \o Printed(dt.month, 2, 0) \o Printed(dt.day, 2, 0)
        \o Printed(dt.hour, 2, 0) \o Printed(dt.minute, 2, 0) \o Printed(dt.second, 2, 0)

(* The C library's struct tm of a date and time. *)
TmOf(dt) ==
    [tm_year |-> dt.year - 1900, tm_mon |-> dt.month - 1, tm_mday |-> dt.day,
     tm_hour |-> dt.hour, tm_min |-> dt.minute, tm_sec |-> dt.second]

(* ------------------------------ Timestamp ------------------------------- *)
fromUnixTime(t, microseconds) == t * kMicroSecondsPerSecond + microseconds

(* Timestamp::now, from the seconds and microseconds of gettimeofday. *)
NowTimestamp(tv) == tv.tv_sec * kMicroSecondsPerSecond + tv.tv_usec

(* The seconds are doubles in the code; here they are whole. *)
addTime(timestamp, seconds) == timestamp + seconds * kMicroSecondsPerSecond
timeDifference(high, low) == Quot(high - low, kMicroSecondsPerSecond)

valid(timestamp) == timestamp > 0
TimestampLess(lhs, rhs) == lhs < rhs
TimestampEqual(lhs, rhs) == lhs = rhs

secondsSinceEpoch(timestamp) == Quot(timestamp, kMicroSecondsPerSecond)

toString(timestamp) ==
    <<Quot(timestamp, kMicroSecondsPerSecond), Rem(timestamp, kMicroSecondsPerSecond)>>

(* gmtime_r, then the microseconds behind the date and time. *)
toFormattedString(timestamp) ==
    <<toUtcTime(Quot(timestamp, kMicroSecondsPerSecond)), Rem(timestamp, kMicroSecondsPerSecond)>>

(* --------------------------- reading a zone file ------------------------ *)
(* fopen fails for a file that is not there. *)
NoFile == [length |-> -1]
File(file) == file # NoFile

(* A file gives the field that starts at an offset and its own length.     *)
Content(file, pos, width) ==
    IF pos \in DOMAIN file.at /\ file.at[pos].width = width
    THEN file.at[pos].value ELSE Garbage

(* A slip: part of a field is taken for all of it.                         *)
ReadPart(file, pos, width) ==
    IF pos >= file.length THEN EndOfFile ELSE Content(file, pos, width)

(* readBytes, readInt64, readInt32 and readUInt8 throw std::logic_error    *)
(* unless fread gives all the bytes.                                       *)
Read(file, pos, width) ==
    IF pos + width > file.length THEN EndOfFile ELSE Content(file, pos, width)

addLocalTime(utcOffset, isDst, desigIdx) ==
    [utcOffset |-> utcOffset, isDst |-> isDst, desigIdx |-> desigIdx]

(* localtimes.at() throws for an index that is out of range. *)
CanAddTransition(localtimes, localtimeIdx) == localtimeIdx < Len(localtimes)

Transition(t, l, localIdx) == [utctime |-> t, localtime |-> l, localtimeIdx |-> localIdx]

addTransition(localtimes, utcTime, localtimeIdx) ==
    Transition(utcTime, utcTime + localtimes[localtimeIdx + 1].utcOffset, localtimeIdx)

(* The file is not loaded when a count is refused, which is an early       *)
(* return, or when a read or localtimes.at() throws.  The leap seconds and *)
(* indicators at the end are skipped by fseek, which does not fail, and    *)
(* the TZ string behind them is read, however short, but never used.       *)
readDataBlock(file, pos, v1) ==
    LET time_size == IF v1 THEN 4 ELSE 8
        Count(i) == Read(file, pos + 4 * i, 4)
        isutccnt == Count(0)  isstdcnt == Count(1)  leapcnt == Count(2)
        timecnt == Count(3)   typecnt == Count(4)   charcnt == Count(5)
        times == pos + 24
        indices == times + time_size * timecnt
        types == indices + timecnt
        chars == types + 6 * typecnt
        Index(i) == Read(file, indices + i - 1, 1)
        Time(i) == Read(file, times + time_size * (i - 1), time_size)
        localtimes == [i \in 1 .. typecnt |->
            LET type == types + 6 * (i - 1)
            IN  addLocalTime(Read(file, type, 4), Read(file, type + 4, 1), Read(file, type + 5, 1))]
        abbreviation == Read(file, chars, charcnt)
    IN  IF \/ \E i \in 0 .. 5 : Count(i) = EndOfFile
           \/ leapcnt # 0
           \/ isutccnt \notin {0, typecnt}
           \/ isstdcnt \notin {0, typecnt}
           \/ \E i \in 1 .. timecnt : EndOfFile \in {Time(i), Index(i)}
           \/ \E i \in 1 .. typecnt : \E x \in DOMAIN localtimes[i] : localtimes[i][x] = EndOfFile
           \/ \E i \in 1 .. timecnt : ~CanAddTransition(localtimes, Index(i))
           \/ abbreviation = EndOfFile
        THEN Invalid
        ELSE [localtimes |-> localtimes,
              transitions |-> [i \in 1 .. timecnt |-> addTransition(localtimes, Time(i), Index(i))],
              abbreviation |-> abbreviation]

(* A slip: the first block's indicators are not skipped.                   *)
V2BlockNoIndicators(file) ==
    LET Count(i) == Read(file, 20 + 4 * i, 4)
    IN  44 + 4 * Count(3) + Count(3) + 6 * Count(4) + Count(5) + 8 * Count(2)

(* Where the second header of a version 2 file starts. *)
V2Block(file) ==
    LET Count(i) == Read(file, 20 + 4 * i, 4)
    IN  44 + 4 * Count(3) + Count(3) + 6 * Count(4) + Count(5)
           + 8 * Count(2) + Count(1) + Count(0)

readTimeZoneFile(file) ==
    IF \/ ~File(file)
       \/ Read(file, 0, 4) # "TZif"
       \/ EndOfFile \in {Read(file, 4, 1), Read(file, 5, 15)}
       \/ \E i \in 0 .. 5 : Read(file, 20 + 4 * i, 4) = EndOfFile
    THEN Invalid
    ELSE IF Read(file, 4, 1) # "2" THEN readDataBlock(file, 20, TRUE)
    ELSE IF Read(file, V2Block(file), 4) # "TZif" THEN Invalid
    ELSE readDataBlock(file, V2Block(file) + 20, FALSE)

(* ------------------------------ local time ------------------------------ *)
LocalTime(data, i) == data.localtimes[data.transitions[i].localtimeIdx + 1]

(* std::upper_bound in a sorted vector of keys *)
upper_bound(keys, x) ==
    CHOOSE i \in 1 .. Len(keys) + 1 :
        /\ \A j \in 1 .. i - 1 : keys[j] <= x
        /\ i <= Len(keys) => keys[i] > x

utctimes(data) == [i \in 1 .. Len(data.transitions) |-> data.transitions[i].utctime]
localtimesOf(data) == [i \in 1 .. Len(data.transitions) |-> data.transitions[i].localtime]

(* A slip: std::lower_bound.                                               *)
findLocalTimeLate(data, utcTime) ==
    IF data.transitions = <<>> \/ utcTime <= utctimes(data)[1]
    THEN data.localtimes[1]
    ELSE LocalTime(data, upper_bound(utctimes(data), utcTime - 1) - 1)

findLocalTime(data, utcTime) ==
    IF data.transitions = <<>> \/ utcTime < utctimes(data)[1]
    THEN data.localtimes[1]
    ELSE LocalTime(data, upper_bound(utctimes(data), utcTime) - 1)

(* A slip: a repeated hour is not looked for.                              *)
findLocalTimeOfNoRepeat(data, local, postTransition) ==
    IF data.transitions = <<>> \/ local < localtimesOf(data)[1]
    THEN data.localtimes[1]
    ELSE LocalTime(data, upper_bound(localtimesOf(data), local) - 1)

(* A slip: the second of the transition itself.                            *)
PriorSecondOff(data, i) ==
    data.transitions[i].utctime + LocalTime(data, i - 1).utcOffset

(* The last second before transition i, in the local time before it. *)
PriorSecond(data, i) ==
    data.transitions[i].utctime - 1 + LocalTime(data, i - 1).utcOffset

(* The other overload: local is fromUtcTime of the local date and time.    *)
(* For the first transition prior_trans and prior_second keep the values   *)
(* of the one after it.                                                    *)
findLocalTimeOf(data, local, postTransition) ==
    LET n == Len(data.transitions)
        i == upper_bound(localtimesOf(data), local)
        prior == IF i = 2 THEN [trans |-> 1, second |-> PriorSecond(data, 2)]
                 ELSE [trans |-> i - 2, second |-> PriorSecond(data, i - 1)]
    IN  IF n = 0 \/ local < localtimesOf(data)[1] THEN data.localtimes[1]
        ELSE IF i > n THEN LocalTime(data, n)
        ELSE IF PriorSecond(data, i) < local   \* it's a skip
             THEN LocalTime(data, IF postTransition THEN i ELSE i - 1)
        ELSE IF local <= prior.second          \* it's repeat
             THEN LocalTime(data, IF postTransition THEN i - 1 ELSE prior.trans)
        ELSE LocalTime(data, i - 1)

toLocalTime(data, seconds) == BreakTime(seconds + findLocalTime(data, seconds).utcOffset)

fromLocalTime(data, dt, postTransition) ==
    fromUtcTime(dt) - findLocalTimeOf(data, fromUtcTime(dt), postTransition).utcOffset

FixedData(eastOfUtc) ==
    [localtimes |-> <<addLocalTime(eastOfUtc, 0, 0)>>,
     transitions |-> <<>>, abbreviation |-> "name"]

(* ------------------- what a zone file says (RFC 8536) ------------------- *)
(* A zone: types, trans (pairs of a time and a type's index), version, and *)
(* the counts of indicators; the block of 32-bit times that comes first in *)
(* a version 2 file is v1, with a leap second of its own perhaps.  The     *)
(* TZ string at the end of a version 2 file goes on where trans ends: rule *)
(* lists what it announces, as pairs again.                                *)
Field(value, width) == [value |-> value, width |-> width]
Repeat(field, n) == [i \in 1 .. n |-> field]

Header(z, version) ==
    <<Field("TZif", 4), Field(version, 1), Field("reserved", 15),
      Field(z.isut, 4), Field(z.isstd, 4), Field(z.leap, 4),
      Field(Len(z.trans), 4), Field(Len(z.types), 4), Field(3, 4)>>

Times(z, time_size) == [i \in 1 .. Len(z.trans) |-> Field(z.trans[i][1], time_size)]
Indices(z) == [i \in 1 .. Len(z.trans) |-> Field(z.trans[i][2], 1)]
LocalTypes(z) ==
    [k \in 1 .. 3 * Len(z.types) |->
        LET t == z.types[(k + 2) \div 3]
        IN  CASE k % 3 = 1 -> Field(t.utcOffset, 4)
              [] k % 3 = 2 -> Field(t.isDst, 1)
              [] k % 3 = 0 -> Field(t.desigIdx, 1)]

Block(z, time_size) ==
    Times(z, time_size) \o Indices(z) \o LocalTypes(z) \o <<Field("name", 3)>>
        \o Repeat(Field("leap", time_size + 4), z.leap)
        \o Repeat(Field("std", 1), z.isstd) \o Repeat(Field("ut", 1), z.isut)

Fields(z) ==
    IF z.version = "1" THEN Header(z, "1") \o Block(z, 4)
    ELSE Header(z.v1, "2") \o Block(z.v1, 4) \o Header(z, "2") \o Block(z, 8)
             \o <<Field("TZ", 1)>>

(* The file: each field at its offset. *)
Written(z) ==
    LET f == Fields(z)
        offset[i \in 0 .. Len(f)] == IF i = 0 THEN 0 ELSE offset[i - 1] + f[i].width
        at(o) == f[CHOOSE i \in 1 .. Len(f) : offset[i - 1] = o]
    IN  [length |-> offset[Len(f)], at |-> [o \in {offset[i - 1] : i \in 1 .. Len(f)} |-> at(o)]]

(* What a TimeZone of the zone holds once it is made or loaded. *)
DataOf(z) ==
    IF "east" \in DOMAIN z
    THEN [localtimes |-> <<[utcOffset |-> z.east, isDst |-> 0, desigIdx |-> 0]>>,
          transitions |-> <<>>, abbreviation |-> "name"]
    ELSE [localtimes |-> z.types,
          transitions |-> [i \in 1 .. Len(z.trans) |->
              [utctime |-> z.trans[i][1],
               localtime |-> z.trans[i][1] + z.types[z.trans[i][2] + 1].utcOffset,
               localtimeIdx |-> z.trans[i][2]]],
          abbreviation |-> "name"]

OffsetsOf(z) ==
    IF "east" \in DOMAIN z THEN {z.east} ELSE {z.types[i].utcOffset : i \in 1 .. Len(z.types)}

IsBlock(b) ==
    /\ b.types \in Seq([utcOffset : Int, isDst : {0, 1}, desigIdx : Nat])
    /\ b.trans \in Seq(Int \X (0 .. Len(b.types) - 1))
    /\ {b.leap, b.isstd, b.isut} \subseteq Nat

(* The bytes that a file is read for: the indicators at its end, and the   *)
(* TZ string of a version 2 file, may be missing.                          *)
BytesRead(z) ==
    Written(z).length - (z.isstd + z.isut) - (IF z.version = "2" THEN 1 ELSE 0)

(* A file that the code loads, and of which local times can be searched:   *)
(* two transitions are further apart than any two offsets, so that the     *)
(* local times of the transitions are in order.                            *)
IsZoneFile(z) ==
    /\ IsBlock(z) /\ IsBlock(z.v1) /\ z.version \in {"1", "2"}
    /\ "east" \notin DOMAIN z /\ z.types # <<>>
    /\ z.leap = 0 /\ {z.isstd, z.isut} \subseteq {0, Len(z.types)}
    /\ z.rule \in Seq(Int \X (0 .. Len(z.types) - 1))
    /\ z.version = "1" => z.rule = <<>>
    /\ \A i \in 1 .. Len(z.trans) - 1 : \A o, p \in OffsetsOf(z) :
           z.trans[i + 1][1] - z.trans[i][1] > o - p
    /\ DataOf(z) # Invalid

ASSUME ZoneAssumption ==
    /\ \A z \in ZoneFiles : IsZoneFile(z)
    /\ \A z \in ZoneFiles \cup [east : EastOfUtc] :
           OffsetsOf(z) \subseteq -(2 * kSecondsPerDay) .. 2 * kSecondsPerDay   \* RFC 8536: -25 to 26 hours
    /\ MinYear > 2   \* local times have a year that is not negative

(* A zone keeps standard time before anything is known of it: the first    *)
(* type that is not daylight time, the FIXME's "first non dst time zone".  *)
StandardType(z) ==
    LET standard == {i \in 1 .. Len(z.types) : z.types[i].isDst = 0}
    IN  IF standard = {} THEN z.types[1]
        ELSE z.types[CHOOSE i \in standard : \A j \in standard : i <= j]

(* The offset in force at an instant: that of the last move before it, in  *)
(* the table or announced by the TZ string behind the table.               *)
OffsetAt(z, t) ==
    IF "east" \in DOMAIN z THEN z.east
    ELSE LET moves == z.trans \o z.rule
             before == {i \in 1 .. Len(moves) : moves[i][1] <= t}
         IN  IF before = {} THEN StandardType(z).utcOffset
             ELSE z.types[moves[Cardinality(before)][2] + 1].utcOffset

(* The instants for which the table of transitions is enough: not those    *)
(* before the first transition of a zone whose first type is daylight      *)
(* time, nor those from the first move of the TZ string on.                *)
BeforeTable(z, t) == z.trans = <<>> \/ t < z.trans[1][1]
AfterTable(z, t) == \E i \in 1 .. Len(z.rule) : z.rule[i][1] <= t
InTable(z, t) ==
    "east" \in DOMAIN z \/ (~AfterTable(z, t) /\ (BeforeTable(z, t) => z.types[1].isDst = 0))

(* -------------------------- the reference clock ------------------------- *)
IsLeap(y) == (y % 4 = 0 /\ y % 100 # 0) \/ y % 400 = 0
DaysIn(y, m) ==
    IF m = 2 THEN IF IsLeap(y) THEN 29 ELSE 28
    ELSE IF m \in {4, 6, 9, 11} THEN 30 ELSE 31

Later(dt) ==
    IF dt.second + 1 < SecondsPerMinute THEN [dt EXCEPT !.second = @ + 1]
    ELSE IF dt.minute + 1 < MinutesPerHour THEN [dt EXCEPT !.second = 0, !.minute = @ + 1]
    ELSE LET d == [dt EXCEPT !.second = 0, !.minute = 0, !.hour = 0] IN
         IF dt.hour + 1 < HoursPerDay THEN [d EXCEPT !.hour = dt.hour + 1]
         ELSE IF dt.day < DaysIn(dt.year, dt.month) THEN [d EXCEPT !.day = @ + 1]
         ELSE IF dt.month < 12 THEN [d EXCEPT !.day = 1, !.month = @ + 1]
         ELSE [d EXCEPT !.day = 1, !.month = 1, !.year = @ + 1]

Earlier(dt) ==
    IF dt.second > 0 THEN [dt EXCEPT !.second = @ - 1]
    ELSE LET s == SecondsPerMinute - 1  m == MinutesPerHour - 1  h == HoursPerDay - 1 IN
         IF dt.minute > 0 THEN [dt EXCEPT !.second = s, !.minute = @ - 1]
         ELSE LET d == [dt EXCEPT !.second = s, !.minute = m, !.hour = h] IN
              IF dt.hour > 0 THEN [d EXCEPT !.hour = dt.hour - 1]
              ELSE IF dt.day > 1 THEN [d EXCEPT !.day = @ - 1]
              ELSE LET y == IF dt.month = 1 THEN dt.year - 1 ELSE dt.year
                       mo == IF dt.month = 1 THEN 12 ELSE dt.month - 1
                   IN  [d EXCEPT !.day = DaysIn(y, mo), !.month = mo, !.year = y]

Shift(dt, n) ==
    LET f[i \in 0 .. (IF n < 0 THEN -n ELSE n)] ==
            IF i = 0 THEN dt ELSE IF n > 0 THEN Later(f[i - 1]) ELSE Earlier(f[i - 1])
    IN  f[IF n < 0 THEN -n ELSE n]

Midnight(dt) == dt.hour = 0 /\ dt.minute = 0 /\ dt.second = 0

(* -------------------------------- actions ------------------------------- *)
Init ==
    /\ zone \in ZoneFiles \cup [east : EastOfUtc]
    /\ data_ = NotLoaded
    /\ now = 0
    /\ utc = [year |-> 1970, month |-> 1, day |-> 1, hour |-> 0, minute |-> 0, second |-> 0]
    /\ weekday = 4

loadZoneFile(file) ==
    /\ data_ = NotLoaded /\ "east" \notin DOMAIN zone
    /\ data_' = readTimeZoneFile(file)
    /\ UNCHANGED <<zone, now, utc, weekday>>

(* The file may be missing, or have been cut short anywhere. *)
Found(cut) == IF cut < 0 THEN NoFile ELSE [Written(zone) EXCEPT !.length = cut]

MakeFixed ==
    /\ data_ = NotLoaded /\ "east" \in DOMAIN zone
    /\ data_' = FixedData(zone.east)
    /\ UNCHANGED <<zone, now, utc, weekday>>

Running == data_ \notin {NotLoaded, Invalid}
InBounds(t, y) ==
    /\ y \in MinYear .. MaxYear
    /\ "east" \in DOMAIN zone \/ t \in -Span .. Span

Tick ==
    /\ Running /\ now >= 0 /\ InBounds(now, utc.year)
    /\ now' = now + 1
    /\ utc' = Later(utc)
    /\ weekday' = IF Midnight(utc') THEN (weekday + 1) % 7 ELSE weekday
    /\ UNCHANGED <<zone, data_>>

TickBack ==
    /\ Running /\ now <= 0 /\ InBounds(now, utc.year)
    /\ now' = now - 1
    /\ utc' = Earlier(utc)
    /\ weekday' = IF Midnight(utc) THEN (weekday + 6) % 7 ELSE weekday
    /\ UNCHANGED <<zone, data_>>

Next ==
    \/ "east" \notin DOMAIN zone /\ \E cut \in -1 .. Written(zone).length : loadZoneFile(Found(cut))
    \/ MakeFixed \/ Tick \/ TickBack

Spec == Init /\ [][Next]_vars

(* ------------------------------ properties ------------------------------ *)
SortsBefore(s, t) == \E i \in DOMAIN s : s[i] < t[i] /\ \A j \in 1 .. i - 1 : s[j] = t[j]

DatesFollowClock ==
    /\ toUtcTime(now) = utc
    /\ fromUtcTime(utc) = now
    /\ LET date == Date(utc.year, utc.month, utc.day)
       IN  /\ weekDay(date) = weekday
           /\ year(date) = utc.year /\ month(date) = utc.month /\ day(date) = utc.day
           /\ DateOfTm(TmOf(utc)) = date /\ DateTimeOfTm(TmOf(utc)) = utc

TextsSortAsTimes ==
    LET later == toUtcTime(now + 1)
        date == Date(utc.year, utc.month, utc.day)
        itsDate == Date(later.year, later.month, later.day)
    IN  /\ SortsBefore(DateTimeToIsoString(utc), DateTimeToIsoString(later))
        /\ DateLess(date, itsDate) <=> SortsBefore(toIsoString(date), toIsoString(itsDate))
        /\ DateEqual(date, itsDate) <=> ~Midnight(later)

TimestampsFollowClock ==
    \A us \in 0 .. kMicroSecondsPerSecond - 1 :
        LET timestamp == NowTimestamp([tv_sec |-> now, tv_usec |-> us])
            next == addTime(timestamp, 1)
        IN  valid(timestamp) =>
               /\ TimestampEqual(timestamp, fromUnixTime(now, us))
               /\ secondsSinceEpoch(timestamp) = now /\ TimestampLess(timestamp, next)
               /\ timeDifference(next, timestamp) = 1
               /\ secondsSinceEpoch(next) = now + 1
               /\ toString(timestamp) = <<now, us>> /\ toFormattedString(timestamp) = <<utc, us>>

(* toUtcTime and fromUtcTime follow the Gregorian calendar both ways,      *)
(* before the epoch, over the ends of months and over the century years    *)
(* that are not leap years, and so does the day of the week.  A valid      *)
(* timestamp keeps its second, shows its date and its microseconds, and    *)
(* moves on with the clock.  ISO texts sort as the times they stand for.   *)
CalendarKept == DatesFollowClock /\ TextsSortAsTimes /\ TimestampsFollowClock

(* A zone file that is loaded gives the zone that was written, all of it,  *)
(* from the 64-bit block when there is one and whatever the counts of the  *)
(* block before it.  A file cut short anywhere in the bytes that are read  *)
(* for it is refused, by the read that meets the end of the file, and one  *)
(* that has all of them never is.                                          *)
LoadedAsWritten ==
    /\ Running => data_ = DataOf(zone)
    /\ ("east" \notin DOMAIN zone /\ data_ = NotLoaded) =>
           \A cut \in -1 .. Written(zone).length :
               readTimeZoneFile(Found(cut)) =
                   IF cut < BytesRead(zone) THEN Invalid ELSE DataOf(zone)

(* Within the table of transitions, the local time shown is UTC shifted by *)
(* the offset in force, from the very second of a transition on, across    *)
(* midnight and the ends of months.  Outside the table the code may show   *)
(* another offset, as findLocalTime says itself: before the first          *)
(* transition it "should be first non dst time zone", and after the last   *)
(* one "use TZ-env".                                                       *)
LocalTimeShown ==
    Running /\ InTable(zone, now) => toLocalTime(data_, now) = Shift(utc, OffsetAt(zone, now))

(* A local time shown once by the table leads back to its instant, one     *)
(* shown twice to the later or the earlier one as postTransition asks,     *)
(* when the transition between them is neither the first nor the last of   *)
(* the table.  At these two the code does not look at the other side and   *)
(* always takes the later one, whatever postTransition asks.               *)
LocalTimeLeadsBack ==
    LET local == now + OffsetAt(zone, now)
        near == {local - o : o \in OffsetsOf(zone)}
        shown == {t \in near : t + OffsetAt(zone, t) = local}
        first == CHOOSE t \in shown : \A s \in shown : t <= s
        last == CHOOSE t \in shown : \A s \in shown : s <= t
        inner == \E i \in 2 .. Len(zone.trans) - 1 : zone.trans[i][1] \in first + 1 .. last
    IN  Running /\ (\A t \in near : InTable(zone, t)) =>
        \A postTransition \in BOOLEAN :
            fromLocalTime(data_, toLocalTime(data_, now), postTransition) =
                IF first = last \/ (~postTransition /\ inner) THEN first ELSE last

(* A local time that a transition of the table skips is read with the      *)
(* offset before or after it as postTransition asks, so that it never      *)
(* leads further from the transition than the hour that was skipped; at    *)
(* the first transition with the offset before it, whatever postTransition *)
(* asks.                                                                   *)
SkippedTimesRead ==
    LET before == OffsetAt(zone, now - 1)
        after == OffsetAt(zone, now)
        first == now = zone.trans[1][1]
    IN  Running /\ InTable(zone, now - 1) /\ InTable(zone, now) =>
        \A local \in now + before .. now + after - 1 : \A postTransition \in BOOLEAN :
            fromLocalTime(data_, BreakTime(local), postTransition) =
                local - IF postTransition /\ ~first THEN after ELSE before

(* A local time within the table, shown once, shown twice or skipped, is   *)
(* resolved as these two say.                                              *)
LocalTimeResolved == LocalTimeLeadsBack /\ SkippedTimesRead
================================================================================
