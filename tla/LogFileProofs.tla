----------------------------- MODULE LogFileProofs -----------------------------
(***************************************************************************)
(* Theorems about LogFile, for any limits, reserve times, lags and         *)
(* failures, and however many files and records.                           *)
(***************************************************************************)
EXTENDS LogFile, SequenceTheorems, FiniteSetTheorems, TLAPS

\* The clock and the limit are numbers; a file holds times and has been opened.
FileTypes ==
  /\ now \in Nat /\ limitsize \in Nat /\ writeLen \in Nat
  /\ \A p \in DOMAIN files : files[p] \in Seq(Nat) /\ p \in DOMAIN opened
  /\ \A p \in DOMAIN opened : opened[p] \in Nat \ {0}

\* What the program remembers of the file that is open agrees with the file.
OpenFile ==
  handle # NULL =>
    /\ createDay \in Int /\ handle.day \in Int
    /\ \E o \in {0, Shift} : handle.day = createDay + o
    /\ handle \in DOMAIN files => Len(files[handle]) <= writeLen

\* OneDay by positions.
Days == \A p \in DOMAIN files : \A i \in 1 .. Len(files[p]) : OfDay(p, files[p][i])

FileInvariant == FileTypes /\ OpenFile /\ Days /\ SizeBound

\* Local time is a number, at most a day after its midnight and a minute after its minute.
LEMMA TimeFact ==
  \A t \in Nat :
    /\ Advance(t) \in {0, Shift} /\ Advance(t) \in Nat /\ Local(t) \in Nat /\ Local(t) = t + Advance(t)
    /\ Midnight(t) \in Int /\ Midnight(t) <= Local(t) /\ Local(t) < Midnight(t) + SecondsPerDay
    /\ Minute(t) \in Int /\ Minute(t) <= Local(t) /\ Local(t) < Minute(t) + SecondsPerMinute
    /\ DayBegin(t) \in Int /\ Midnight(t) = DayBegin(t) + Advance(t) /\ DayBegin(t) <= t
<1> SUFFICES ASSUME NEW t \in Nat
             PROVE  /\ Advance(t) \in {0, Shift} /\ Advance(t) \in Nat /\ Local(t) \in Nat /\ Local(t) = t + Advance(t)
                    /\ Midnight(t) \in Int /\ Midnight(t) <= Local(t) /\ Local(t) < Midnight(t) + SecondsPerDay
                    /\ Minute(t) \in Int /\ Minute(t) <= Local(t) /\ Local(t) < Minute(t) + SecondsPerMinute
                    /\ DayBegin(t) \in Int /\ Midnight(t) = DayBegin(t) + Advance(t) /\ DayBegin(t) <= t
  OBVIOUS
<1>1. Advance(t) \in {0, Shift} /\ Advance(t) \in Nat
  BY LogFileAssumption DEF Advance
<1>2. PICK l \in Nat : l = Local(t) /\ l = t + Advance(t)
  BY <1>1 DEF Local
<1>3. ASSUME NEW d \in Nat \ {0} PROVE l % d \in 0 .. d - 1
  OBVIOUS
<1>4. l % SecondsPerDay \in 0 .. SecondsPerDay - 1 /\ l % SecondsPerMinute \in 0 .. SecondsPerMinute - 1
  BY <1>3, LogFileAssumption
<1>5. /\ Midnight(t) \in Int /\ Midnight(t) <= l /\ l < Midnight(t) + SecondsPerDay
      /\ Minute(t) \in Int /\ Minute(t) <= l /\ l < Minute(t) + SecondsPerMinute
  BY <1>2, <1>4, LogFileAssumption DEF Midnight, Minute
<1>6. DayBegin(t) \in Int /\ Midnight(t) = DayBegin(t) + Advance(t) /\ DayBegin(t) <= t
  BY <1>1, <1>2, <1>5 DEF DayBegin
<1>7. QED BY <1>1, <1>2, <1>5, <1>6

\* A record that is of the same day as the file is of the day in the file's name.
LEMMA SameDayFact ==
  ASSUME OpenFile, handle # NULL, NEW t \in Nat, SameDay(t)
  PROVE  OfDay(handle, t)
<1>1. PICK o \in {0, Shift} : handle.day = createDay + o
  BY DEF OpenFile
<1>2. createDay \in Int /\ handle.day \in Int /\ o \in Int /\ SecondsPerDay \in Int
  BY <1>1, LogFileAssumption DEF OpenFile
<1>3. t >= createDay /\ t - createDay < SecondsPerDay
  BY DEF SameDay
<1>4. t + o \in handle.day .. handle.day + SecondsPerDay - 1
  BY <1>1, <1>2, <1>3
<1>5. QED BY <1>4 DEF OfDay

\* A record is of the day in the name of the file that is opened for it.
LEMMA NamedFact ==
  ASSUME NEW t \in Nat, NEW i
  PROVE  /\ OfDay(Named(t, i), t) /\ Named(t, i).day = Midnight(t)
         /\ Named(t, i).minute = Minute(t) /\ Named(t, i).index = i
<1>1. Named(t, i).day = Midnight(t) /\ Named(t, i).minute = Minute(t) /\ Named(t, i).index = i
  BY DEF Named
<1>2. t + Advance(t) \in Midnight(t) .. Midnight(t) + SecondsPerDay - 1
  BY TimeFact, LogFileAssumption
<1>3. QED BY <1>1, <1>2, TimeFact DEF OfDay

\* The limit in megabytes is a number.
LEMMA LimitFact == limitsize \in Nat => LimitMegabytes \in Nat
  BY DEF LimitMegabytes

\* A record goes to the end of a file of its day, and makes it one longer.
LEMMA WriteFact ==
  ASSUME NEW fs, NEW h, NEW t \in Nat, NEW ok,
         \A p \in DOMAIN fs : fs[p] \in Seq(Nat),
         \A p \in DOMAIN fs : \A i \in 1 .. Len(fs[p]) : OfDay(p, fs[p][i]),
         OfDay(h, t)
  PROVE  LET new == WriteRecord(fs, h, t, ok)
         IN  /\ DOMAIN new = DOMAIN fs
             /\ \A p \in DOMAIN fs :
                  /\ new[p] \in Seq(Nat)
                  /\ \A i \in 1 .. Len(new[p]) : OfDay(p, new[p][i])
                  /\ p # h => new[p] = fs[p]
                  /\ new[p] = fs[p] \/ Len(new[p]) = Len(fs[p]) + 1
                  /\ Len(new[p]) \in Nat /\ Len(fs[p]) \in Nat
<1> DEFINE new == WriteRecord(fs, h, t, ok)
<1>1. CASE ~(ok /\ h \in DOMAIN fs)
  BY <1>1, LenProperties DEF WriteRecord
<1>2. CASE ok /\ h \in DOMAIN fs
  <2>1. new = [fs EXCEPT ![h] = Append(@, t)]
    BY <1>2 DEF WriteRecord
  <2> HIDE DEF new
  <2>2. /\ DOMAIN new = DOMAIN fs
        /\ new[h] = Append(fs[h], t)
        /\ \A p \in DOMAIN fs : p # h => new[p] = fs[p]
    BY <1>2, <2>1
  <2>3. /\ new[h] \in Seq(Nat) /\ Len(fs[h]) \in Nat
        /\ Len(new[h]) = Len(fs[h]) + 1
        /\ \A i \in 1 .. Len(fs[h]) : new[h][i] = fs[h][i]
        /\ new[h][Len(fs[h]) + 1] = t
    BY <1>2, <2>2, AppendProperties, LenProperties
  <2>4. \A i \in 1 .. Len(new[h]) : OfDay(h, new[h][i])
    <3> SUFFICES ASSUME NEW i \in 1 .. Len(new[h]) PROVE OfDay(h, new[h][i])
      OBVIOUS
    <3>1. CASE i \in 1 .. Len(fs[h])
      BY <1>2, <2>3, <3>1
    <3>2. CASE i = Len(fs[h]) + 1
      BY <2>3, <3>2
    <3>3. QED BY <2>3, <3>1, <3>2
  <2>5. \A p \in DOMAIN fs : Len(fs[p]) \in Nat
    BY LenProperties
  <2>6. ASSUME NEW p \in DOMAIN fs
        PROVE  /\ new[p] \in Seq(Nat)
               /\ \A i \in 1 .. Len(new[p]) : OfDay(p, new[p][i])
               /\ p # h => new[p] = fs[p]
               /\ new[p] = fs[p] \/ Len(new[p]) = Len(fs[p]) + 1
               /\ Len(new[p]) \in Nat /\ Len(fs[p]) \in Nat
    <3>1. CASE p = h
      <4>1. new[p] \in Seq(Nat) /\ Len(fs[p]) \in Nat /\ Len(new[p]) = Len(fs[p]) + 1
        BY <2>3, <3>1
      <4>2. \A i \in 1 .. Len(new[p]) : OfDay(p, new[p][i])
        BY <2>4, <3>1
      <4>3. QED BY <3>1, <4>1, <4>2
    <3>2. CASE p # h
      <4>1. new[p] = fs[p]
        BY <2>2, <3>2
      <4>2. QED BY <2>5, <3>2, <4>1
    <3>3. QED BY <3>1, <3>2
  <2>7. QED BY <2>2, <2>6 DEF new
<1>3. QED BY <1>1, <1>2

\* Opening a file removes some files, may make one, and leaves the others alone.
LEMMA FilesAfterFact ==
  ASSUME NEW p, NEW q \in DOMAIN FilesAfter(p)
  PROVE  \/ q \in DOMAIN files /\ FilesAfter(p)[q] = files[q]
         \/ q = p /\ q \notin DOMAIN files /\ FilesAfter(p)[q] = <<>>
<1> DEFINE gone == IF reserve > 0 THEN {historyLogs[k].path : k \in 1 .. Removed} ELSE {}
           mine == IF p \in DOMAIN files THEN files[p] ELSE <<>>
           all  == Put(files, p, mine)
<1>1. FilesAfter(p) = [r \in DOMAIN all \ gone |-> all[r]]
  BY DEF FilesAfter
<1> HIDE DEF gone
<1>2. all = [r \in DOMAIN files \cup {p} |-> IF r = p THEN mine ELSE files[r]]
  BY DEF Put
<1> HIDE DEF all
<1>3. q \in DOMAIN all /\ FilesAfter(p)[q] = all[q]
  BY <1>1
<1>4. QED BY <1>2, <1>3

-----------------------------------------------------------------------------
(***************************************************************************)
(* The steps.                                                              *)
(***************************************************************************)

\* A record into the file that is open: one of its day, with room when it was tested.
LEMMA WriteOnKeeps ==
  ASSUME FileInvariant, NEW t \in Nat, NEW ok \in BOOLEAN, WriteOn(t, ok), UNCHANGED <<now, settings>>
  PROVE  FileInvariant'
<1>1. /\ files' = WriteRecord(files, handle, t, ok)
      /\ handle' \in {handle, NULL}
      /\ writeLen' = writeLen + 1
      /\ UNCHANGED <<createDay, opened, now, limitsize>>
      /\ handle # NULL /\ SameDay(t) /\ ~(writeLen > LimitMegabytes)
  BY DEF WriteOn, StaysOpen, NeedChange, settings
<1>2. /\ OfDay(handle, t)
      /\ handle \in DOMAIN files => Len(files[handle]) <= writeLen
  BY <1>1, SameDayFact DEF FileInvariant, OpenFile
<1>3. /\ \A p \in DOMAIN files : files[p] \in Seq(Nat) /\ p \in DOMAIN opened
      /\ \A p \in DOMAIN opened : opened[p] \in Nat \ {0}
      /\ writeLen \in Nat /\ limitsize \in Nat /\ now \in Nat /\ LimitMegabytes \in Nat
  BY LimitFact DEF FileInvariant, FileTypes
<1>4. \A p \in DOMAIN files : \A i \in 1 .. Len(files[p]) : OfDay(p, files[p][i])
  BY DEF FileInvariant, Days
<1>5. /\ DOMAIN files' = DOMAIN files
      /\ \A p \in DOMAIN files :
           /\ files'[p] \in Seq(Nat)
           /\ \A i \in 1 .. Len(files'[p]) : OfDay(p, files'[p][i])
           /\ p # handle => files'[p] = files[p]
           /\ files'[p] = files[p] \/ Len(files'[p]) = Len(files[p]) + 1
           /\ Len(files'[p]) \in Nat /\ Len(files[p]) \in Nat
  BY <1>1, <1>2, <1>3, <1>4, WriteFact
<1>6. FileTypes'
  BY <1>1, <1>3, <1>5 DEF FileTypes
<1>7. OpenFile'
  <2> SUFFICES ASSUME handle' # NULL
               PROVE  /\ createDay' \in Int /\ handle'.day \in Int
                      /\ \E o \in {0, Shift} : handle'.day = createDay' + o
                      /\ handle' \in DOMAIN files' => Len(files'[handle']) <= writeLen'
    BY DEF OpenFile
  <2>1. handle' = handle
    BY <1>1
  <2>2. createDay \in Int /\ handle.day \in Int /\ \E o \in {0, Shift} : handle.day = createDay + o
    BY <1>1 DEF FileInvariant, OpenFile
  <2>3. handle' \in DOMAIN files' => Len(files'[handle']) <= writeLen'
    BY <1>1, <1>2, <1>3, <1>5, <2>1
  <2>4. QED BY <1>1, <2>1, <2>2, <2>3
<1>8. Days'
  BY <1>5 DEF Days
<1>9. SizeBound'
  <2> SUFFICES ASSUME NEW p \in DOMAIN files PROVE Len(files'[p]) <= LimitMegabytes + opened[p]
    BY <1>1, <1>5 DEF SizeBound, LimitMegabytes
  <2>1. opened[p] \in Nat \ {0} /\ Len(files[p]) <= LimitMegabytes + opened[p]
    BY <1>3 DEF FileInvariant, SizeBound
  <2>2. CASE p = handle
    <3>1. Len(files[p]) <= LimitMegabytes
      BY <1>1, <1>2, <1>3, <1>5, <2>2
    <3>2. QED BY <1>3, <1>5, <2>1, <3>1
  <2>3. CASE p # handle
    BY <1>5, <2>1, <2>3
  <2>4. QED BY <2>2, <2>3
<1>10. QED BY <1>6, <1>7, <1>8, <1>9 DEF FileInvariant

\* A record into a file that is opened for it: its name is of the record's day, and
\* it has been opened once more.
LEMMA WriteNewKeeps ==
  ASSUME FileInvariant, NEW t \in Nat, NEW ok \in BOOLEAN, WriteNew(t, ok), UNCHANGED <<now, settings>>
  PROVE  FileInvariant'
<1> DEFINE p  == Named(t, NextIndex(t))
           fs == FilesAfter(p)
<1>1. /\ files' = WriteRecord(fs, p, t, ok)
      /\ opened' = Put(opened, p, Count(p) + 1)
      /\ handle' \in {p, NULL}
      /\ writeLen' = LengthOf(p) + 1
      /\ createDay' = DayBegin(t)
      /\ UNCHANGED <<now, limitsize>>
  BY DEF WriteNew, settings
<1>2. OfDay(p, t) /\ p.day = Midnight(t)
  BY NamedFact
<1>3. \A q \in DOMAIN fs : \/ q \in DOMAIN files /\ fs[q] = files[q]
                           \/ q = p /\ q \notin DOMAIN files /\ fs[q] = <<>>
  BY FilesAfterFact
<1> HIDE DEF p, fs
<1>4. /\ \A q \in DOMAIN files : files[q] \in Seq(Nat) /\ q \in DOMAIN opened
      /\ \A q \in DOMAIN opened : opened[q] \in Nat \ {0}
      /\ limitsize \in Nat /\ now \in Nat /\ LimitMegabytes \in Nat
  BY LimitFact DEF FileInvariant, FileTypes
<1>5. \A q \in DOMAIN files : \A i \in 1 .. Len(files[q]) : OfDay(q, files[q][i])
  BY DEF FileInvariant, Days
<1>6. /\ \A q \in DOMAIN fs : fs[q] \in Seq(Nat)
      /\ \A q \in DOMAIN fs : \A i \in 1 .. Len(fs[q]) : OfDay(q, fs[q][i])
  <2>1. <<>> \in Seq(Nat) /\ 1 .. Len(<<>>) = {}
    OBVIOUS
  <2>2. QED BY <1>3, <1>4, <1>5, <2>1
<1>7. /\ DOMAIN files' = DOMAIN fs
      /\ \A q \in DOMAIN fs :
           /\ files'[q] \in Seq(Nat)
           /\ \A i \in 1 .. Len(files'[q]) : OfDay(q, files'[q][i])
           /\ q # p => files'[q] = fs[q]
           /\ files'[q] = fs[q] \/ Len(files'[q]) = Len(fs[q]) + 1
           /\ Len(files'[q]) \in Nat /\ Len(fs[q]) \in Nat
  BY <1>1, <1>2, <1>6, WriteFact
<1>8. /\ DOMAIN opened' = DOMAIN opened \cup {p}
      /\ \A q \in DOMAIN opened : q # p => opened'[q] = opened[q]
      /\ opened'[p] = IF p \in DOMAIN opened THEN opened[p] + 1 ELSE 1
  BY <1>1 DEF Put, Count
<1>9. \A q \in DOMAIN opened' : opened'[q] \in Nat \ {0}
  BY <1>4, <1>8
<1>10. LengthOf(p) \in Nat /\ (p \in DOMAIN fs => Len(fs[p]) = LengthOf(p))
  BY <1>3, <1>4, LenProperties DEF LengthOf
<1>11. FileTypes'
  BY <1>1, <1>3, <1>4, <1>7, <1>8, <1>9, <1>10 DEF FileTypes
<1>12. OpenFile'
  <2>1. DayBegin(t) \in Int /\ p.day \in Int /\ \E o \in {0, Shift} : p.day = DayBegin(t) + o
    BY <1>2, TimeFact
  <2>2. p \in DOMAIN files' => Len(files'[p]) <= writeLen'
    BY <1>1, <1>7, <1>10
  <2>3. QED BY <1>1, <2>1, <2>2 DEF OpenFile
<1>13. Days'
  BY <1>7 DEF Days
<1>14. SizeBound'
  <2> SUFFICES ASSUME NEW q \in DOMAIN fs PROVE Len(files'[q]) <= LimitMegabytes + opened'[q]
    BY <1>1, <1>7 DEF SizeBound, LimitMegabytes
  <2>1. q \in DOMAIN files => Len(files[q]) <= LimitMegabytes + opened[q]
    BY DEF FileInvariant, SizeBound
  <2>2. CASE q # p
    BY <1>3, <1>4, <1>7, <1>8, <2>1, <2>2
  <2>3. CASE q = p /\ q \in DOMAIN files
    <3>1. fs[q] = files[q] /\ q \in DOMAIN opened /\ opened'[q] = opened[q] + 1 /\ opened[q] \in Nat
      BY <1>3, <1>4, <1>8, <2>3
    <3>2. Len(files'[q]) <= Len(files[q]) + 1 /\ Len(files[q]) \in Nat /\ Len(files'[q]) \in Nat
      BY <1>7, <3>1
    <3>3. QED BY <1>4, <2>1, <2>3, <3>1, <3>2
  <2>4. CASE q = p /\ q \notin DOMAIN files
    <3>1. Len(fs[q]) = 0 /\ opened'[q] \in Nat \ {0}
      BY <1>3, <1>8, <1>9, <2>4
    <3>2. Len(files'[q]) <= 1
      BY <1>7, <3>1
    <3>3. QED BY <1>4, <1>7, <3>1, <3>2
  <2>5. QED BY <2>2, <2>3, <2>4
<1>15. QED BY <1>11, <1>12, <1>13, <1>14 DEF FileInvariant

\* FileInvariant is kept by every step.
LEMMA FileStep == FileInvariant /\ [FileNext]_fileVars => FileInvariant'
<1> SUFFICES ASSUME FileInvariant, [FileNext]_fileVars PROVE FileInvariant'
  OBVIOUS
<1>1. ASSUME NEW t \in now - MaxLag .. now, t >= 0, HandleRecord(t) PROVE FileInvariant'
  <2>1. t \in Nat /\ UNCHANGED <<now, settings>>
    BY <1>1, LogFileAssumption DEF HandleRecord, FileInvariant, FileTypes
  <2>2. CASE \E ok \in BOOLEAN : WriteOn(t, ok)
    BY <2>1, <2>2, WriteOnKeeps
  <2>3. CASE \E ok \in BOOLEAN : WriteNew(t, ok)
    BY <2>1, <2>3, WriteNewKeeps
  <2>4. CASE OpenFails(t)
    <3>1. handle' = NULL /\ writeLen' = 0 /\ UNCHANGED <<now, limitsize, files, opened>>
      BY <2>1, <2>4 DEF OpenFails, settings
    <3>2. QED
      BY <3>1 DEF FileInvariant, FileTypes, OpenFile, Days, SizeBound, LimitMegabytes
  <2>5. QED BY <1>1, <2>2, <2>3, <2>4 DEF HandleRecord
<1>2. ASSUME NEW on \in BOOLEAN, ChangeLogger(on) PROVE FileInvariant'
  BY <1>2
  DEF ChangeLogger, settings, FileInvariant, FileTypes, OpenFile, Days, SizeBound,
      LimitMegabytes
<1>3. CASE Tick
  BY <1>3
  DEF Tick, settings, file, FileInvariant, FileTypes, OpenFile, Days, SizeBound, LimitMegabytes
<1>4. CASE UNCHANGED fileVars
  BY <1>4
  DEF fileVars, settings, file, FileInvariant, FileTypes, OpenFile, Days, SizeBound,
      LimitMegabytes
<1>5. QED BY <1>1, <1>2, <1>3, <1>4 DEF FileNext

\* It holds before the first file.
LEMMA FileStart == FileInit => FileInvariant
<1> SUFFICES ASSUME FileInit PROVE FileInvariant
  OBVIOUS
<1>1. DOMAIN files = {} /\ DOMAIN opened = {}
  BY DEF FileInit
<1>2. now \in Nat /\ limitsize \in Nat /\ writeLen \in Nat /\ handle = NULL
  BY LogFileAssumption DEF FileInit
<1>3. QED BY <1>1, <1>2 DEF FileInvariant, FileTypes, OpenFile, Days, SizeBound

\* A file holds records of one day, that of its name, in whatever order the records
\* come, whatever fails, and whenever the clock is put forward or back.
THEOREM OneDayEach == FileSpec => []OneDay
<1>1. FileInvariant => OneDay
  <2> SUFFICES ASSUME FileInvariant, NEW p \in DOMAIN files, NEW t \in ToSet(files[p])
               PROVE  OfDay(p, t)
    BY DEF OneDay
  <2>1. files[p] \in Seq(Nat) /\ \A i \in 1 .. Len(files[p]) : OfDay(p, files[p][i])
    BY DEF FileInvariant, FileTypes, Days
  <2>2. PICK i \in 1 .. Len(files[p]) : t = files[p][i]
    BY <2>1 DEF ToSet
  <2>3. QED BY <2>1, <2>2
<1>2. QED BY <1>1, FileStart, FileStep, PTL DEF FileSpec

\* A file outgrows its limit by one record each time that it is opened, no more.
THEOREM SizeBounded == FileSpec => []SizeBound
<1>1. FileInvariant => SizeBound
  BY DEF FileInvariant
<1>2. QED BY <1>1, FileStart, FileStep, PTL DEF FileSpec

-----------------------------------------------------------------------------
(***************************************************************************)
(* The names of the files.                                                 *)
(***************************************************************************)

\* What a path is made of.
Paths == [day : Int, minute : Int, index : Nat]

\* Times and indices are numbers.
Names ==
  /\ index \in Nat /\ last.time \in Nat /\ now \in Nat
  /\ DOMAIN files \subseteq Paths

\* The files there are come before a file that is named after u and the index now.
UpTo(u) ==
  \A p \in DOMAIN files : p.minute < Minute(u) \/ (p.minute = Minute(u) /\ p.index <= index)

\* The file was opened at u, before the record handled last, and is the last of the files.
OpenedAt(u) ==
  /\ createDay = DayBegin(u) /\ u <= last.time /\ Advance(u) <= Advance(last.time)
  /\ UpTo(u)
  /\ handle # NULL => handle.minute = Minute(u) /\ handle.index = index

\* Handled in order, the records have opened the files in the order of their names.
Ordered ==
  last.inOrder =>
    /\ createDay = NULL => DOMAIN files = {} /\ handle = NULL
    /\ createDay # NULL => \E u \in Nat : OpenedAt(u)

\* What is left of a number without its remainder is a multiple.
LEMMA RemainderFact ==
  ASSUME NEW l \in Nat, NEW m \in Nat \ {0}
  PROVE  \E e \in Int : l - (l % m) = m * e
<1>1. \E e \in Int, r \in 0 .. m - 1 : l = (m * e) + r /\ r = l % m
  OBVIOUS
<1>2. PICK e \in Int, r \in 0 .. m - 1 : l = (m * e) + r /\ r = l % m
  BY <1>1
<1>3. l - r = m * e
  BY <1>2
<1>4. l - (l % m) = m * e
  BY <1>2, <1>3
<1>5. QED BY <1>4

\* A minute begins no earlier than a day that begins before it: days are made of minutes.
LEMMA MultipleFact ==
  ASSUME NEW u \in Nat, NEW t \in Nat, Local(t) >= Midnight(u) + SecondsPerDay
  PROVE  Minute(t) >= Midnight(u) + SecondsPerDay
<1> PICK m \in Nat \ {0}, d \in Nat \ {0} : m = SecondsPerMinute /\ d = SecondsPerDay /\ d % m = 0
  BY LogFileAssumption
<1> PICK l \in Nat : l = Local(t)
  BY TimeFact
<1> PICK k \in Nat : k = Local(u)
  BY TimeFact
<1>1. PICK c \in Int : d = m * c
  <2>1. PICK c \in Int : d - (d % m) = m * c
    BY RemainderFact
  <2>2. d - 0 = m * c
    BY <2>1
  <2>3. QED BY <2>2
<1>2. PICK q \in Int : Midnight(u) = d * q
  <2>1. PICK q \in Int : k - (k % d) = d * q
    BY RemainderFact
  <2>2. Midnight(u) = d * q
    BY <2>1 DEF Midnight
  <2>3. QED BY <2>2
<1>3. PICK e \in Int : Minute(t) = m * e
  <2>1. PICK e \in Int : l - (l % m) = m * e
    BY RemainderFact
  <2>2. Minute(t) = m * e
    BY <2>1 DEF Minute
  <2>3. QED BY <2>2
<1>4. PICK n \in Int : n = c * (q + 1) /\ Midnight(u) + SecondsPerDay = m * n
  <2>1. d * q + d = d * (q + 1)
    BY <1>2
  <2>2. (m * c) * (q + 1) = m * (c * (q + 1))
    BY <1>1, <1>2
  <2>3. QED BY <1>1, <1>2, <2>1, <2>2
<1>5. l >= m * n /\ l < (m * e) + m
  BY <1>3, <1>4, TimeFact
<1>6. ASSUME n >= e + 1 PROVE FALSE
  <2>1. m * n >= m * (e + 1) /\ m * (e + 1) = (m * e) + m
    BY <1>6
  <2>2. QED BY <1>5, <2>1
<1>7. n <= e
  BY <1>6
<1>8. m * n <= m * e
  BY <1>7
<1>9. QED BY <1>3, <1>4, <1>8

\* Later by local time, a minute is not earlier.
LEMMA MinuteFact ==
  ASSUME NEW u \in Nat, NEW t \in Nat, Local(u) <= Local(t)
  PROVE  Minute(u) <= Minute(t)
<1> PICK m \in Nat \ {0} : m = SecondsPerMinute
  BY LogFileAssumption
<1> PICK l \in Nat, k \in Nat : l = Local(t) /\ k = Local(u)
  BY TimeFact
<1>1. PICK e \in Int : Minute(t) = m * e
  <2>1. PICK e \in Int : l - (l % m) = m * e
    BY RemainderFact
  <2>2. Minute(t) = m * e
    BY <2>1 DEF Minute
  <2>3. QED BY <2>2
<1>2. PICK f \in Int : Minute(u) = m * f
  <2>1. PICK f \in Int : k - (k % m) = m * f
    BY RemainderFact
  <2>2. Minute(u) = m * f
    BY <2>1 DEF Minute
  <2>3. QED BY <2>2
<1>3. m * f <= k /\ k <= l /\ l < (m * e) + m
  BY <1>1, <1>2, TimeFact
<1>4. ASSUME f >= e + 1 PROVE FALSE
  <2>1. m * f >= m * (e + 1) /\ m * (e + 1) = (m * e) + m
    BY <1>4
  <2>2. QED BY <1>3, <2>1
<1>5. f <= e
  BY <1>4
<1>6. QED BY <1>1, <1>2, <1>5

\* Writing a record makes and removes no file; opening one makes no other.
LEMMA DomainFact ==
  ASSUME NEW fs, NEW h, NEW t, NEW ok
  PROVE  DOMAIN WriteRecord(fs, h, t, ok) = DOMAIN fs
  BY DEF WriteRecord

\* The name of the next file does not come before those of the files there are.
LEMMA NextIndexFact ==
  ASSUME Names, Ordered, last.inOrder, NEW t \in Nat, Follows(t)
  PROVE  \A p \in DOMAIN files :
           p.minute < Minute(t) \/ (p.minute = Minute(t) /\ p.index <= NextIndex(t))
<1> SUFFICES ASSUME NEW p \in DOMAIN files
             PROVE  p.minute < Minute(t) \/ (p.minute = Minute(t) /\ p.index <= NextIndex(t))
  OBVIOUS
<1>1. p.minute \in Int /\ p.index \in Nat /\ index \in Nat /\ last.time \in Nat
  BY DEF Names, Paths
<1>2. createDay # NULL
  BY DEF Ordered
<1>3. PICK u \in Nat : OpenedAt(u)
  BY <1>2 DEF Ordered
<1>4. p.minute < Minute(u) \/ (p.minute = Minute(u) /\ p.index <= index)
  BY <1>3 DEF OpenedAt, UpTo
<1>5. u <= t /\ Advance(u) <= Advance(t)
  BY <1>1, <1>3, TimeFact DEF OpenedAt, Follows
<1>6. Local(u) <= Local(t)
  BY <1>5, TimeFact
<1>7. Minute(u) <= Minute(t) /\ Minute(u) \in Int /\ Minute(t) \in Int
  BY <1>6, MinuteFact, TimeFact
<1>8. CASE SameDay(t)
  <2>1. NextIndex(t) \in {index, index + 1}
    BY <1>8 DEF NextIndex
  <2>2. QED BY <1>1, <1>4, <1>7, <2>1
<1>9. CASE ~SameDay(t)
  <2>1. DayBegin(u) \in Int /\ DayBegin(u) <= u /\ Midnight(u) = DayBegin(u) + Advance(u)
    BY TimeFact
  <2>2. t - DayBegin(u) >= SecondsPerDay
    BY <1>2, <1>3, <1>5, <1>9, <2>1, LogFileAssumption DEF SameDay, OpenedAt
  <2>3. Local(t) >= Midnight(u) + SecondsPerDay
    BY <1>5, <2>1, <2>2, TimeFact, LogFileAssumption
  <2>4. Minute(t) >= Midnight(u) + SecondsPerDay
    BY <2>3, MultipleFact
  <2>5. Minute(u) < Midnight(u) + SecondsPerDay
    BY TimeFact, LogFileAssumption
  <2>6. Minute(u) < Minute(t)
    BY <1>7, <2>4, <2>5, TimeFact, LogFileAssumption
  <2>7. QED BY <1>1, <1>4, <1>7, <2>6
<1>10. QED BY <1>8, <1>9

\* The names are kept in order by every step.
LEMMA OrderedStep == Names /\ Ordered /\ [FileNext]_fileVars => Names' /\ Ordered'
<1> SUFFICES ASSUME Names, Ordered, [FileNext]_fileVars PROVE Names' /\ Ordered'
  OBVIOUS
<1>1. ASSUME NEW t \in now - MaxLag .. now, t >= 0, HandleRecord(t) PROVE Names' /\ Ordered'
  <2>1. /\ t \in Nat /\ now' = now /\ now \in Nat
        /\ last' = [time |-> t, count |-> last.count + 1, inOrder |-> last.inOrder /\ Follows(t)]
    BY <1>1, LogFileAssumption DEF HandleRecord, Names
  <2>2. /\ last'.time = t /\ last.time \in Nat /\ index \in Nat
        /\ last'.inOrder => last.inOrder /\ Follows(t)
    BY <2>1 DEF Names
  <2>3. DayBegin(t) \in Int /\ DayBegin(t) # NULL
    BY <2>1, TimeFact, LogFileAssumption
  <2>4. ASSUME NEW ok \in BOOLEAN, WriteOn(t, ok) PROVE Names' /\ Ordered'
    <3>1. /\ DOMAIN files' = DOMAIN files /\ handle' \in {handle, NULL}
          /\ UNCHANGED <<createDay, index>> /\ createDay # NULL
      BY <2>4, DomainFact DEF WriteOn, StaysOpen, SameDay
    <3>2. Names'
      BY <2>1, <2>2, <3>1 DEF Names
    <3>3. Ordered'
      <4> SUFFICES ASSUME last'.inOrder PROVE \E u \in Nat : OpenedAt(u)'
        BY <3>1 DEF Ordered
      <4>1. PICK u \in Nat : OpenedAt(u)
        BY <2>2, <3>1 DEF Ordered
      <4>2. u <= t /\ Advance(u) <= Advance(t)
        BY <2>1, <2>2, <4>1, TimeFact DEF OpenedAt, Follows
      <4>3. OpenedAt(u)'
        BY <2>2, <3>1, <4>1, <4>2 DEF OpenedAt, UpTo, DayBegin, Midnight, Minute, Local, Advance
      <4>4. QED BY <4>3
    <3>4. QED BY <3>2, <3>3
  <2>5. NextIndex(t) \in Nat
    BY <2>2 DEF NextIndex
  <2>6. ASSUME last'.inOrder
        PROVE  \A p \in DOMAIN files :
                 p.minute < Minute(t) \/ (p.minute = Minute(t) /\ p.index <= NextIndex(t))
    BY <2>1, <2>2, <2>6, NextIndexFact
  <2>7. Advance(t) <= Advance(t) /\ t <= t
    BY <2>1, TimeFact
  <2>8. ASSUME NEW ok \in BOOLEAN, WriteNew(t, ok) PROVE Names' /\ Ordered'
    <3> DEFINE p == Named(t, NextIndex(t))
    <3>1. /\ files' = WriteRecord(FilesAfter(p), p, t, ok) /\ handle' \in {p, NULL}
          /\ createDay' = DayBegin(t) /\ index' = NextIndex(t)
      BY <2>8 DEF WriteNew
    <3>2. \A q \in DOMAIN files' : q \in DOMAIN files \/ q = p
      BY <3>1, DomainFact, FilesAfterFact
    <3>3. p \in Paths /\ p.minute = Minute(t) /\ p.index = NextIndex(t)
      BY <2>1, <2>5, TimeFact DEF Named, Paths
    <3> HIDE DEF p
    <3>4. Names'
      BY <2>1, <2>2, <2>5, <3>1, <3>2, <3>3 DEF Names
    <3>5. Ordered'
      <4> SUFFICES ASSUME last'.inOrder PROVE OpenedAt(t)'
        BY <2>1, <2>3, <3>1 DEF Ordered
      <4>1. ASSUME NEW q \in DOMAIN files'
            PROVE  q.minute < Minute(t) \/ (q.minute = Minute(t) /\ q.index <= NextIndex(t))
        BY <2>5, <2>6, <3>2, <3>3, <4>1
      <4>2. UpTo(t)'
        BY <3>1, <4>1 DEF UpTo, Minute, Local, Advance
      <4>3. QED BY <2>2, <2>7, <3>1, <3>3, <4>2 DEF OpenedAt, DayBegin, Midnight, Minute, Local, Advance
    <3>6. QED BY <3>4, <3>5
  <2>9. CASE OpenFails(t)
    <3>1. handle' = NULL /\ createDay' = DayBegin(t) /\ index' = NextIndex(t) /\ files' = files
      BY <2>9 DEF OpenFails
    <3>2. Names'
      BY <2>1, <2>2, <2>5, <3>1 DEF Names
    <3>3. Ordered'
      <4> SUFFICES ASSUME last'.inOrder PROVE OpenedAt(t)'
        BY <2>1, <2>3, <3>1 DEF Ordered
      <4>1. UpTo(t)'
        BY <2>6, <3>1 DEF UpTo, Minute, Local, Advance
      <4>2. QED BY <2>2, <2>7, <3>1, <4>1 DEF OpenedAt, DayBegin, Midnight, Minute, Local, Advance
    <3>4. QED BY <3>2, <3>3
  <2>10. QED BY <1>1, <2>4, <2>8, <2>9 DEF HandleRecord
<1>2. ASSUME NEW on \in BOOLEAN, ChangeLogger(on) PROVE Names' /\ Ordered'
  BY <1>2 DEF ChangeLogger, Names, Ordered, OpenedAt, UpTo, DayBegin, Midnight, Minute, Local, Advance
<1>3. CASE Tick
  BY <1>3 DEF Tick, file, Names, Ordered, OpenedAt, UpTo, DayBegin, Midnight, Minute, Local, Advance
<1>4. CASE UNCHANGED fileVars
  BY <1>4
  DEF fileVars, file, Names, Ordered, OpenedAt, UpTo, DayBegin, Midnight, Minute, Local, Advance
<1>5. QED BY <1>1, <1>2, <1>3, <1>4 DEF FileNext

\* Handled in order, by the clock and by local time, each record goes to the last of the
\* files in the order of their names, whatever fails and whatever is removed, as long as
\* the index has three digits.
THEOREM NamesInOrder == FileSpec => []NamesAscend
<1>1. FileInit => Names /\ Ordered
  BY DEF FileInit, Names, Ordered
<1>2. Names /\ Ordered => NamesAscend
  <2> SUFFICES ASSUME Names, Ordered, last.inOrder, handle # NULL, handle.index <= MaxIndex,
                      NEW p \in DOMAIN files
               PROVE  Before(p, handle)
    BY DEF NamesAscend
  <2>1. PICK u \in Nat : OpenedAt(u)
    BY DEF Ordered
  <2>2. handle.minute = Minute(u) /\ handle.index = index /\ index \in Nat /\ p.index \in Nat
    BY <2>1 DEF OpenedAt, Names, Paths
  <2>3. CASE p.minute < handle.minute
    BY <2>3 DEF Before
  <2>4. CASE p.minute = handle.minute /\ p.index <= handle.index
    <3>1. p.index <= MaxIndex
      BY <2>2, <2>4, LogFileAssumption
    <3>2. IndexBefore(p.index, handle.index)
      BY <2>4, <3>1 DEF IndexBefore
    <3>3. QED BY <2>4, <3>2 DEF Before
  <2>5. QED BY <2>1, <2>2, <2>3, <2>4 DEF OpenedAt, UpTo
<1>3. QED BY <1>1, <1>2, OrderedStep, PTL DEF FileSpec

-----------------------------------------------------------------------------
(***************************************************************************)
(* The reserve time removes files from the front of the history.           *)
(***************************************************************************)

\* A path that was opened, with the time of it: the record it was opened for was there.
Openings == {h \in [at : Nat, path : Paths] : h.path.minute <= h.at + Shift}

\* The history tells when each file was opened, and the file that is open exists unless
\* it was opened before.
Kept ==
  /\ index \in Nat /\ now \in Nat /\ reserve \in Reserves
  /\ historyLogs \in Seq(Openings)
  /\ \A k \in 1 .. Len(historyLogs) : historyLogs[k].path \in DOMAIN opened
  /\ \A p \in DOMAIN opened : opened[p] \in Nat \ {0}
  /\ OpenFileKept

\* The entries that go, the first Removed of them, are all old enough.
LEMMA RemovedFact ==
  ASSUME historyLogs \in Seq(Openings)
  PROVE  /\ Removed \in 0 .. Len(historyLogs)
         /\ \A k \in 1 .. Removed : historyLogs[k].at < now - reserve
<1>1. PICK n \in Nat : n = Len(historyLogs)
  BY LenProperties
<1>2. Aged \subseteq 1 .. n
  BY <1>1 DEF Aged
<1>3. IsFiniteSet(Aged) /\ Cardinality(Aged) \in Nat /\ Cardinality(Aged) <= n
  <2>1. IsFiniteSet(1 .. n) /\ Cardinality(1 .. n) = n
    BY FS_Interval
  <2>2. QED BY <1>2, <2>1, FS_Subset, FS_CardinalityType
<1>4. ASSUME NEW k \in 1 .. Cardinality(Aged) PROVE historyLogs[k].at < now - reserve
  <2>1. CASE k \in Aged
    BY <1>3, <2>1 DEF Aged
  <2>2. CASE k \notin Aged
    <3>1. \A i \in Aged : i < k
      <4>0. \A i \in Aged : i \in Int
        BY <1>2
      <4> SUFFICES ASSUME NEW i \in Aged, i >= k PROVE FALSE
        BY <1>3, <4>0
      <4>1. \A j \in 1 .. i : historyLogs[j].at < now - reserve
        BY DEF Aged
      <4>2. k \in 1 .. n /\ i \in 1 .. n /\ \A j \in 1 .. k : j \in 1 .. i
        BY <1>2, <1>3
      <4>3. k \in Aged
        BY <1>1, <4>1, <4>2 DEF Aged
      <4>4. QED BY <2>2, <4>3
    <3>2. Aged \subseteq 1 .. k - 1
      <4> SUFFICES ASSUME NEW i \in Aged PROVE i \in 1 .. k - 1
        OBVIOUS
      <4>1. i \in 1 .. n /\ k \in Int /\ i < k
        BY <1>2, <1>3, <3>1
      <4>2. QED BY <4>1
    <3>3. IsFiniteSet(1 .. k - 1) /\ Cardinality(1 .. k - 1) = k - 1
      <4> PICK m \in Nat : m = k - 1
        BY <1>3
      <4>1. IsFiniteSet(1 .. m) /\ Cardinality(1 .. m) = m
        BY FS_Interval
      <4>2. QED BY <4>1
    <3>4. Cardinality(Aged) <= k - 1
      BY <3>2, <3>3, FS_Subset
    <3>5. QED BY <1>3, <3>4
  <2>3. QED BY <2>1, <2>2
<1>5. QED BY <1>1, <1>3, <1>4 DEF Removed

\* What is left of the history, and the file just opened.
LEMMA HistoryFact ==
  ASSUME historyLogs \in Seq(Openings), now \in Nat, NEW p \in Paths, p.minute <= now + Shift,
         NEW P, p \in P, \A k \in 1 .. Len(historyLogs) : historyLogs[k].path \in P
  PROVE  /\ HistoryAfter(p) \in Seq(Openings)
         /\ \A k \in 1 .. Len(HistoryAfter(p)) : HistoryAfter(p)[k].path \in P
<1> DEFINE O    == {h \in Openings : h.path \in P}
           kept == SubSeq(historyLogs, Removed + 1, Len(historyLogs))
           new  == [at |-> now, path |-> p]
<1>1. historyLogs \in Seq(O)
  <2>1. \A k \in 1 .. Len(historyLogs) : historyLogs[k] \in O
    BY ElementOfSeq
  <2>2. Len(historyLogs) \in Nat /\ historyLogs = [k \in 1 .. Len(historyLogs) |-> historyLogs[k]]
    BY LenProperties
  <2> HIDE DEF O
  <2>3. QED BY <2>1, <2>2, SeqDef
<1>2. new \in O
  BY DEF Openings
<1>3. ASSUME NEW s \in Seq(O)
      PROVE  s \in Seq(Openings) /\ \A k \in 1 .. Len(s) : s[k].path \in P
  <2>1. \A k \in 1 .. Len(s) : s[k] \in O
    BY ElementOfSeq
  <2>2. O \subseteq Openings
    OBVIOUS
  <2>3. s \in Seq(Openings)
    BY <2>2
  <2>4. QED BY <2>1, <2>3
<1> HIDE DEF O
<1>4. kept \in Seq(O)
  BY <1>1, RemovedFact, SubSeqProperties, LenProperties
<1> HIDE DEF kept, new
<1>5. Append(kept, new) \in Seq(O)
  BY <1>2, <1>4, AppendProperties
<1>6. HistoryAfter(p) = IF kept = <<>> \/ Last(kept).path # p THEN Append(kept, new) ELSE kept
  BY DEF HistoryAfter, kept, new
<1>7. HistoryAfter(p) \in Seq(O)
  BY <1>4, <1>5, <1>6
<1>8. QED BY <1>3, <1>7

\* A file that is opened for a record is removed only if it was opened before, and only
\* under a reserve time that is shorter than its name has lasted.
LEMMA OpenedStays ==
  ASSUME Kept, NEW t \in Nat, t <= now, now - MaxLag <= t,
         NEW p \in Paths, p.minute = Minute(t), p \notin DOMAIN FilesAfter(p)
  PROVE  p \in DOMAIN opened /\ reserve < MaxLag + Shift + SecondsPerMinute - 1
<1> DEFINE gone == IF reserve > 0 THEN {historyLogs[k].path : k \in 1 .. Removed} ELSE {}
           all  == Put(files, p, IF p \in DOMAIN files THEN files[p] ELSE <<>>)
<1>1. FilesAfter(p) = [q \in DOMAIN all \ gone |-> all[q]]
  BY DEF FilesAfter
<1>2. p \in DOMAIN all
  BY DEF Put
<1>3. p \in gone
  <2> HIDE DEF gone, all
  <2>1. QED BY <1>1, <1>2
<1>4. PICK k \in 1 .. Removed : historyLogs[k].path = p
  BY <1>3
<1>5. k \in 1 .. Len(historyLogs) /\ historyLogs[k] \in Openings /\ historyLogs[k].at < now - reserve
  <2>1. k \in 1 .. Len(historyLogs)
    BY RemovedFact, LenProperties DEF Kept
  <2>2. QED BY <2>1, RemovedFact, ElementOfSeq DEF Kept
<1>6. historyLogs[k].at \in Nat /\ Minute(t) <= historyLogs[k].at + Shift
  BY <1>4, <1>5 DEF Openings
<1>7. Minute(t) \in Int /\ t < Minute(t) + SecondsPerMinute
  <2>1. /\ Minute(t) \in Int /\ Advance(t) \in Nat /\ Local(t) = t + Advance(t)
        /\ Local(t) < Minute(t) + SecondsPerMinute /\ SecondsPerMinute \in Nat
    BY TimeFact, LogFileAssumption
  <2>2. QED BY <2>1
<1>8. now \in Nat /\ reserve \in Nat /\ MaxLag \in Nat /\ Shift \in Nat /\ SecondsPerMinute \in Nat
  BY LogFileAssumption DEF Kept
<1>9. reserve < MaxLag + Shift + SecondsPerMinute - 1
  <2> PICK at \in Nat, m \in Int : at = historyLogs[k].at /\ m = Minute(t)
    BY <1>6, <1>7
  <2>1. at < now - reserve /\ m <= at + Shift /\ t < m + SecondsPerMinute
    BY <1>5, <1>6, <1>7
  <2>2. QED BY <1>8, <2>1
<1>10. QED BY <1>4, <1>5, <1>9 DEF Kept

\* Kept is kept by every step.
LEMMA KeptStep == Kept /\ [FileNext]_fileVars => Kept'
<1> SUFFICES ASSUME Kept, [FileNext]_fileVars PROVE Kept'
  OBVIOUS
<1>1. ASSUME NEW t \in now - MaxLag .. now, t >= 0, HandleRecord(t) PROVE Kept'
  <2>1. /\ t \in Nat /\ t <= now /\ now - MaxLag <= t /\ UNCHANGED <<now, reserve>>
        /\ now \in Nat /\ MaxLag \in Nat /\ reserve \in Nat /\ reserve \in Reserves
    BY <1>1, LogFileAssumption DEF HandleRecord, settings, Kept
  <2>2. ASSUME NEW ok \in BOOLEAN, WriteOn(t, ok) PROVE Kept'
    <3>1. DOMAIN files' = DOMAIN files /\ handle' \in {handle, NULL} /\ UNCHANGED <<index, historyLogs, opened>>
      BY <2>2, DomainFact DEF WriteOn
    <3>2. QED BY <2>1, <3>1 DEF Kept, OpenFileKept
  <2>3. NextIndex(t) \in Nat
    BY DEF NextIndex, Kept
  <2>4. ASSUME NEW ok \in BOOLEAN, WriteNew(t, ok) PROVE Kept'
    <3> DEFINE p == Named(t, NextIndex(t))
    <3>1. /\ files' = WriteRecord(FilesAfter(p), p, t, ok) /\ handle' \in {p, NULL}
          /\ index' = NextIndex(t) /\ historyLogs' \in {historyLogs, HistoryAfter(p)}
          /\ opened' = Put(opened, p, Count(p) + 1)
      BY <2>4 DEF WriteNew
    <3>2. p \in Paths /\ p.minute = Minute(t)
      BY <2>1, <2>3, TimeFact DEF Named, Paths
    <3> HIDE DEF p
    <3>3. /\ DOMAIN opened' = DOMAIN opened \cup {p}
          /\ \A q \in DOMAIN opened : q # p => opened'[q] = opened[q]
          /\ opened'[p] = IF p \in DOMAIN opened THEN opened[p] + 1 ELSE 1
      BY <3>1 DEF Put, Count
    <3>4. \A q \in DOMAIN opened : opened[q] \in Nat \ {0}
      BY DEF Kept
    <3>5. \A q \in DOMAIN opened' : opened'[q] \in Nat \ {0}
      BY <3>3, <3>4
    <3>6. p.minute <= now + Shift
      <4>1. /\ Minute(t) \in Int /\ Advance(t) \in {0, Shift} /\ Local(t) = t + Advance(t)
            /\ Minute(t) <= Local(t) /\ Shift \in Nat
        BY <2>1, TimeFact, LogFileAssumption
      <4>2. QED BY <2>1, <3>2, <4>1
    <3>7. historyLogs' \in Seq(Openings) /\ \A k \in 1 .. Len(historyLogs') : historyLogs'[k].path \in DOMAIN opened'
      <4>1. \A k \in 1 .. Len(historyLogs) : historyLogs[k].path \in DOMAIN opened'
        BY <3>3 DEF Kept
      <4>2. historyLogs \in Seq(Openings) /\ p \in DOMAIN opened'
        BY <3>3 DEF Kept
      <4>3. /\ HistoryAfter(p) \in Seq(Openings)
            /\ \A k \in 1 .. Len(HistoryAfter(p)) : HistoryAfter(p)[k].path \in DOMAIN opened'
        BY <2>1, <3>2, <3>6, <4>1, <4>2, HistoryFact
      <4>4. QED BY <3>1, <4>1, <4>2, <4>3
    <3>8. OpenFileKept'
      <4> SUFFICES ASSUME handle' # NULL, handle' \notin DOMAIN files'
                   PROVE  opened'[p] > 1 /\ reserve < MaxLag + Shift + SecondsPerMinute - 1
        BY <2>1, <3>1 DEF OpenFileKept
      <4>1. p \notin DOMAIN FilesAfter(p)
        BY <3>1, DomainFact
      <4>2. p \in DOMAIN opened /\ reserve < MaxLag + Shift + SecondsPerMinute - 1
        BY <2>1, <3>2, <4>1, OpenedStays
      <4>3. QED BY <3>3, <3>4, <4>2
    <3>9. QED BY <2>1, <2>3, <3>1, <3>5, <3>7, <3>8 DEF Kept
  <2>5. CASE OpenFails(t)
    BY <2>1, <2>3, <2>5 DEF OpenFails, Kept, OpenFileKept
  <2>6. QED BY <1>1, <2>2, <2>4, <2>5 DEF HandleRecord
<1>2. ASSUME NEW on \in BOOLEAN, ChangeLogger(on) PROVE Kept'
  BY <1>2 DEF ChangeLogger, settings, Kept, OpenFileKept
<1>3. CASE Tick
  BY <1>3 DEF Tick, file, settings, Kept, OpenFileKept
<1>4. CASE UNCHANGED fileVars
  BY <1>4 DEF fileVars, file, settings, Kept, OpenFileKept
<1>5. QED BY <1>1, <1>2, <1>3, <1>4 DEF FileNext

\* The file that is open is removed only if it was opened under its name before, under a
\* reserve time that is shorter than a name can last.
THEOREM OpenFileStays == FileSpec => []OpenFileKept
<1>1. FileInit => Kept
  BY LogFileAssumption DEF FileInit, Kept, OpenFileKept
<1>2. Kept => OpenFileKept
  BY DEF Kept
<1>3. QED BY <1>1, <1>2, KeptStep, PTL DEF FileSpec
=============================================================================
