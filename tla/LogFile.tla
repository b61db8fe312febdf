-------------------------------- MODULE LogFile --------------------------------
(***************************************************************************)
(* The files of a logger: what the log thread of module Logger does to them*)
(* (openLogger and Log4zFileHandler in 3rd/log/log4z.cpp).                 *)
(*                                                                         *)
(* A file is named after the minute of the record it is opened for, in     *)
(* local time, and an index.  A record opens another file when it is not   *)
(* of the 24 hours that begin at the midnight before the file was opened,  *)
(* or when the file has outgrown its limit.  A file is opened for          *)
(* appending: its name may be that of a file that exists.  With a reserve  *)
(* time, the paths that were opened are kept with the time of it, and the  *)
(* oldest ones are removed when there are many.                            *)
(*                                                                         *)
(* Time counts in seconds, from a midnight at which local time is standard *)
(* time.  A record here stands for a megabyte of them.                     *)
(***************************************************************************)
EXTENDS Integers, Sequences, FiniteSets, SequencesExt

CONSTANTS
  SecondsPerMinute, SecondsPerDay,  \* scaled down
  Summer,         \* the times at which summer time is in force (tm_isdst)
  Shift,          \* how far summer time puts the clock forward
  MaxIndex,       \* the largest index with the digits of %03u (999)
  MaxTime,        \* bound on the clock
  MaxLag,         \* how much older than the clock a record may be when it is handled
  MaxRecords,     \* bound on the records
  MaxFaults,      \* bound on failures of the file system and on changes of the logger
  Limits,         \* values of _limitsize, in megabytes
  Reserves,       \* values of _logReserveTime
  ForceReserve,   \* LOG4Z_FORCE_RESERVE_FILE_COUNT (7 in the code)
  NULL

ASSUME LogFileAssumption ==
  /\ SecondsPerMinute \in Nat \ {0} /\ SecondsPerDay \in Nat \ {0}
  /\ SecondsPerDay % SecondsPerMinute = 0
  /\ Summer \subseteq Nat /\ Shift \in Nat /\ MaxIndex \in Nat
  /\ MaxTime \in Nat /\ MaxLag \in Nat
  /\ MaxRecords \in Nat /\ MaxFaults \in Nat /\ ForceReserve \in Nat
  /\ Limits \subseteq Nat /\ Reserves \subseteq Nat
  /\ NULL \notin Int

VARIABLES
  now,         \* time(NULL)
  limitsize,   \* _limitsize
  reserve,     \* _logReserveTime
  outfile,     \* _outfile
  handle,      \* the path that _handle has open, or NULL
  createDay,   \* _curFileCreateDay: a midnight, or NULL before the first file
  index,       \* _curFileIndex
  writeLen,    \* _curWriteLen
  historyLogs, \* _historyLogs: the paths that were opened, with the time
  files,       \* the files that exist, by path: the times of the records in them
  opened,      \* how often each path has been opened
  last,        \* the time of the record handled last, how many there were, and whether in order
  faults       \* failures and changes so far

settings == <<limitsize, reserve>>
file     == <<handle, createDay, index, writeLen>>
fileVars == <<now, settings, outfile, file, historyLogs, files, opened, last, faults>>

\* localtime_r, in seconds: the clock of a wall, and the midnight and the minute before t on it.
Advance(t)   == IF t \in Summer THEN Shift ELSE 0
Local(t)    == t + Advance(t)
Midnight(t) == Local(t) - (Local(t) % SecondsPerDay)
Minute(t)   == Local(t) - (Local(t) % SecondsPerMinute)

\* mktime of the midnight before t.  tm_isdst is that of t, whatever it was at midnight:
\* the time that the clock would have shown 0:00 if it had been set as it is at t.
DayBegin(t) == Midnight(t) - Advance(t)

\* A path is the day, the minute and the index in its name.
Named(t, i) == [day |-> Midnight(t), minute |-> Minute(t), index |-> i]

Count(p) == IF p \in DOMAIN opened THEN opened[p] ELSE 0

Put(f, p, v) == [q \in DOMAIN f \cup {p} |-> IF q = p THEN v ELSE f[q]]

\* _limitsize * 1024 * 1024 as an unsigned int of 32 bits, in megabytes.
LimitMegabytes == limitsize % 4096

-----------------------------------------------------------------------------
(* openLogger *)

\* Mutation of SameDay: a record of an earlier day counts as one of the file's day.
NotLater(t) == createDay # NULL /\ t - createDay < SecondsPerDay

SameDay(t) == createDay # NULL /\ t >= createDay /\ t - createDay < SecondsPerDay

NeedChange == writeLen > LimitMegabytes

\* Mutation of NextIndex: the branches for a new day and for a full file swapped.
SwappedIndex(t) ==
  CASE ~SameDay(t)                -> index + 1
    [] SameDay(t) /\ NeedChange   -> 0
    [] SameDay(t) /\ ~NeedChange  -> index

\* The index, and whether the file that is open stays open.
NextIndex(t) ==
  CASE ~SameDay(t)                -> 0
    [] SameDay(t) /\ NeedChange   -> index + 1
    [] SameDay(t) /\ ~NeedChange  -> index

StaysOpen(t) == handle # NULL /\ SameDay(t) /\ ~NeedChange

\* How many of the oldest entries of the history are older than the reserve time.
Aged == {k \in 1 .. Len(historyLogs) : \A j \in 1 .. k : historyLogs[j].at < now - reserve}

\* Mutation of Removed: the age of the entries is not looked at.
RemovedAll == IF Len(historyLogs) > ForceReserve THEN Len(historyLogs) ELSE 0

\* The entries that a new file removes: all that are old, once there are many.
Removed == IF Len(historyLogs) > ForceReserve THEN Cardinality(Aged) ELSE 0

\* The history after a file at p has been opened.
HistoryAfter(p) ==
  LET kept == SubSeq(historyLogs, Removed + 1, Len(historyLogs))
  IN  IF kept = <<>> \/ Last(kept).path # p
      THEN Append(kept, [at |-> now, path |-> p])
      ELSE kept

\* Mutation of LengthOf: a file that is opened counts as empty.
Nothing(p) == 0

\* ftell at the end of what is there.
LengthOf(p) == IF p \in DOMAIN files THEN Len(files[p]) ELSE 0

\* The files that are left when p has been opened for appending.
FilesAfter(p) ==
  LET gone == IF reserve > 0 THEN {historyLogs[k].path : k \in 1 .. Removed} ELSE {}
      all  == Put(files, p, IF p \in DOMAIN files THEN files[p] ELSE <<>>)
  IN  [q \in DOMAIN all \ gone |-> all[q]]

\* The record is written to what h has open, if that is still a file; a write that
\* fails closes the file, and is counted all the same.
WriteRecord(fs, h, t, ok) ==
  IF ok /\ h \in DOMAIN fs THEN [fs EXCEPT ![h] = Append(@, t)] ELSE fs

-----------------------------------------------------------------------------
(* The log thread handles a record of time t *)

Fault(ok) == faults' = (IF ok THEN faults ELSE faults + 1) /\ (ok \/ faults < MaxFaults)

\* Into the file that is open.
WriteOn(t, ok) ==
  /\ outfile /\ StaysOpen(t)
  /\ Fault(ok)
  /\ files' = WriteRecord(files, handle, t, ok)
  /\ handle' = IF ok THEN handle ELSE NULL
  /\ writeLen' = writeLen + 1
  /\ UNCHANGED <<createDay, index, outfile, historyLogs, opened>>

\* Into a file that is opened for it.
WriteNew(t, ok) ==
  LET p == Named(t, NextIndex(t))
  IN  /\ outfile /\ ~StaysOpen(t)
      /\ Fault(ok)
      /\ createDay' = DayBegin(t) /\ index' = NextIndex(t)
      /\ historyLogs' = IF reserve > 0 THEN HistoryAfter(p) ELSE historyLogs
      /\ files' = WriteRecord(FilesAfter(p), p, t, ok)
      /\ opened' = Put(opened, p, Count(p) + 1)
      /\ handle' = IF ok THEN p ELSE NULL
      /\ writeLen' = LengthOf(p) + 1
      /\ UNCHANGED outfile

\* The file cannot be opened: the logger writes to no file from then on.
OpenFails(t) ==
  /\ outfile /\ ~StaysOpen(t)
  /\ Fault(FALSE)
  /\ createDay' = DayBegin(t) /\ index' = NextIndex(t)
  /\ handle' = NULL /\ writeLen' = 0
  /\ outfile' = FALSE
  /\ UNCHANGED <<historyLogs, files, opened>>

\* In order, and the clock has not been put back since the record before.
Follows(t) == t >= last.time /\ Advance(t) >= Advance(last.time)

HandleRecord(t) ==
  /\ last.count < MaxRecords
  /\ last' = [time |-> t, count |-> last.count + 1, inOrder |-> last.inOrder /\ Follows(t)]
  /\ \/ \E ok \in BOOLEAN : WriteOn(t, ok) \/ WriteNew(t, ok)
     \/ OpenFails(t)
  /\ UNCHANGED <<now, settings>>

\* A change of the logger closes its file; one of them is setLoggerOutFile.
ChangeLogger(on) ==
  /\ Fault(FALSE)
  /\ handle' = NULL /\ outfile' = on
  /\ UNCHANGED <<now, settings, createDay, index, writeLen, historyLogs, files, opened, last>>

Tick ==
  /\ now < MaxTime /\ now' = now + 1
  /\ UNCHANGED <<settings, outfile, file, historyLogs, files, opened, last, faults>>

FileInit ==
  /\ now = 0
  /\ limitsize \in Limits /\ reserve \in Reserves
  /\ outfile = TRUE
  /\ handle = NULL /\ createDay = NULL /\ index = 0 /\ writeLen = 0
  /\ historyLogs = <<>> /\ files = <<>> /\ opened = <<>>
  /\ last = [time |-> 0, count |-> 0, inOrder |-> TRUE]
  /\ faults = 0

FileNext ==
  \/ \E t \in now - MaxLag .. now : t >= 0 /\ HandleRecord(t)
  \/ \E on \in BOOLEAN : ChangeLogger(on)
  \/ Tick
-----------------------------------------------------------------------------
(* Properties *)

\* t is of the day in the name p, by a clock that is set as it is at some time.
OfDay(p, t) == \E o \in {0, Shift} : t + o \in p.day .. p.day + SecondsPerDay - 1

\* A file holds records of one day, the day in its name, also when records of two
\* threads come out of order around midnight.  Where the clock is put forward after the
\* file was opened, the file goes on for that much longer than the day of the calendar.
OneDay == \A p \in DOMAIN files : \A t \in ToSet(files[p]) : OfDay(p, t)

\* A file outgrows the limit by one record each time that it is opened, no more.
SizeBound == \A p \in DOMAIN files : Len(files[p]) <= LimitMegabytes + opened[p]

\* The file that is open is removed under the log thread's hands only if it was opened
\* under its name before, and the reserve time is shorter than a name can last: the
\* minute in it, the hour by which the clock is put back, and the age of a record.
OpenFileKept ==
  handle # NULL /\ handle \notin DOMAIN files =>
    opened[handle] > 1 /\ reserve < MaxLag + Shift + SecondsPerMinute - 1

\* The order of the texts of two indices: a fourth digit comes after the first three.
IndexBefore(i, j) ==
  \/ i <= j /\ ((i <= MaxIndex /\ j <= MaxIndex) \/ (i > MaxIndex /\ j > MaxIndex))
  \/ i <= MaxIndex /\ j > MaxIndex /\ i <= j \div 10
  \/ i > MaxIndex /\ j <= MaxIndex /\ i \div 10 < j

\* The order of the texts of two names.
Before(p, q) == p.minute < q.minute \/ (p.minute = q.minute /\ IndexBefore(p.index, q.index))

\* Handled in order, by the clock and by local time, each record goes to the last of
\* the files in the order of their names, as long as the index has three digits:
\* reading the files by name reads the records in order.
NamesAscend ==
  last.inOrder /\ handle # NULL /\ (handle.index <= MaxIndex) =>
    \A p \in DOMAIN files : Before(p, handle)

\* The files of one logger on their own.
FileSpec == FileInit /\ [][FileNext]_fileVars
=============================================================================
