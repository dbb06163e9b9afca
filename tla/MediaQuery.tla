-------------------------------- MODULE MediaQuery --------------------------------
(* media_query (recorder/media_query.cpp): how viewers find recordings in the date   *)
(* and hour folders below the record path, or in the flat folder of the timelapses.   *)
(*                                                                                   *)
(* A recording is a number, in the order in which they were made; its hour and date  *)
(* follow from it.  It takes two units of time, is named after the first and last     *)
(* written in the second.  The archive says which recordings are left, and which hour *)
(* and date folders, since deletions leave holes.                                     *)
EXTENDS Naturals, Sequences, FiniteSets

CONSTANTS
  PerHour, HoursPerDate, Dates,  \* recordings in an hour, hours in a date, dates
  Requested,   \* request_num
  MaxFolders,  \* max_searching_folder
  MaxKept      \* bound: recordings that are left

ASSUME QueryAssumption ==
  /\ {PerHour, HoursPerDate, Dates, Requested, MaxFolders, MaxKept} \subseteq Nat \ {0}
  /\ MaxFolders > 1

Hours == 0..(Dates * HoursPerDate - 1)
Recordings == 0..(Dates * HoursPerDate * PerHour - 1)
HourOf(r) == r \div PerHour
DateOf(h) == h \div HoursPerDate

Times == 0..(2 * Dates * HoursPerDate * PerHour - 1)
RecordingAt(time) == time \div 2
Written(r) == 2 * r + 1    \* last_write_time

VARIABLES
  kept,    \* recordings that are left
  hours,   \* hour folders
  dates,   \* date folders; none if the archive is flat
  query,   \* [type, arg]: arg is a recording or a time
  answer   \* recordings in the order they are sent, or <<>>

queryVars == <<kept, hours, dates, query, answer>>

-------------------------------------------------------------------------------

Flat == dates = {}
FilesOf(h) == IF Flat THEN kept ELSE {r \in kept : HourOf(r) = h}

\* Variant: a file is older than itself.
NotNewer(s, limit) == {r \in s : Written(r) <= limit}

OlderThan(s, limit) == {r \in s : Written(r) < limit}
Largest(s) == CHOOSE x \in s : \A y \in s : x >= y
NewestFirst(s) == [i \in 1..Cardinality(s) |-> CHOOSE x \in s : Cardinality({y \in s : y > x}) = i - 1]
Limited(s, n) == IF Len(s) > n THEN SubSeq(s, 1, n) ELSE s
HoursOf(d) == {h \in hours : DateOf(h) = d}

\* Variant: the walk stays on one date.
PreviousHourSameDate(h) ==
  LET same == {x \in HoursOf(DateOf(h)) : x < h}
  IN IF same # {} THEN {Largest(same)} ELSE {}

\* The folder searched after hour h, if any: the latest hour before it on its date, or
\* else the latest hour of the date before, if there is such a date.
PreviousHour(h) ==
  LET same == {x \in HoursOf(DateOf(h)) : x < h}
      before == IF DateOf(h) = 0 THEN {} ELSE HoursOf(DateOf(h) - 1)
  IN IF same # {} THEN {Largest(same)}
     ELSE IF before # {} THEN {Largest(before)} ELSE {}

\* FindOlderFiles from the folder of hour h on, with n files to find.
OlderFrom(limit) ==
  LET older[h \in Hours] == [n \in 0..Requested |->
        LET here == Limited(NewestFirst(OlderThan(FilesOf(h), limit)), n)
            next == PreviousHour(h)
        IN IF n = 0 THEN <<>>
           ELSE IF Len(here) = n \/ next = {} THEN here
           ELSE here \o older[Largest(next)][n - Len(here)]]
  IN older

FindOlderFiles(file) ==
  IF file \in kept THEN OlderFrom(Written(file))[HourOf(file)][Requested] ELSE <<>>

\* FindFilesFromDatetime, with n folders left to search.
BeforeFrom(limit) ==
  LET before[h \in Hours] == [n \in 0..MaxFolders |->
        LET here == OlderThan(FilesOf(h), limit)
            next == PreviousHour(h)
        IN IF n = 0 THEN <<>>
           ELSE IF here # {} THEN <<Largest(here)>>
           ELSE IF next = {} THEN <<>>
           ELSE before[Largest(next)][n - 1]]
  IN before

FindFilesFromDatetime(time) == BeforeFrom(time)[HourOf(RecordingAt(time))][MaxFolders]

\* FindLatestCompleteFile: the newest file may still be recorded, so the second is sent.
\* It is looked for in the latest folder, the one before on that date, and the latest
\* one of the date before.  In a flat archive every file is complete.
FindLatestCompleteFile ==
  IF Flat THEN Limited(NewestFirst(kept), 1)
  ELSE LET d == Largest(dates)
           h == Largest(HoursOf(d))
           same == {x \in HoursOf(d) : x < h}
           day == IF d = 0 THEN {} ELSE HoursOf(d - 1)
           first == FilesOf(h)
           second == IF Cardinality(first) < 2 /\ same # {}
                     THEN first \cup FilesOf(Largest(same)) ELSE first
           found == IF Cardinality(second) < 2 /\ day # {}
                    THEN second \cup FilesOf(Largest(day)) ELSE second
       IN IF Cardinality(found) < 2 THEN <<>> ELSE <<NewestFirst(found)[2]>>

-------------------------------------------------------------------------------

\* No folder is empty: rotation removes the ones it empties.
Archive(fs) ==
  /\ kept = fs
  /\ \/ hours = {HourOf(r) : r \in fs} /\ dates = {DateOf(h) : h \in hours}
     \/ hours = {} /\ dates = {}

QueryInit ==
  /\ \E fs \in SUBSET Recordings : Cardinality(fs) <= MaxKept /\ Archive(fs)
  /\ query = [type |-> "none", arg |-> 0]
  /\ answer = <<>>

Ask(type, arg, found) ==
  /\ query.type = "none"
  /\ query' = [type |-> type, arg |-> arg]
  /\ answer' = found
  /\ UNCHANGED <<kept, hours, dates>>

\* QueryFile of the conductor.
LatestFile == Ask("latest", 0, FindLatestCompleteFile)
BeforeFile == \E r \in Recordings : Ask("before_file", r, FindOlderFiles(r))
BeforeTime == \E t \in Times : Ask("before_time", t, FindFilesFromDatetime(t))

QueryNext == LatestFile \/ BeforeFile \/ BeforeTime
QuerySpec == QueryInit /\ [][QueryNext]_queryVars

-------------------------------------------------------------------------------
(* Properties. *)

Newest(s, n) == Limited(NewestFirst(s), n)
NoDateMissing == \A x, y \in dates : x..y \subseteq dates
DateAsked == DateOf(HourOf(RecordingAt(query.arg)))

\* "Up to 8 files older than that one" (docs/recording/README.md): the newest of them,
\* newest first, whichever folders they are in.  The walk ends at a date that is missing.
OlderFilesComplete ==
  NoDateMissing /\ query.type = "before_file" /\ query.arg \in kept =>
    answer = Newest({r \in kept : r < query.arg}, Requested)

\* "The file at that time, or the one before it" (docs/recording/README.md, BEFORE_TIME).
FileAtTime == query.type = "before_time" /\ RecordingAt(query.arg) \in kept => answer = <<RecordingAt(query.arg)>>

\* What FindFilesFromDatetime looks for, the newest recording written before the time, it
\* finds whichever folders it is in, when there are recordings of that date and no date is
\* missing.  That is never the file at that time.
TimeFindsComplete ==
  NoDateMissing /\ query.type = "before_time" /\ (Flat \/ DateAsked \in dates) =>
    answer = Newest({r \in kept : Written(r) < query.arg}, 1)

\* "The newest complete file" (docs/recording/README.md): the one before the file that may
\* still be written, wherever the two are.
LatestIsComplete ==
  NoDateMissing /\ query.type = "latest" /\ ~Flat =>
    answer = IF Cardinality(kept) < 2 THEN <<>> ELSE <<NewestFirst(kept)[2]>>

\* The three queries (Conductor::QueryFile) find what a search over all recordings would.
AnswersComplete == OlderFilesComplete /\ TimeFindsComplete /\ LatestIsComplete

\* Whatever dates are missing, what is sent exists, is older than what was asked for and
\* comes newest first, without repeats.
AnswersAreOlder ==
  /\ \A i \in 1..Len(answer) : answer[i] \in kept
  /\ \A i \in 1..(Len(answer) - 1) : answer[i] > answer[i + 1]
  /\ query.type = "before_file" => \A i \in 1..Len(answer) : answer[i] < query.arg
  /\ query.type = "before_time" => \A i \in 1..Len(answer) : Written(answer[i]) < query.arg
=============================================================================
