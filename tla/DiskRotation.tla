------------------------------- MODULE DiskRotation -------------------------------
(* The rotation threads of the RecorderManagers (recorder_manager.cpp): while too     *)
(* little space is free, RotateFiles deletes from a recorder's record path, where the  *)
(* recorder goes on making files.  main.cpp starts a background recorder, an on-demand *)
(* one or both; the on-demand path is on-demand/ in the other's (parser.cpp), and users *)
(* keep videos in timelapse/.  RotateFiles looks and removes without a lock, so each   *)
(* look and each removal is a step.                                                    *)
(*                                                                                     *)
(* A folder is the sequence of names that leads to it from the background recorder's   *)
(* path; names are numbers in the order of the names they stand for, digits before     *)
(* letters.  A recording is named by its number: a name holds the time to the second.  *)
EXTENDS Naturals, Sequences, FiniteSets

CONSTANTS
  Capacity,   \* files that leave enough space
  LastDate, LastHour,       \* bounds of dates, and of hours in a date
  LastFile, LastFileOfBoth  \* bounds of recordings, of one recorder and when both run

ASSUME RotationAssumption ==
  {Capacity, LastDate, LastHour, LastFile, LastFileOfBoth} \subseteq Nat /\ LastDate > 0

Recorders == {"background", "on-demand"}
OnDemandDir == <<LastDate + 1>>
TimelapseDir == <<LastDate + 2>>

Path(r) == IF r = "background" THEN <<>> ELSE OnDemandDir    \* config.record_path
DateDir(r, d) == IF r = "background" THEN <<d>> ELSE <<LastDate + 1, d>>
HourDir(r, d, h) == IF r = "background" THEN <<d, h>> ELSE <<LastDate + 1, d, h>>

VARIABLES
  recorders,    \* those that record_mode asks for, which does not change
  dirs, files,  \* folders, and files [dir, name, ext]
  clock,        \* date and hour of the last Start, and number of the next recording
  starting,     \* files that Start has made a folder for
  previews,     \* preview images to come, for files recorded
  stage,        \* per rotation thread: see Stages
  aim,          \* what it has found: oldest_date_folder, oldest_hour_folder, oldest_file
  full          \* other programs use more than Capacity

recorderVars == <<clock, starting, previews>>
rotationVars == <<recorders, dirs, files, recorderVars, stage, aim, full>>

Stages == {"rest", "dates", "hours", "drop date", "files", "drop hour", "file", "counterpart",
           "hour left", "hour", "date left", "date", "dead"}

File(d, n, x) == [dir |-> d, name |-> n, ext |-> x]
Counterpart(f) == [f EXCEPT !.ext = IF @ = "mp4" THEN "jpg" ELSE "mp4"]
Nothing == [date |-> <<>>, hour |-> <<>>, file |-> File(<<>>, 0, "mp4")]
Of(r, fs) == {f \in fs : Len(f.dir) = Len(Path(r)) + 2}    \* recordings of r: in hours, below its path

OldOnDemand == File(HourDir("on-demand", 1, 0), 0, "mp4")
OldTimelapse == File(TimelapseDir, 0, "mp4")

RotationInit ==
  /\ recorders \in (SUBSET Recorders) \ {{}}
  /\ dirs = {<<>>, OnDemandDir, DateDir("on-demand", 1), HourDir("on-demand", 1, 0), TimelapseDir}
  /\ files \in {{}, {OldOnDemand, OldTimelapse}}
  /\ clock = [date |-> 1, hour |-> 0, name |-> 1]
  /\ starting = {} /\ previews = {}
  /\ stage = [r \in Recorders |-> "rest"] /\ aim = [r \in Recorders |-> Nothing]
  /\ full = FALSE

RotationTypeOK ==
  /\ recorders \subseteq Recorders
  /\ \A d \in dirs : d \in Seq(Nat) /\ Len(d) \in 0..3
  /\ \A f \in files \cup starting \cup previews : Len(f.dir) \in 1..3 /\ f.name \in Nat /\ f.ext \in {"mp4", "jpg"}
  /\ clock \in [date : 1..LastDate, hour : 0..LastHour, name : Nat]
  /\ stage \in [Recorders -> Stages] /\ full \in BOOLEAN

-------------------------------------------------------------------------------
(* RotateFiles *)

Below(d, e) == Len(d) <= Len(e) /\ \A i \in 1..Len(d) : e[i] = d[i]    \* e is d or in it
SubDirs(d) == {e \in dirs : Len(e) = Len(d) + 1 /\ Below(d, e)}
FilesIn(d) == {f \in files : f.dir = d}
Empty(d) == SubDirs(d) = {} /\ FilesIn(d) = {}

\* The folder that comes first, if there is one.
FirstOf(ds) == {d \in ds : \A e \in ds : d[Len(d)] <= e[Len(e)]}
LastOf(ds) == {d \in ds : \A e \in ds : d[Len(d)] >= e[Len(e)]}

RemoveAll(d) ==
  /\ dirs' = {e \in dirs : ~Below(d, e)}
  /\ files' = {f \in files : ~Below(d, f.dir)}

\* CheckDriveSpace, which also fails for a path that is not there.
Low(r) == Path(r) \notin dirs \/ full \/ Cardinality(files) > Capacity

\* The thread of r is at stage s; it goes on to s with what it has found.
Is(r, s) == r \in recorders /\ stage[r] = s
Finds(r, s, found) ==
  /\ stage' = [stage EXCEPT ![r] = s] /\ aim' = [aim EXCEPT ![r] = found]
  /\ UNCHANGED <<recorders, recorderVars, full>>
Goes(r, s) == Finds(r, s, aim[r])
Ends(r) == Finds(r, "rest", Nothing)    \* RotateFiles returns, or catches what was thrown
Looks == UNCHANGED <<dirs, files>>

\* The thread wakes once a minute, or earlier when a Start finds too little space.
RotationWakes(r) == Is(r, "rest") /\ Low(r) /\ Finds(r, "dates", Nothing) /\ Looks

\* A folder that cannot be iterated throws, here and in ScanHours outside the try.
ScanDates(r) ==
  /\ Is(r, "dates") /\ Looks
  /\ \/ Path(r) \notin dirs /\ Finds(r, "dead", Nothing)
     \/ Path(r) \in dirs /\ SubDirs(Path(r)) = {} /\ Ends(r)
     \/ \E d \in FirstOf(SubDirs(Path(r))) : Path(r) \in dirs /\ Finds(r, "hours", [Nothing EXCEPT !.date = d])

\* Variant: the newest hour goes first.
ScanHoursBackwards(r) ==
  /\ Is(r, "hours") /\ Looks
  /\ LET date == aim[r].date
     IN \/ date \notin dirs /\ Finds(r, "dead", Nothing)
        \/ date \in dirs /\ SubDirs(date) = {} /\ Goes(r, "drop date")
        \/ \E h \in LastOf(SubDirs(date)) : date \in dirs /\ Finds(r, "files", [aim[r] EXCEPT !.hour = h])

ScanHours(r) ==
  /\ Is(r, "hours") /\ Looks
  /\ LET date == aim[r].date
     IN \/ date \notin dirs /\ Finds(r, "dead", Nothing)
        \/ date \in dirs /\ SubDirs(date) = {} /\ Goes(r, "drop date")
        \/ \E h \in FirstOf(SubDirs(date)) : date \in dirs /\ Finds(r, "files", [aim[r] EXCEPT !.hour = h])

DropDate(r) == Is(r, "drop date") /\ RemoveAll(aim[r].date) /\ Ends(r)

\* Variant: an hour without files is skipped.
ScanFilesOnly(r) ==
  /\ Is(r, "files") /\ Looks
  /\ LET here == FilesIn(aim[r].hour)
     IN \/ here = {} /\ Ends(r)
        \/ \E f \in here : (\A g \in here : f.name <= g.name) /\ Finds(r, "file", [aim[r] EXCEPT !.file = f])

ScanFiles(r) ==
  /\ Is(r, "files") /\ Looks
  /\ LET here == FilesIn(aim[r].hour)
     IN \/ aim[r].hour \notin dirs /\ Ends(r)
        \/ aim[r].hour \in dirs /\ here = {} /\ Goes(r, "drop hour")
        \/ \E f \in here : (\A g \in here : f.name <= g.name) /\ Finds(r, "file", [aim[r] EXCEPT !.file = f])

DropHour(r) == Is(r, "drop hour") /\ RemoveAll(aim[r].hour) /\ Ends(r)

RemoveFile(r) ==
  /\ Is(r, "file")
  /\ files' = files \ {aim[r].file} /\ UNCHANGED dirs
  /\ Goes(r, "counterpart")

RemoveCounterpart(r) ==
  /\ Is(r, "counterpart")
  /\ files' = files \ {Counterpart(aim[r].file)} /\ UNCHANGED dirs
  /\ Goes(r, "hour left")

\* is_empty throws if the folder is gone.
CheckHour(r) ==
  /\ Is(r, "hour left") /\ Looks
  /\ IF aim[r].hour \in dirs /\ Empty(aim[r].hour) THEN Goes(r, "hour") ELSE Ends(r)

\* Variant: remove_all.
RemoveHourAll(r) ==
  /\ Is(r, "hour")
  /\ RemoveAll(aim[r].hour)
  /\ Goes(r, "date left")

\* remove throws if something has come into the folder since, and not if it is gone.
RemoveHour(r) ==
  /\ Is(r, "hour")
  /\ IF Empty(aim[r].hour)
     THEN dirs' = dirs \ {aim[r].hour} /\ UNCHANGED files /\ Goes(r, "date left")
     ELSE Looks /\ Ends(r)

CheckDate(r) ==
  /\ Is(r, "date left") /\ Looks
  /\ IF aim[r].date \in dirs /\ Empty(aim[r].date) THEN Goes(r, "date") ELSE Ends(r)

\* Variant: the record path goes with the last date.
RemoveDateAndPath(r) ==
  /\ Is(r, "date")
  /\ IF Empty(aim[r].date) THEN dirs' = dirs \ {aim[r].date, Path(r)} ELSE UNCHANGED dirs
  /\ UNCHANGED files /\ Ends(r)

RemoveDate(r) ==
  /\ Is(r, "date")
  /\ dirs' = IF Empty(aim[r].date) THEN dirs \ {aim[r].date} ELSE dirs
  /\ UNCHANGED files /\ Ends(r)

RotateFiles(r) ==
  \/ ScanDates(r) \/ ScanHours(r) \/ DropDate(r) \/ ScanFiles(r) \/ DropHour(r)
  \/ RemoveFile(r) \/ RemoveCounterpart(r)
  \/ CheckHour(r) \/ RemoveHour(r) \/ CheckDate(r) \/ RemoveDate(r)

-------------------------------------------------------------------------------
(* The recorders: Start makes the folders of the date and the hour, then the file. *)

\* The hour is that of the last Start, or one that came since.
Later(d, h) == clock.date < d \/ (clock.date = d /\ clock.hour <= h)

CreateFolder(r) ==
  /\ r \in recorders /\ Of(r, starting) = {} /\ clock.name <= (IF recorders = Recorders THEN LastFileOfBoth ELSE LastFile)
  /\ \E d \in 1..LastDate, h \in 0..LastHour :
       /\ Later(d, h)
       /\ starting' = starting \cup {File(HourDir(r, d, h), clock.name, "mp4")}
       /\ clock' = [date |-> d, hour |-> h, name |-> clock.name + 1]
       /\ dirs' = dirs \cup {Path(r), DateDir(r, d), HourDir(r, d, h)}
  /\ UNCHANGED <<recorders, files, previews, stage, aim, full>>

\* avio_open makes the file, if the folder is still there.  If not, a later frame or
\* command calls Start again.
OpenRecording(f) ==
  /\ starting' = starting \ {f}
  /\ IF f.dir \in dirs
     THEN files' = files \cup {f} /\ previews' = previews \cup {Counterpart(f)}
     ELSE UNCHANGED <<files, previews>>
  /\ UNCHANGED <<recorders, dirs, clock, stage, aim, full>>

\* MakePreviewImage, three seconds later on a thread of its own.  Nobody tells it that the
\* file is gone; without its folder the image cannot be written.
MakePreviewImage(p) ==
  /\ previews' = previews \ {p}
  /\ files' = IF p.dir \in dirs THEN files \cup {p} ELSE files
  /\ UNCHANGED <<recorders, dirs, clock, starting, stage, aim, full>>

\* The rest of the disk (external).
OthersWrite ==
  /\ full' = TRUE
  /\ UNCHANGED <<recorders, dirs, files, recorderVars, stage, aim>>

-------------------------------------------------------------------------------

\* An exception that leaves a thread ends the program.
Alive == \A r \in Recorders : stage[r] # "dead"

RotationStep(r) == Alive /\ (RotationWakes(r) \/ RotateFiles(r))
Starts == Alive /\ \E f \in starting : OpenRecording(f)
RecorderStep == Alive /\ ((\E r \in Recorders : CreateFolder(r)) \/ (\E p \in previews : MakePreviewImage(p)))
RotationNext == (\E r \in Recorders : RotationStep(r)) \/ Starts \/ RecorderStep \/ OthersWrite

-------------------------------------------------------------------------------
(* Properties. *)

\* A rotation thread that works alone never finds that a folder which it iterates outside
\* the try (RotateFiles) has gone, whatever its recorder does meanwhile; the background
\* recorder's can take the folders of the on-demand one from under the other thread.
AloneSurvives == ~Alive => recorders = Recorders

RotationInv == RotationTypeOK /\ AloneSurvives

Gone == files \ files'

\* What rotation deletes of a recorder's files is never newer than a video it keeps.
OldestFirst == \A r \in Recorders : \A f \in Of(r, Gone), g \in Of(r, files') : g.ext = "mp4" => f.name <= g.name

\* "MP4 and .jpg files are deleted together" (docs/recording/README.md): when RotateFiles
\* goes on to the folders, both are gone.
PairsTogether ==
  \A r \in recorders : stage[r] = "counterpart" /\ stage'[r] # "counterpart" =>
    {aim[r].file, Counterpart(aim[r].file)} \cap files' = {}

\* While a thread tidies up folders it deletes no file, not even one that was made after
\* it found the folder empty.
TidyingKeeps ==
  \A r \in recorders : stage[r] \in {"hour left", "hour", "date left", "date"} /\ stage'[r] # stage[r] => Gone = {}

\* Every step of RotateFiles keeps to these, whatever the recorders make meanwhile.
RotationDeletes == [][OldestFirst /\ PairsTogether /\ TidyingKeeps]_rotationVars

\* Too little space does not last while a file is left below the record path: an empty
\* folder or a file that another thread just made cannot keep the threads from it.
CanFree(r) == Alive /\ r \in recorders /\ \E f \in files : Below(Path(r), f.dir)
SpaceComesBack == \A r \in Recorders : []<>~(Low(r) /\ CanFree(r))
=============================================================================
