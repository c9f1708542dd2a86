------------------------------- MODULE Databases -------------------------------
(***************************************************************************)
(* One database file and the life of services around it: the main loop and *)
(* its stops, signals and restarts (src/main.c), the commands that ask for *)
(* them (src/operserv.c), and the system calls by which a database is      *)
(* backed up, written, and restored when that fails (src/datafiles.c).     *)
(* Services may be killed between any two of these.                        *)
(*                                                                         *)
(* What the database says is a number that grows with every change.  Left  *)
(* out: the other databases, which are written one after another in the    *)
(* same way; expiry, which is a change; -forceload, NoBackupOkay.          *)
(***************************************************************************)
EXTENDS Naturals

CONSTANTS
    DbMax,          \* bound: changes
    DbDays,         \* days, as tm_yday: 0 is the first of January
    KeepBackups,    \* for how many days backups are kept
    DbTorn,         \* the content of a file that was not written to its end
    DbAbsent        \* no file

ASSUME DbDaysAssumption == DbDays \in SUBSET Nat /\ KeepBackups \in Nat \ {0}
ASSUME DbContentsAssumption ==
    DbMax \in Nat /\ DbTorn \notin Nat /\ DbAbsent \notin Nat /\ DbTorn # DbAbsent

VARIABLES
    dbMem,          \* what services know
    dbFile, dbSave, \* the file, and the one with .save after its name
    dbBackups,      \* backups/: a file for each day
    dbDay, curday,
    dbAt,           \* where services are: the main loop, or a step of a save
    dbAfter,        \* what comes after the save
    dbStop,         \* what services stopped for, or how they run
    save_data, delayed_quit, dbReadonly,
    dbSignals,      \* the signals that are not ignored yet
    dbFailed,       \* history: the last save failed
    dbSaved,        \* history: the last content that was written to its end
    dbMishap        \* history: what has made a copy disappear, see OneGoodCopy

dbVars == <<dbMem, dbFile, dbSave, dbBackups, dbDay, curday, dbAt, dbAfter, dbStop,
            save_data, delayed_quit, dbReadonly, dbSignals, dbFailed, dbSaved, dbMishap>>
dbFiles == <<dbFile, dbSave, dbBackups>>
dbFlags == <<save_data, delayed_quit, dbReadonly, dbSignals>>
dbWhen == <<dbDay, curday>>

DbContents == 0..DbMax \cup {DbTorn, DbAbsent}
DbSaving == {"backup", "unlink", "rename", "create", "write", "restore", "close", "flush"}
DbStops == {"up", "shutdown", "quit", "restart", "sigterm", "sighup", "killed", "unreadable"}

DatabasesTypeOK ==
    /\ dbMem \in 0..DbMax /\ dbSaved \in 0..DbMax
    /\ dbFile \in DbContents /\ dbSave \in DbContents
    /\ dbBackups \in [DbDays -> DbContents]
    /\ dbDay \in DbDays /\ curday \in DbDays \cup {0}
    /\ dbAt \in {"top", "read"} \cup DbSaving /\ dbAfter \in DbStops /\ dbStop \in DbStops
    /\ {save_data, delayed_quit, dbReadonly} \subseteq BOOLEAN
    /\ dbSignals \subseteq {"sighup", "sigterm"} /\ dbMishap \in BOOLEAN /\ dbFailed \in BOOLEAN

DatabasesInit ==
    /\ dbMem = 0 /\ dbSaved = 0 /\ dbFile = 0 /\ dbSave = DbAbsent
    /\ dbBackups = [d \in DbDays |-> DbAbsent]
    /\ dbDay \in DbDays /\ curday = 0
    /\ dbAt = "top" /\ dbAfter = "up" /\ dbStop = "up"
    /\ save_data = TRUE /\ delayed_quit = FALSE /\ dbReadonly = FALSE
    /\ dbSignals = {"sighup", "sigterm"} /\ dbMishap = FALSE /\ dbFailed = FALSE

DbUp == dbStop = "up"
DbStep(at, next) == DbUp /\ dbAt = at /\ dbAt' = next

-----------------------------------------------------------------------------
(* The steps of save_databases().                                          *)

DbElse == UNCHANGED <<dbMem, dbAfter, dbStop, dbFlags, dbFailed>>

\* backup_databases(): the first save of a day that is not the one services
\* began on moves the file; the backup of exactly KeepBackups days ago goes.
BackupDatabases ==
    /\ DbStep("backup", "unlink") /\ DbElse
    /\ curday' = dbDay
    /\ IF curday \in {0, dbDay} THEN UNCHANGED <<dbFile, dbBackups>>
       ELSE /\ dbFile' = DbAbsent
            /\ dbBackups' = [d \in DbDays |->
                  IF d = dbDay /\ dbFile # DbAbsent THEN dbFile
                  ELSE IF d + KeepBackups = dbDay THEN DbAbsent ELSE dbBackups[d]]
    /\ dbMishap' = (dbMishap \/ (curday # dbDay /\ curday # 0 /\ dbDay >= KeepBackups
                                 /\ dbDay - KeepBackups \in DbDays
                                 /\ dbBackups[dbDay - KeepBackups] = dbSaved
                                 /\ dbFile # dbSaved))
    /\ UNCHANGED <<dbSave, dbDay, dbSaved>>

\* open_db_write(): an old .save goes, ...
OpenUnlinks ==
    /\ DbStep("unlink", "rename") /\ DbElse
    /\ dbSave' = DbAbsent
    /\ dbMishap' = (dbMishap \/ (dbSave = dbSaved /\ dbFile # dbSaved))
    /\ UNCHANGED <<dbFile, dbBackups, dbWhen, dbSaved>>

\* Mutant of OpenRenames: the file is not kept.
OpenRenamesNot ==
    /\ DbStep("rename", "create") /\ DbElse
    /\ dbFile' = DbAbsent
    /\ UNCHANGED <<dbSave, dbBackups, dbWhen, dbSaved, dbMishap>>

\* ... the file takes that name, ...
OpenRenames ==
    /\ DbStep("rename", "create") /\ DbElse
    /\ dbSave' = dbFile /\ dbFile' = DbAbsent
    /\ UNCHANGED <<dbBackups, dbWhen, dbSaved, dbMishap>>

\* ... and a new one is made, or else the old one comes back.
OpenCreates ==
    /\ DbStep("create", "write") /\ DbElse
    /\ dbFile' = DbTorn
    /\ UNCHANGED <<dbSave, dbBackups, dbWhen, dbSaved, dbMishap>>

\* What services do when a save is over: the main loop goes on or stops, a
\* signal handler and RESTART stop.
AfterSave(failed) ==
    /\ dbFailed' = failed
    /\ dbStop' = IF dbAfter # "up" THEN dbAfter ELSE IF delayed_quit THEN "shutdown" ELSE "up"
    /\ dbAt' = "read" /\ dbAfter' = "up"
    /\ save_data' = FALSE
    /\ UNCHANGED <<dbMem, dbWhen, delayed_quit, dbReadonly, dbSignals>>

OpenFails ==
    /\ DbUp /\ dbAt \in {"rename", "create"}
    /\ IF dbAt = "rename" THEN UNCHANGED dbFiles
       ELSE dbFile' = dbSave /\ dbSave' = DbAbsent /\ UNCHANGED dbBackups
    /\ AfterSave(TRUE) /\ UNCHANGED <<dbSaved, dbMishap>>

\* The writes of a save routine, and one that fails: restore_db().
Writes == DbStep("write", "close") /\ DbElse /\ UNCHANGED <<dbFiles, dbWhen, dbSaved, dbMishap>>
WriteFails == DbStep("write", "restore") /\ DbElse /\ UNCHANGED <<dbFiles, dbWhen, dbSaved, dbMishap>>

RestoreDb ==
    /\ DbUp /\ dbAt = "restore"
    /\ IF dbSave = DbAbsent THEN UNCHANGED dbFiles
       ELSE dbFile' = dbSave /\ dbSave' = DbAbsent /\ UNCHANGED dbBackups
    /\ AfterSave(TRUE) /\ UNCHANGED <<dbSaved, dbMishap>>

\* close_db() removes the .save first and then writes what is still in the
\* buffer, without asking whether that failed.
CloseUnlinks ==
    /\ DbStep("close", "flush") /\ DbElse
    /\ dbSave' = DbAbsent
    /\ UNCHANGED <<dbFile, dbBackups, dbWhen, dbSaved, dbMishap>>

CloseFlushes ==
    /\ DbUp /\ dbAt = "flush"
    /\ dbFile' = dbMem /\ dbSaved' = dbMem
    /\ AfterSave(FALSE) /\ UNCHANGED <<dbSave, dbBackups, dbMishap>>

-----------------------------------------------------------------------------
(* The main loop.                                                          *)

DbSame == UNCHANGED <<dbFiles, dbWhen, dbFailed, dbSaved, dbMishap>>

\* The top of the loop; a save is due by itself after UpdateTimeout.
LoopTop(due) ==
    /\ DbUp /\ dbAt = "top" /\ DbSame /\ UNCHANGED <<dbMem, dbAfter, dbFlags>>
    /\ IF ~dbReadonly /\ (save_data \/ due) THEN dbAt' = "backup" /\ UNCHANGED dbStop
       ELSE /\ dbAt' = "read"
            /\ dbStop' = IF delayed_quit THEN "shutdown" ELSE "up"

\* One message: something changes, ...
DbProcess(changes) ==
    /\ DbStep("read", "top") /\ DbSame /\ UNCHANGED <<dbAfter, dbStop, dbFlags>>
    /\ IF changes THEN dbMem < DbMax /\ dbMem' = dbMem + 1 ELSE UNCHANGED dbMem

\* ... or UPDATE, ...
DoUpdate ==
    /\ DbStep("read", "top") /\ save_data' = TRUE
    /\ DbSame /\ UNCHANGED <<dbMem, dbAfter, dbStop, delayed_quit, dbReadonly, dbSignals>>

\* ... SHUTDOWN, ...
DoShutdown ==
    /\ DbStep("read", "top") /\ save_data' = TRUE /\ delayed_quit' = TRUE
    /\ DbSame /\ UNCHANGED <<dbMem, dbAfter, dbStop, dbReadonly, dbSignals>>

\* ... RESTART, which saves at once, ...
DoRestart ==
    /\ DbStep("read", "backup") /\ dbAfter' = "restart"
    /\ DbSame /\ UNCHANGED <<dbMem, dbStop, dbFlags>>

\* ... SET READONLY, ...
DoSetReadonly ==
    /\ DbStep("read", "top") /\ dbReadonly' = ~dbReadonly
    /\ DbSame /\ UNCHANGED <<dbMem, dbAfter, dbStop, save_data, delayed_quit, dbSignals>>

\* ... QUIT, a RELOAD of a bad configuration, or the uplink is gone: services
\* stop without a save.
DoOsQuit ==
    /\ DbStep("read", "top") /\ dbStop' = "quit"
    /\ DbSame /\ UNCHANGED <<dbMem, dbAfter, dbFlags>>

\* sighandler(), whatever services are doing, a save too.
Sighandler(signal) ==
    /\ DbUp /\ signal \in dbSignals
    /\ dbSignals' = dbSignals \ (IF signal = "sigterm" THEN {"sigterm", "sighup"} ELSE {"sighup"})
    /\ dbAt' = "backup" /\ dbAfter' = signal
    /\ dbMishap' = (dbMishap \/ dbAt = "flush")
    /\ UNCHANGED <<dbFiles, dbWhen, dbFailed, dbSaved, dbMem, dbStop, save_data, delayed_quit, dbReadonly>>

-----------------------------------------------------------------------------
(* Around it.                                                              *)

DbMidnight ==
    /\ \E d \in DbDays : d > dbDay /\ (\A e \in DbDays : e > dbDay => d <= e) /\ dbDay' = d
    /\ UNCHANGED <<dbMem, dbFiles, curday, dbAt, dbAfter, dbStop, dbFlags, dbFailed, dbSaved, dbMishap>>

\* The process or the machine dies.
DbKilled ==
    /\ DbUp /\ dbStop' = "killed"
    /\ dbMishap' = (dbMishap \/ dbAt = "flush")
    /\ UNCHANGED <<dbMem, dbFiles, dbWhen, dbAt, dbAfter, dbFlags, dbFailed, dbSaved>>

\* Services start: open_db_read() finds the file, none, or one it cannot read
\* to the end, and then they do not start.
DbStart ==
    /\ ~DbUp
    /\ IF dbFile = DbTorn THEN dbStop' = "unreadable" /\ UNCHANGED dbMem
       ELSE dbStop' = "up" /\ dbMem' = IF dbFile = DbAbsent THEN 0 ELSE dbFile
    /\ dbAt' = "top" /\ dbAfter' = "up" /\ curday' = 0
    /\ save_data' = TRUE /\ delayed_quit' = FALSE /\ dbReadonly' = FALSE
    /\ dbSignals' = {"sighup", "sigterm"}
    /\ UNCHANGED <<dbFiles, dbDay, dbFailed, dbSaved, dbMishap>>

DatabasesNext ==
    \/ BackupDatabases \/ OpenUnlinks \/ OpenRenames \/ OpenCreates \/ OpenFails
    \/ Writes \/ WriteFails \/ RestoreDb \/ CloseUnlinks \/ CloseFlushes
    \/ \E b \in BOOLEAN : LoopTop(b) \/ DbProcess(b)
    \/ DoUpdate \/ DoShutdown \/ DoRestart \/ DoSetReadonly \/ DoOsQuit
    \/ \E signal \in dbSignals : Sighandler(signal)
    \/ DbMidnight \/ DbKilled \/ DbStart

DatabasesSpec == DatabasesInit /\ [][DatabasesNext]_dbVars
-----------------------------------------------------------------------------
(* Safety.                                                                 *)

DbCopies == {dbFile, dbSave} \cup {dbBackups[d] : d \in DbDays}

\* Wherever services are killed or a write fails, what was last saved is in
\* the file, its .save or a backup - until one of these makes the copy
\* disappear: a signal that starts a save in the middle of another, whose
\* file then takes the name of the good one; a start after a kill between
\* rename() and open(), which begins empty and saves at once; a kill or a
\* signal between the two halves of close_db(); the age of the backup.
OneGoodCopy == ~dbMishap /\ dbAt # "flush" => dbSaved \in DbCopies

\* SHUTDOWN, RESTART and the two signals stop services with all they know on
\* the disk, unless that failed; SHUTDOWN only if they may write.
NothingUnsaved ==
    /\ dbStop \in {"restart", "sigterm", "sighup"} => dbFile = dbMem \/ dbFailed
    /\ dbStop = "shutdown" => dbFile = dbMem \/ dbFailed \/ dbReadonly
================================================================================
