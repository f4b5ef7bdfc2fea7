---------------------------- MODULE RegistryFile ----------------------------
(***************************************************************************)
(* The database file of SqliteRegistry (sqlite.py): processes that open    *)
(* it, create its schema or migrate it after a backup, add records in      *)
(* transactions that nest, and may be killed or get an exception anywhere. *)
(*                                                                         *)
(* What SQLite gives is external: BEGIN IMMEDIATE takes the write lock or  *)
(* raises, ROLLBACK and the end of a process drop what was not committed,  *)
(* COMMIT may raise while readers keep the file, and then the transaction  *)
(* is still there.  A migration step adds the tables of one version; the   *)
(* steps in Rewriting also rewrite payloads.                               *)
(***************************************************************************)
EXTENDS Naturals, FiniteSets

CONSTANTS
    Openers,        \* processes, each with one connection
    Latest,         \* DB_SCHEMA_VERSION
    Rewriting,      \* versions whose migration rewrites payloads
    StartVersions,  \* versions the file may have at first; 0: a new file
    Records,        \* records that may be added
    Needs,          \* the records each refers to
    MaxDepth        \* bound: how deep transactions nest

ASSUME FileAssumption ==
    /\ Latest \in Nat \ {0} /\ Rewriting \subseteq 2..Latest /\ StartVersions \subseteq 0..Latest
    /\ Needs \in [Records -> SUBSET Records] /\ MaxDepth \in Nat \ {0}
    /\ "no one" \notin Openers

VARIABLES
    file,           \* what is committed
    backup,         \* <name>.v<n>.bak: version -> the content it can be restored to, if it is whole
    lock,           \* the connection in a write transaction, or NoOne
    working,        \* what that transaction sees
    conn            \* where each process is

fileVars == <<file, backup, lock, working, conn>>

NoOne == "no one"

Content == [version : 0..Latest, tables : SUBSET (1..Latest), rewritten : SUBSET Rewriting, records : SUBSET Records]

\* A file as the release of version v left it.
FileOf(v) == [version |-> v, tables |-> 1..v, rewritten |-> Rewriting \cap (1..v), records |-> {}]

Connection ==
    [pc : {"closed", "counting", "backup", "copying", "locking", "building", "open", "dead"},
     found : 0..Latest, step : 0..Latest, copied : Content, depth : 0..MaxDepth]

\* Type invariant.
FileTypeOK ==
    /\ file \in Content /\ working \in Content
    /\ backup \in [1..Latest -> SUBSET Content]
    /\ lock \in Openers \cup {NoOne}
    /\ conn \in [Openers -> Connection]

Closed == [pc |-> "closed", found |-> 0, step |-> 0, copied |-> FileOf(0), depth |-> 0]

FileInit ==
    /\ \E v \in StartVersions : file = FileOf(v)
    /\ backup = [v \in 1..Latest |-> {}]
    /\ lock = NoOne /\ working = FileOf(0)
    /\ conn = [p \in Openers |-> Closed]
-----------------------------------------------------------------------------
(* SqliteRegistry(path) *)

Goto(p, c) == conn' = [conn EXCEPT ![p] = c]

Release == lock' = NoOne /\ working' = FileOf(0)

\* An exception in the constructor closes the connection.
FailToOpen(p) == Goto(p, Closed)

ReadVersion(p) ==
    /\ conn[p].pc = "closed"
    /\ Goto(p, [conn[p] EXCEPT !.found = file.version, !.step = file.version,
                    !.pc = CASE file.version = Latest -> "open"
                             [] file.version = 0 -> "counting"
                             [] OTHER -> "backup"])
    /\ UNCHANGED <<file, backup, lock, working>>

\* A database with tables and no version is refused.
CountTables(p) ==
    /\ conn[p].pc = "counting"
    /\ IF file.tables = {} THEN Goto(p, [conn[p] EXCEPT !.pc = "locking"]) ELSE FailToOpen(p)
    /\ UNCHANGED <<file, backup, lock, working>>

StartCopy(p) ==
    /\ conn[p].pc = "backup"
    /\ Goto(p, [conn[p] EXCEPT !.pc = "copying", !.copied = file])
    /\ backup' = [backup EXCEPT ![conn[p].found] = {}]
    /\ UNCHANGED <<file, lock, working>>

\* Nothing keeps another process from committing while the file is read.
EndCopy(p) ==
    /\ conn[p].pc = "copying"
    /\ Goto(p, [conn[p] EXCEPT !.pc = "locking"])
    /\ backup' = [backup EXCEPT ![conn[p].found] = IF file = conn[p].copied THEN {file} ELSE {}]
    /\ UNCHANGED <<file, lock, working>>

\* _run_atomically.
BeginBuilding(p) ==
    /\ conn[p].pc = "locking" /\ lock = NoOne
    /\ lock' = p /\ working' = file
    /\ Goto(p, [conn[p] EXCEPT !.pc = "building"])
    /\ UNCHANGED <<file, backup>>

\* The wait for the lock timed out.
BuildingLocked(p) ==
    /\ conn[p].pc = "locking" /\ lock # NoOne
    /\ FailToOpen(p)
    /\ UNCHANGED <<file, backup, lock, working>>

BuildStepCommitted(p) ==
    LET upto == IF conn[p].found = 0 THEN Latest ELSE conn[p].step + 1
        new == (conn[p].step + 1)..upto
    IN  /\ conn[p].pc = "building" /\ conn[p].step < Latest
        /\ IF working.tables \cap new = {}
           THEN /\ working' = [working EXCEPT !.tables = @ \cup new, !.rewritten = @ \cup (Rewriting \cap new)]
                /\ file' = working'
                /\ Goto(p, [conn[p] EXCEPT !.step = upto])
                /\ UNCHANGED lock
           ELSE Release /\ FailToOpen(p) /\ UNCHANGED file
        /\ UNCHANGED backup

\* One migration, or all of _ddl for a new file: a table that is there already is an error,
\* and everything is rolled back.
BuildStep(p) ==
    LET upto == IF conn[p].found = 0 THEN Latest ELSE conn[p].step + 1
        new == (conn[p].step + 1)..upto
    IN  /\ conn[p].pc = "building" /\ conn[p].step < Latest
        /\ IF working.tables \cap new = {}
           THEN /\ working' = [working EXCEPT !.tables = @ \cup new, !.rewritten = @ \cup (Rewriting \cap new)]
                /\ Goto(p, [conn[p] EXCEPT !.step = upto])
                /\ UNCHANGED lock
           ELSE Release /\ FailToOpen(p)
        /\ UNCHANGED <<file, backup>>

\* The version is part of the transaction; a COMMIT that raises is undone by the close.
CommitBuilding(p, ok) ==
    /\ conn[p].pc = "building" /\ conn[p].step = Latest
    /\ file' = IF ok THEN [working EXCEPT !.version = Latest] ELSE file
    /\ Release
    /\ IF ok THEN Goto(p, [conn[p] EXCEPT !.pc = "open"]) ELSE FailToOpen(p)
    /\ UNCHANGED backup
-----------------------------------------------------------------------------
(* transaction() of an open connection *)

Open(p) == conn[p].pc = "open"

\* BEGIN IMMEDIATE; where the lock is taken, or the connection is still in a transaction
\* whose COMMIT raised, it raises and nothing happens.
Begin(p) ==
    /\ Open(p) /\ conn[p].depth = 0 /\ lock = NoOne
    /\ lock' = p /\ working' = file
    /\ Goto(p, [conn[p] EXCEPT !.depth = 1])
    /\ UNCHANGED <<file, backup>>

\* A nested transaction joins the outermost.
Nest(p) ==
    /\ Open(p) /\ conn[p].depth \in 1..(MaxDepth - 1)
    /\ Goto(p, [conn[p] EXCEPT !.depth = @ + 1])
    /\ UNCHANGED <<file, backup, lock, working>>

\* add: the identity is new and what the record refers to is there, or it raises.
Addable(r) == r \notin working.records /\ Needs[r] \subseteq working.records

AddRecord(p, r) ==
    /\ Open(p) /\ conn[p].depth > 0 /\ Addable(r)
    /\ working' = [working EXCEPT !.records = @ \cup {r}]
    /\ UNCHANGED <<file, backup, lock, conn>>

\* An inner block ends well.
Unnest(p) ==
    /\ Open(p) /\ conn[p].depth > 1
    /\ Goto(p, [conn[p] EXCEPT !.depth = @ - 1])
    /\ UNCHANGED <<file, backup, lock, working>>

Commit(p) ==
    /\ Open(p) /\ conn[p].depth = 1
    /\ file' = working
    /\ Release
    /\ Goto(p, [conn[p] EXCEPT !.depth = 0])
    /\ UNCHANGED backup

\* The depth is down already and there is no ROLLBACK: the connection keeps its transaction,
\* and the lock, until it is closed.
CommitRaises(p) ==
    /\ Open(p) /\ conn[p].depth = 1
    /\ Goto(p, [conn[p] EXCEPT !.depth = 0])
    /\ UNCHANGED <<file, backup, lock, working>>

\* An exception leaves every block: the outermost rolls back.
ExceptionLeaves(p) ==
    /\ Open(p) /\ conn[p].depth > 0
    /\ Release
    /\ Goto(p, [conn[p] EXCEPT !.depth = 0])
    /\ UNCHANGED <<file, backup>>

Disconnect(p, pc) ==
    /\ conn[p].pc \notin {"dead", pc}
    /\ IF lock = p THEN Release ELSE UNCHANGED <<lock, working>>
    /\ Goto(p, [Closed EXCEPT !.pc = pc])
    /\ UNCHANGED <<file, backup>>

Close(p) == Open(p) /\ conn[p].depth = 0 /\ Disconnect(p, "closed")

ProcessKilled(p) == Disconnect(p, "dead")
-----------------------------------------------------------------------------
FileNext ==
    \E p \in Openers :
        \/ ReadVersion(p) \/ CountTables(p) \/ StartCopy(p) \/ EndCopy(p)
        \/ BeginBuilding(p) \/ BuildingLocked(p) \/ BuildStep(p) \/ \E ok \in BOOLEAN : CommitBuilding(p, ok)
        \/ Begin(p) \/ Nest(p) \/ (\E r \in Records : AddRecord(p, r)) \/ Unnest(p)
        \/ Commit(p) \/ CommitRaises(p) \/ ExceptionLeaves(p) \/ Close(p) \/ ProcessKilled(p)

FileSpec == FileInit /\ [][FileNext]_fileVars
-----------------------------------------------------------------------------
\* The committed file is at all times what its version says: the tables of every version up to
\* it and of none beyond, payloads rewritten accordingly, no record without what it refers to;
\* and a process that has opened it works on the latest version, however openings raced.
FileWhole ==
    /\ file.tables = 1..file.version /\ file.rewritten = Rewriting \cap (1..file.version)
    /\ \A r \in file.records : Needs[r] \subseteq file.records
    /\ \A p \in Openers : Open(p) => file.version = Latest

\* A migration commits only over the very file its process copied before, and that copy is the
\* backup on disk but for another opener that is writing its own over it, or died doing so; and
\* no step loses a committed record.
FileKept ==
    /\ file.records \subseteq file'.records
    /\ file'.version # file.version /\ file.version # 0 =>
        /\ conn[lock].copied = file
        /\ backup[file.version] = {file} \/ \E q \in Openers \ {lock} : conn[q].pc \in {"copying", "dead"}

\* What the docs call all steps or none: every step keeps the file and leaves it whole, over
\* crashes, exceptions, commits that raise and other processes.
AllOrNothing == [][FileKept /\ FileWhole']_fileVars
=============================================================================
