--------------------------- MODULE RegistryProofs ---------------------------
(***************************************************************************)
(* Theorems about the registry: its database file while processes open,    *)
(* migrate and write it, and the dossiers that are assembled from what it  *)
(* holds while others go on recording.                                     *)
(***************************************************************************)
EXTENDS RegistryFile, EvidenceDossier, TLAPS

(***************************************************************************)
(* The database file, for any processes, versions and records: what        *)
(* AllOrNothing says holds of every behaviour.  The invariant it follows   *)
(* from says what a process that opens the file knows of it without        *)
(* holding the lock: a version it found is not undone, and a file still of *)
(* that version is the file it copied.                                     *)
(***************************************************************************)

\* Where a process is, it found a version that is still below the latest, or it is open.
OpeningInv ==
    \A p \in Openers :
        /\ conn[p].found <= file.version
        /\ conn[p].pc \in {"backup", "copying"} => conn[p].found # 0
        /\ conn[p].pc \in {"backup", "copying", "counting", "locking", "building"} => conn[p].found < Latest
        /\ conn[p].pc \in {"backup", "copying", "counting", "locking"} => conn[p].step = conn[p].found
        /\ conn[p].pc # "open" => conn[p].depth = 0

\* Only a connection that builds, or has a transaction open or stuck, holds the lock.
LockInv ==
    /\ \A p \in Openers :
        conn[p].pc = "building" \/ (conn[p].pc = "open" /\ conn[p].depth > 0) => lock = p
    /\ lock # NoOne => conn[lock].pc \in {"building", "open"}

\* The file with the tables of the versions up to v, as a build that has come to v sees it.
Built(v) ==
    [version |-> file.version, tables |-> 1..v, rewritten |-> Rewriting \cap (1..v), records |-> file.records]

\* What the transaction in progress sees: the file and what it has built or added to it.
WorkInv ==
    lock # NoOne =>
        /\ conn[lock].pc = "building" =>
            /\ conn[lock].found <= conn[lock].step
            /\ conn[lock].step = conn[lock].found => working = file
            /\ conn[lock].step # conn[lock].found =>
                file.version = conn[lock].found /\ working = Built(conn[lock].step)
        /\ conn[lock].pc = "open" =>
            /\ working = [file EXCEPT !.records = working.records]
            /\ file.records \subseteq working.records
            /\ \A r \in working.records : Needs[r] \subseteq working.records

\* A process past its copy has a backup of the file if that still has the version it found,
\* unless another one is writing over it.
Overwriting(p) ==
    \E q \in Openers \ {p} :
        conn[q].pc = "dead" \/ (conn[q].pc = "copying" /\ conn[q].found = conn[p].found)

BackupOf(p) ==
    conn[p].found # 0 /\ file.version = conn[p].found =>
        /\ conn[p].pc \in {"copying", "locking", "building"} => conn[p].copied = file
        /\ conn[p].pc \in {"locking", "building"} => backup[conn[p].found] = {file} \/ Overwriting(p)

BackupInv == \A p \in Openers : BackupOf(p)

\* The inductive invariant.
FileInv == FileTypeOK /\ FileWhole /\ OpeningInv /\ LockInv /\ WorkInv /\ BackupInv
-----------------------------------------------------------------------------
LEMMA Assumed ==
    /\ Latest \in Nat /\ Latest > 0 /\ MaxDepth \in Nat /\ MaxDepth > 0
    /\ StartVersions \subseteq 0..Latest /\ Rewriting \subseteq 2..Latest
    /\ NoOne \notin Openers /\ Needs \in [Records -> SUBSET Records]
<1>1. NoOne \notin Openers
  BY FileAssumption DEF NoOne
<1>2. Latest \in Nat \ {0} /\ MaxDepth \in Nat \ {0}
  BY FileAssumption
<1>3. Latest > 0 /\ MaxDepth > 0
  BY <1>2
<1> QED
  BY <1>1, <1>2, <1>3, FileAssumption

\* The file a release left is whole.
LEMMA FileOfWhole ==
    ASSUME NEW v \in 0..Latest
    PROVE  FileOf(v) \in Content /\ FileOf(v).version = v
  BY Assumed DEF FileOf, Content

LEMMA ClosedConnection == Closed \in Connection
<1>1. FileOf(0) \in Content
  BY Assumed, FileOfWhole
<1> QED
  BY <1>1, Assumed DEF Closed, Connection

LEMMA FileInitial == FileInit => FileInv
<1> SUFFICES ASSUME FileInit PROVE FileInv
  OBVIOUS
<1> USE DEF FileInit
<1>1. PICK v \in StartVersions : file = FileOf(v)
  OBVIOUS
<1>2. file \in Content /\ file.version = v /\ v \in Nat /\ v <= Latest
  BY <1>1, FileOfWhole, Assumed
<1>3. \A p \in Openers : conn[p] = Closed
  OBVIOUS
<1>4. FileTypeOK
  BY <1>2, FileOfWhole, ClosedConnection, Assumed DEF FileTypeOK
<1>5. FileWhole
  BY <1>1, <1>2, <1>3 DEF FileWhole, FileOf, Open, Closed
<1>6. OpeningInv
  BY <1>2, <1>3 DEF OpeningInv, Closed
<1>7. LockInv /\ WorkInv
  BY <1>3 DEF LockInv, WorkInv, Closed
<1>8. BackupInv
  BY <1>3 DEF BackupInv, BackupOf, Closed
<1> QED
  BY <1>4, <1>5, <1>6, <1>7, <1>8 DEF FileInv
-----------------------------------------------------------------------------
\* What a connection may be while the file has version v.
Opening(c, v) ==
    /\ c \in Connection /\ c.found <= v
    /\ c.pc \in {"backup", "copying"} => c.found # 0
    /\ c.pc \in {"backup", "copying", "counting", "locking", "building"} => c.found < Latest
    /\ c.pc \in {"backup", "copying", "counting", "locking"} => c.step = c.found
    /\ c.pc # "open" => c.depth = 0

LEMMA OpeningOfAll ==
    ASSUME FileInv, NEW p \in Openers
    PROVE  Opening(conn[p], file.version) /\ conn[p] \in Connection
  BY DEF FileInv, FileTypeOK, OpeningInv, Opening

\* A step of one process that moves it within the bounds of Opening keeps OpeningInv and types.
LEMMA OneMoves ==
    ASSUME FileInv, NEW p \in Openers, NEW c, conn' = [conn EXCEPT ![p] = c],
           file.version <= file'.version, file'.version \in 0..Latest, Opening(c, file'.version)
    PROVE  /\ OpeningInv' /\ conn' \in [Openers -> Connection]
           /\ conn'[p] = c /\ \A q \in Openers \ {p} : conn'[q] = conn[q]
<1>1. conn \in [Openers -> Connection] /\ c \in Connection /\ file.version \in 0..Latest
  BY DEF FileInv, FileTypeOK, Opening, Content
<1>2. conn' \in [Openers -> Connection] /\ conn'[p] = c /\ \A q \in Openers \ {p} : conn'[q] = conn[q]
  BY <1>1
<1>3. \A q \in Openers : Opening(conn[q], file.version) /\ conn[q] \in Connection
  BY OpeningOfAll
<1>4. \A q \in Openers : conn[q].found \in 0..Latest
  BY <1>3 DEF Connection
<1>5. \A q \in Openers : Opening(conn'[q], file'.version)
  BY <1>1, <1>2, <1>3, <1>4, Assumed DEF Opening
<1> QED
  BY <1>2, <1>5 DEF OpeningInv, Opening

\* A process that neither holds the lock nor takes it moves, the file stays: its own copy and
\* backup are all there is to show.
LEMMA LooksOn ==
    ASSUME FileInv, NEW p \in Openers, NEW c, conn' = [conn EXCEPT ![p] = c],
           UNCHANGED <<file, lock, working>>, Opening(c, file.version),
           conn[p].pc # "dead", lock # p,
           c.pc \notin {"building", "dead"}, c.pc = "open" => c.depth = 0 /\ file.version = Latest,
           backup' \in [1..Latest -> SUBSET Content], BackupInv'
    PROVE  FileInv'
<1>1. /\ OpeningInv' /\ conn' \in [Openers -> Connection]
      /\ conn'[p] = c /\ \A q \in Openers \ {p} : conn'[q] = conn[q]
  <2>1. file.version \in 0..Latest /\ file'.version = file.version
    BY DEF FileInv, FileTypeOK, Content
  <2>2. file.version <= file'.version /\ file'.version \in 0..Latest /\ Opening(c, file'.version)
    BY <2>1, Assumed
  <2> QED
    BY <2>2, OneMoves
<1>2. FileTypeOK'
  BY <1>1 DEF FileInv, FileTypeOK
<1>3. FileWhole'
  BY <1>1 DEF FileInv, FileWhole, Open
<1>4. LockInv'
  BY <1>1 DEF FileInv, LockInv, FileTypeOK
<1>5. WorkInv'
  BY <1>1 DEF FileInv, WorkInv, FileTypeOK, Built
<1> QED
  BY <1>1, <1>2, <1>3, <1>4, <1>5 DEF FileInv

\* A step of a process that does not end a copy leaves what the others have copied.
LEMMA OthersBackup ==
    ASSUME FileInv, NEW p \in Openers,
           \A q \in Openers \ {p} : conn'[q] = conn[q],
           conn[p].pc \in {"copying", "dead"} => conn'[p].pc = "dead",
           UNCHANGED <<file, backup>>
    PROVE  \A q \in Openers \ {p} : BackupOf(q)'
<1> SUFFICES ASSUME NEW q \in Openers \ {p} PROVE BackupOf(q)'
  OBVIOUS
<1>1. BackupOf(q) /\ conn'[q] = conn[q]
  BY DEF FileInv, BackupInv
<1>2. Overwriting(q) => Overwriting(q)'
  <2> SUFFICES ASSUME NEW r \in Openers \ {q},
                      conn[r].pc = "dead" \/ (conn[r].pc = "copying" /\ conn[r].found = conn[q].found)
               PROVE  Overwriting(q)'
    BY DEF Overwriting
  <2>1. CASE r = p
    BY <2>1, <1>1 DEF Overwriting
  <2>2. CASE r # p
    BY <2>2, <1>1 DEF Overwriting
  <2> QED
    BY <2>1, <2>2
<1> QED
  BY <1>1, <1>2 DEF BackupOf

\* Opening: what a process does before it has the lock.
LEMMA ReadVersionKeeps == ASSUME FileInv, NEW p \in Openers, ReadVersion(p) PROVE FileInv'
<1> USE DEF ReadVersion, Goto
<1> DEFINE c == [conn[p] EXCEPT !.found = file.version, !.step = file.version,
                    !.pc = CASE file.version = Latest -> "open"
                             [] file.version = 0 -> "counting"
                             [] OTHER -> "backup"]
<1>1. conn[p] \in Connection /\ Opening(conn[p], file.version) /\ file.version \in 0..Latest
  BY OpeningOfAll DEF FileInv, FileTypeOK, Content
<1>2. /\ c.found = file.version /\ c.step = file.version /\ c.depth = 0
      /\ c.pc \in {"open", "counting", "backup"}
      /\ c.pc = "open" <=> file.version = Latest
      /\ c.pc = "backup" => file.version # 0
  BY <1>1, Assumed DEF Connection, Opening
<1>3. c \in Connection
  BY <1>1, <1>2 DEF Connection
<1>4. Opening(c, file.version)
  BY <1>1, <1>2, <1>3, Assumed DEF Opening
<1>5. lock # p
  BY <1>1, Assumed DEF FileInv, LockInv
<1>6. conn'[p] = c /\ \A q \in Openers \ {p} : conn'[q] = conn[q]
  BY DEF FileInv, FileTypeOK
<1>7. BackupOf(p)'
  BY <1>2, <1>6 DEF BackupOf
<1>8. BackupInv'
  BY <1>6, <1>7, OthersBackup DEF BackupInv
<1> QED
  BY <1>2, <1>4, <1>5, <1>8, LooksOn DEF FileInv, FileTypeOK

LEMMA ClosedOpens == Opening(Closed, file.version) <=> 0 <= file.version
  BY ClosedConnection DEF Opening, Closed

LEMMA CountTablesKeeps == ASSUME FileInv, NEW p \in Openers, CountTables(p) PROVE FileInv'
<1> USE DEF CountTables, FailToOpen, Goto
<1>1. conn[p] \in Connection /\ Opening(conn[p], file.version) /\ file.version \in 0..Latest
  BY OpeningOfAll DEF FileInv, FileTypeOK, Content
<1>2. PICK c \in {[conn[p] EXCEPT !.pc = "locking"], Closed} : conn' = [conn EXCEPT ![p] = c]
  OBVIOUS
<1>3. Opening(c, file.version) /\ c.pc \in {"locking", "closed"} /\ (c.pc = "locking" => c.found = conn[p].found)
  BY <1>1, ClosedOpens DEF Opening, Connection, Closed
<1>4. lock # p
  BY <1>1, Assumed DEF FileInv, LockInv
<1>5. conn'[p] = c /\ \A q \in Openers \ {p} : conn'[q] = conn[q]
  BY <1>2 DEF FileInv, FileTypeOK
<1>6. BackupOf(p)'
  <2>1. ASSUME file.tables = {}, file.version # 0 PROVE FALSE
    <3>1. file.tables = 1..file.version
      BY DEF FileInv, FileWhole
    <3>2. 1 \in 1..file.version
      BY <1>1, <2>1, Assumed
    <3> QED
      BY <2>1, <3>1, <3>2
  <2>2. c.pc = "locking" => file.tables = {}
    BY <1>2, <1>5 DEF Closed
  <2> QED
    BY <1>3, <1>5, <2>1, <2>2 DEF BackupOf
<1>7. BackupInv'
  BY <1>5, <1>6, OthersBackup DEF BackupInv
<1> QED
  BY <1>2, <1>3, <1>4, <1>7, LooksOn DEF FileInv, FileTypeOK

\* A process that gives up opening before it has the lock.
LEMMA GivesUpOpening ==
    ASSUME FileInv, NEW p \in Openers, conn[p].pc \notin {"copying", "dead"}, lock # p, FailToOpen(p),
           UNCHANGED <<file, backup, lock, working>>
    PROVE  FileInv'
<1> USE DEF FailToOpen, Goto
<1>1. Opening(Closed, file.version)
  BY ClosedOpens DEF FileInv, FileTypeOK, Content
<1>2. conn'[p] = Closed /\ \A q \in Openers \ {p} : conn'[q] = conn[q]
  BY DEF FileInv, FileTypeOK
<1>3. BackupInv'
  BY <1>2, OthersBackup DEF BackupInv, BackupOf, Closed
<1>4. Closed.pc = "closed"
  BY DEF Closed
<1> QED
  BY <1>1, <1>3, <1>4, LooksOn DEF FileInv, FileTypeOK

LEMMA BuildingLockedKeeps == ASSUME FileInv, NEW p \in Openers, BuildingLocked(p) PROVE FileInv'
<1>1. lock # p
  BY DEF BuildingLocked, FileInv, LockInv
<1> QED
  BY <1>1, GivesUpOpening DEF BuildingLocked

LEMMA StartCopyKeeps == ASSUME FileInv, NEW p \in Openers, StartCopy(p) PROVE FileInv'
<1> USE DEF StartCopy, Goto
<1> DEFINE c == [conn[p] EXCEPT !.pc = "copying", !.copied = file]
<1>1. conn[p] \in Connection /\ Opening(conn[p], file.version) /\ file \in Content
  BY OpeningOfAll DEF FileInv, FileTypeOK
<1>2. c.pc = "copying" /\ c.copied = file /\ c.found = conn[p].found /\ c.step = conn[p].step /\ c.depth = conn[p].depth
  BY <1>1 DEF Connection
<1>3. c \in Connection
  BY <1>1 DEF Connection
<1>4. Opening(c, file.version)
  BY <1>1, <1>2, <1>3 DEF Opening
<1>5. lock # p
  BY <1>1, Assumed DEF FileInv, LockInv
<1>6. conn'[p] = c /\ \A q \in Openers \ {p} : conn'[q] = conn[q]
  BY DEF FileInv, FileTypeOK
<1>7. backup' \in [1..Latest -> SUBSET Content]
  BY DEF FileInv, FileTypeOK
<1>8. BackupInv'
  <2>1. BackupOf(p)'
    BY <1>2, <1>6 DEF BackupOf
  <2>2. ASSUME NEW q \in Openers \ {p} PROVE BackupOf(q)'
    <3>1. BackupOf(q) /\ conn'[q] = conn[q]
      BY <1>6 DEF FileInv, BackupInv
    <3>2. CASE conn[q].found = conn[p].found
      <4>1. Overwriting(q)'
        BY <1>2, <1>6, <3>1, <3>2 DEF Overwriting
      <4> QED
        BY <3>1, <4>1 DEF BackupOf
    <3>3. CASE conn[q].found # conn[p].found
      <4>1. backup'[conn[q].found] = backup[conn[q].found] \/ conn[q].found \notin 1..Latest
        BY <3>3 DEF FileInv, FileTypeOK
      <4>2. conn[q].found # 0 => conn[q].found \in 1..Latest
        BY Assumed DEF FileInv, FileTypeOK, Connection
      <4>3. Overwriting(q) => Overwriting(q)'
        BY <1>6 DEF Overwriting
      <4> QED
        BY <3>1, <4>1, <4>2, <4>3 DEF BackupOf
    <3> QED
      BY <3>2, <3>3
  <2> QED
    BY <2>1, <2>2 DEF BackupInv
<1> QED
  BY <1>2, <1>4, <1>5, <1>7, <1>8, LooksOn DEF FileInv, FileTypeOK

LEMMA EndCopyKeeps == ASSUME FileInv, NEW p \in Openers, EndCopy(p) PROVE FileInv'
<1> USE DEF EndCopy, Goto
<1> DEFINE c == [conn[p] EXCEPT !.pc = "locking"]
<1>1. conn[p] \in Connection /\ Opening(conn[p], file.version) /\ file \in Content
  BY OpeningOfAll DEF FileInv, FileTypeOK
<1>2. c.pc = "locking" /\ c.copied = conn[p].copied /\ c.found = conn[p].found /\ c.step = conn[p].step /\ c.depth = conn[p].depth
  BY <1>1 DEF Connection
<1>3. c \in Connection
  BY <1>1 DEF Connection
<1>4. Opening(c, file.version)
  BY <1>1, <1>2, <1>3 DEF Opening
<1>5. lock # p
  BY <1>1, Assumed DEF FileInv, LockInv
<1>6. conn'[p] = c /\ \A q \in Openers \ {p} : conn'[q] = conn[q]
  BY DEF FileInv, FileTypeOK
<1>7. backup' \in [1..Latest -> SUBSET Content]
  BY <1>1 DEF FileInv, FileTypeOK
<1>8. conn[p].found \in 1..Latest /\ BackupOf(p)
  BY <1>1, Assumed DEF Opening, Connection, FileInv, BackupInv
<1>9. file.version = conn[p].found => backup'[conn[p].found] = {file}
  BY <1>8 DEF BackupOf, FileInv, FileTypeOK
<1>10. BackupInv'
  <2>1. BackupOf(p)'
    BY <1>2, <1>6, <1>8, <1>9 DEF BackupOf
  <2>2. ASSUME NEW q \in Openers \ {p} PROVE BackupOf(q)'
    <3>1. BackupOf(q) /\ conn'[q] = conn[q]
      BY <1>6 DEF FileInv, BackupInv
    <3>2. CASE conn[q].found = conn[p].found
      BY <1>9, <3>1, <3>2 DEF BackupOf
    <3>3. CASE conn[q].found # conn[p].found
      <4>1. backup'[conn[q].found] = backup[conn[q].found] \/ conn[q].found \notin 1..Latest
        BY <3>3 DEF FileInv, FileTypeOK
      <4>2. conn[q].found # 0 => conn[q].found \in 1..Latest
        BY Assumed DEF FileInv, FileTypeOK, Connection
      <4>3. Overwriting(q) => Overwriting(q)'
        BY <1>6, <3>1, <3>3 DEF Overwriting
      <4> QED
        BY <3>1, <4>1, <4>2, <4>3 DEF BackupOf
    <3> QED
      BY <3>2, <3>3
  <2> QED
    BY <2>1, <2>2 DEF BackupInv
<1> QED
  BY <1>2, <1>4, <1>5, <1>7, <1>10, LooksOn DEF FileInv, FileTypeOK
-----------------------------------------------------------------------------
\* The holder of the lock moves and keeps it, or takes it, and the file stays.
LEMMA HolderMoves ==
    ASSUME FileInv, NEW p \in Openers, NEW c, conn' = [conn EXCEPT ![p] = c],
           UNCHANGED <<file, backup>>, lock \in {p, NoOne}, lock' = p,
           conn[p].pc \notin {"copying", "dead"},
           Opening(c, file.version), c.pc \in {"building", "open"}, c.pc = "open" => file.version = Latest,
           working' \in Content, WorkInv', BackupOf(p)'
    PROVE  FileInv'
<1>1. file.version \in 0..Latest /\ file'.version = file.version
  BY DEF FileInv, FileTypeOK, Content
<1>2. file.version <= file'.version /\ file'.version \in 0..Latest /\ Opening(c, file'.version)
  BY <1>1, Assumed
<1>3. /\ OpeningInv' /\ conn' \in [Openers -> Connection]
      /\ conn'[p] = c /\ \A q \in Openers \ {p} : conn'[q] = conn[q]
  BY <1>2, OneMoves
<1>4. FileTypeOK'
  BY <1>3 DEF FileInv, FileTypeOK
<1>5. FileWhole'
  BY <1>3 DEF FileInv, FileWhole, Open
<1>6. LockInv'
  BY <1>3, Assumed DEF FileInv, LockInv
<1>7. BackupInv'
  BY <1>3, OthersBackup DEF BackupInv
<1> QED
  BY <1>3, <1>4, <1>5, <1>6, <1>7 DEF FileInv

\* The holder of the lock lets go of it, and the file stays.
LEMMA HolderReleases ==
    ASSUME FileInv, NEW p \in Openers, NEW c, conn' = [conn EXCEPT ![p] = c],
           UNCHANGED <<file, backup>>, lock = p, Release,
           Opening(c, file.version), c.depth = 0, c.pc \in {"closed", "open", "dead"},
           c.pc = "open" => file.version = Latest
    PROVE  FileInv'
<1>1. file.version \in 0..Latest /\ file'.version = file.version
  BY DEF FileInv, FileTypeOK, Content
<1>2. file.version <= file'.version /\ file'.version \in 0..Latest /\ Opening(c, file'.version)
  BY <1>1, Assumed
<1>3. /\ OpeningInv' /\ conn' \in [Openers -> Connection]
      /\ conn'[p] = c /\ \A q \in Openers \ {p} : conn'[q] = conn[q]
  BY <1>2, OneMoves
<1>4. FileTypeOK'
  BY <1>3, Assumed, FileOfWhole DEF FileInv, FileTypeOK, Release
<1>5. FileWhole'
  BY <1>3 DEF FileInv, FileWhole, Open
<1>6. LockInv' /\ WorkInv'
  BY <1>3, Assumed DEF FileInv, LockInv, WorkInv, Release
<1>7. conn[p].pc \notin {"copying", "dead"}
  BY Assumed DEF FileInv, LockInv
<1>8. BackupInv'
  BY <1>3, <1>7, OthersBackup DEF BackupInv, BackupOf
<1> QED
  BY <1>3, <1>4, <1>5, <1>6, <1>8 DEF FileInv

LEMMA BeginBuildingKeeps == ASSUME FileInv, NEW p \in Openers, BeginBuilding(p) PROVE FileInv'
<1> USE DEF BeginBuilding, Goto
<1> DEFINE c == [conn[p] EXCEPT !.pc = "building"]
<1>1. conn[p] \in Connection /\ Opening(conn[p], file.version) /\ file \in Content
  BY OpeningOfAll DEF FileInv, FileTypeOK
<1>2. c.pc = "building" /\ c.copied = conn[p].copied /\ c.found = conn[p].found /\ c.step = conn[p].step /\ c.depth = conn[p].depth
  BY <1>1 DEF Connection
<1>3. c \in Connection
  BY <1>1 DEF Connection
<1>4. Opening(c, file.version)
  BY <1>1, <1>2, <1>3 DEF Opening
<1>5. conn'[p] = c /\ \A q \in Openers \ {p} : conn'[q] = conn[q]
  BY DEF FileInv, FileTypeOK
<1>6. WorkInv'
  <2>1. c.found = c.step /\ c.step \in Nat
    BY <1>1, <1>2, Assumed DEF Opening, Connection
  <2> QED
    BY <1>2, <1>5, <2>1 DEF WorkInv
<1>7. BackupOf(p)'
  <2>1. Overwriting(p) => Overwriting(p)'
    BY <1>2, <1>5 DEF Overwriting
  <2> QED
    BY <1>2, <1>5, <2>1 DEF FileInv, BackupInv, BackupOf
<1> QED
  BY <1>1, <1>2, <1>4, <1>6, <1>7, HolderMoves

\* The tables of the versions up to one, and those of the next ones, are those up to the last.
LEMMA NextVersions ==
    ASSUME NEW v \in 0..Latest, NEW u \in 0..Latest, v < u
    PROVE  /\ (1..v) \cup ((v + 1)..u) = 1..u
           /\ (Rewriting \cap (1..v)) \cup (Rewriting \cap ((v + 1)..u)) = Rewriting \cap (1..u)
<1>1. (1..v) \cup ((v + 1)..u) = 1..u
  BY Assumed
<1> QED
  BY <1>1

LEMMA BuildStepKeeps == ASSUME FileInv, NEW p \in Openers, BuildStep(p) PROVE FileInv'
<1> DEFINE upto == IF conn[p].found = 0 THEN Latest ELSE conn[p].step + 1
           new == (conn[p].step + 1)..upto
           c == [conn[p] EXCEPT !.step = upto]
<1>1. conn[p] \in Connection /\ Opening(conn[p], file.version) /\ file \in Content
  BY OpeningOfAll DEF FileInv, FileTypeOK
<1>2. lock = p /\ conn[p].pc = "building" /\ conn[p].step < Latest /\ p # NoOne
  BY Assumed DEF BuildStep, FileInv, LockInv
<1>3. conn[p].step \in 0..Latest /\ upto \in 0..Latest /\ conn[p].step < upto /\ conn[p].found \in 0..Latest
  BY <1>1, <1>2, Assumed DEF Connection
<1>4. CASE working.tables \cap new = {}
  <2>1. /\ working' = [working EXCEPT !.tables = @ \cup new, !.rewritten = @ \cup (Rewriting \cap new)]
        /\ conn' = [conn EXCEPT ![p] = c] /\ lock' = lock /\ UNCHANGED <<file, backup>>
    BY <1>4 DEF BuildStep, Goto
  <2>2. c.pc = "building" /\ c.copied = conn[p].copied /\ c.found = conn[p].found /\ c.step = upto /\ c.depth = conn[p].depth
    BY <1>1, <1>2 DEF Connection
  <2>3. c \in Connection
    BY <1>1, <1>3 DEF Connection
  <2>4. Opening(c, file.version)
    BY <1>1, <1>2, <2>2, <2>3 DEF Opening
  <2>5. conn'[p] = c /\ \A q \in Openers \ {p} : conn'[q] = conn[q]
    BY <2>1 DEF FileInv, FileTypeOK
  <2>6. /\ conn[p].found <= conn[p].step
        /\ conn[p].step = conn[p].found => working = file
        /\ conn[p].step # conn[p].found => file.version = conn[p].found /\ working = Built(conn[p].step)
    BY <1>2 DEF FileInv, WorkInv
  <2>7. file.version = conn[p].found
    <3>1. CASE conn[p].step = conn[p].found
      <4>1. SUFFICES ASSUME conn[p].found < file.version PROVE FALSE
        BY <1>1, <1>3, Assumed DEF Opening, Content
      <4>2. file.version \in 0..Latest
        BY <1>1 DEF Content
      <4>3. conn[p].step + 1 \in new /\ conn[p].step + 1 \in 1..file.version
        BY <1>3, <3>1, <4>1, <4>2, Assumed
      <4>4. working.tables = 1..file.version
        BY <2>6, <3>1 DEF FileInv, FileWhole
      <4> QED
        BY <1>4, <4>3, <4>4
    <3> QED
      BY <2>6, <3>1
  <2>8. working = Built(conn[p].step)
    <3>1. CASE conn[p].step = conn[p].found
      <4>1. file = Built(file.version)
        BY <1>1 DEF Built, FileInv, FileWhole, Content
      <4> QED
        BY <2>6, <2>7, <3>1, <4>1
    <3> QED
      BY <2>6, <3>1
  <2>9. working' = Built(upto)
    BY <1>3, <2>1, <2>8, NextVersions DEF Built
  <2>10. working' \in Content
    BY <1>1, <1>3, <2>9, Assumed DEF Built, Content
  <2>11. WorkInv'
    <3>1. PICK u \in 0..Latest : u = upto
      BY <1>3
    <3>2. working' = Built(u) /\ conn'[p].step = u /\ conn'[p].found = conn[p].found
      BY <2>2, <2>5, <2>9, <3>1
    <3>3. working' = Built(u)'
      BY <2>1, <3>2 DEF Built
    <3>4. file'.version = conn'[p].found /\ conn'[p].found < conn'[p].step
      BY <1>3, <2>1, <2>6, <2>7, <3>1, <3>2, Assumed
    <3>5. conn'[p].pc = "building" /\ lock' = p
      BY <1>2, <2>1, <2>2, <2>5
    <3>6. conn'[p].found <= conn'[p].step /\ conn'[p].step # conn'[p].found
      BY <1>3, <3>2, <3>4, Assumed
    <3>7. conn'[p].step = u
      BY <3>2
    <3> QED
      BY <3>3, <3>4, <3>5, <3>6, <3>7 DEF WorkInv
  <2>12. BackupOf(p)'
    <3>1. Overwriting(p) => Overwriting(p)'
      BY <2>2, <2>5 DEF Overwriting
    <3> QED
      BY <1>2, <2>1, <2>2, <2>5, <3>1 DEF FileInv, BackupInv, BackupOf
  <2> QED
    BY <1>2, <2>1, <2>2, <2>4, <2>10, <2>11, <2>12, HolderMoves
<1>5. CASE working.tables \cap new # {}
  <2>1. Release /\ conn' = [conn EXCEPT ![p] = Closed] /\ UNCHANGED <<file, backup>>
    BY <1>5 DEF BuildStep, FailToOpen, Goto
  <2>2. Opening(Closed, file.version) /\ Closed.depth = 0 /\ Closed.pc = "closed"
    BY <1>1, ClosedOpens, Assumed DEF Closed, Content
  <2> QED
    BY <1>2, <2>1, <2>2, HolderReleases
<1> QED
  BY <1>4, <1>5
-----------------------------------------------------------------------------
\* The holder of the lock commits a file of the latest version that is whole.
LEMMA HolderCommits ==
    ASSUME FileInv, NEW p \in Openers, NEW c, conn' = [conn EXCEPT ![p] = c],
           lock = p, Release, UNCHANGED backup, Opening(c, Latest), c.pc = "open", c.depth = 0,
           file' \in Content, file'.version = Latest, file'.tables = 1..Latest,
           file'.rewritten = Rewriting \cap (1..Latest),
           \A r \in file'.records : Needs[r] \subseteq file'.records
    PROVE  FileInv'
<1>1. file.version \in 0..Latest
  BY DEF FileInv, FileTypeOK, Content
<1>2. file.version <= file'.version /\ file'.version \in 0..Latest /\ Opening(c, file'.version)
  BY <1>1, Assumed
<1>3. /\ OpeningInv' /\ conn' \in [Openers -> Connection]
      /\ conn'[p] = c /\ \A q \in Openers \ {p} : conn'[q] = conn[q]
  BY <1>2, OneMoves
<1>4. FileTypeOK'
  BY <1>3, Assumed, FileOfWhole DEF FileInv, FileTypeOK, Release
<1>5. FileWhole'
  BY DEF FileWhole
<1>6. LockInv' /\ WorkInv'
  BY <1>3, Assumed DEF FileInv, LockInv, WorkInv, Release
<1>7. BackupInv'
  <2> SUFFICES ASSUME NEW q \in Openers, conn'[q].pc \in {"copying", "locking", "building"}
               PROVE  conn'[q].found # Latest
    BY DEF BackupInv, BackupOf
  <2> QED
    BY <1>3, Assumed DEF OpeningInv, Connection
<1> QED
  BY <1>3, <1>4, <1>5, <1>6, <1>7 DEF FileInv

\* What a build that has come to the latest version is about to commit.
LEMMA BuildIsOver ==
    ASSUME FileInv, NEW p \in Openers, conn[p].pc = "building", conn[p].step = Latest
    PROVE  /\ lock = p /\ working = Built(Latest) /\ working \in Content
           /\ file.version = conn[p].found /\ conn[p].found < Latest
<1>1. conn[p] \in Connection /\ Opening(conn[p], file.version)
  BY OpeningOfAll
<1>2. lock = p /\ p # NoOne /\ conn[p].found < Latest /\ conn[p].step # conn[p].found
  BY <1>1, Assumed DEF FileInv, LockInv, Opening, Connection
<1> QED
  BY <1>2 DEF FileInv, WorkInv, FileTypeOK

LEMMA CommitBuildingKeeps ==
    ASSUME FileInv, NEW p \in Openers, NEW ok \in BOOLEAN, CommitBuilding(p, ok)
    PROVE  FileInv'
<1>1. conn[p] \in Connection /\ Opening(conn[p], file.version) /\ file \in Content
  BY OpeningOfAll DEF FileInv, FileTypeOK
<1>2. /\ lock = p /\ working = Built(Latest) /\ working \in Content
      /\ file.version = conn[p].found /\ conn[p].found < Latest
  BY BuildIsOver DEF CommitBuilding
<1>3. CASE ok
  <2> DEFINE c == [conn[p] EXCEPT !.pc = "open"]
  <2>1. /\ conn' = [conn EXCEPT ![p] = c] /\ Release /\ UNCHANGED backup
        /\ file' = [working EXCEPT !.version = Latest] /\ conn[p].pc = "building"
    BY <1>3 DEF CommitBuilding, Goto
  <2>2. /\ file' \in Content /\ file'.version = Latest /\ file'.tables = 1..Latest
        /\ file'.rewritten = Rewriting \cap (1..Latest) /\ file'.records = file.records
    BY <1>2, <2>1, Assumed DEF Content, Built
  <2>3. c.pc = "open" /\ c.found = conn[p].found /\ c.depth = conn[p].depth /\ c \in Connection
    BY <1>1 DEF Connection
  <2>4. Opening(c, Latest) /\ c.depth = 0
    BY <1>1, <1>2, <2>1, <2>3, Assumed DEF Opening, Connection
  <2>5. \A r \in file'.records : Needs[r] \subseteq file'.records
    BY <2>2 DEF FileInv, FileWhole
  <2> QED
    BY <1>2, <2>1, <2>2, <2>3, <2>4, <2>5, HolderCommits
<1>4. CASE ~ok
  <2>1. Release /\ conn' = [conn EXCEPT ![p] = Closed] /\ UNCHANGED <<file, backup>>
    BY <1>4 DEF CommitBuilding, FailToOpen, Goto
  <2>2. Opening(Closed, file.version) /\ Closed.depth = 0 /\ Closed.pc = "closed"
    BY <1>1, ClosedOpens, Assumed DEF Closed, Content
  <2> QED
    BY <1>2, <2>1, <2>2, HolderReleases
<1> QED
  BY <1>3, <1>4

\* A connection in a transaction sees the file with some records more.
LEMMA Transacting ==
    ASSUME FileInv, NEW p \in Openers, Open(p)
    PROVE  /\ file.version = Latest /\ conn[p] \in Connection /\ Opening(conn[p], file.version)
           /\ file \in Content /\ file.tables = 1..Latest /\ file.rewritten = Rewriting \cap (1..Latest)
           /\ conn[p].depth > 0 => lock = p
           /\ lock = p =>
                /\ working = [file EXCEPT !.records = working.records]
                /\ file.records \subseteq working.records
                /\ \A r \in working.records : Needs[r] \subseteq working.records
<1>1. conn[p] \in Connection /\ Opening(conn[p], file.version) /\ file \in Content
  BY OpeningOfAll DEF FileInv, FileTypeOK
<1>2. file.version = Latest
  BY DEF FileInv, FileWhole
<1>3. conn[p].depth > 0 => lock = p
  BY DEF FileInv, LockInv, Open
<1> QED
  BY <1>1, <1>2, <1>3, Assumed DEF FileInv, FileWhole, WorkInv, Open

\* How deep the blocks of a transaction nest is of no account as long as the lock is held.
LEMMA DepthKeeps ==
    ASSUME FileInv, NEW p \in Openers, Open(p), NEW d \in 0..MaxDepth,
           Goto(p, [conn[p] EXCEPT !.depth = d]), lock \in {p, NoOne}, lock' = p,
           IF lock = p THEN UNCHANGED working ELSE working' = file,
           UNCHANGED <<file, backup>>
    PROVE  FileInv'
<1> DEFINE c == [conn[p] EXCEPT !.depth = d]
<1>1. /\ file.version = Latest /\ conn[p] \in Connection /\ Opening(conn[p], file.version)
      /\ file \in Content
      /\ lock = p =>
            /\ working = [file EXCEPT !.records = working.records]
            /\ file.records \subseteq working.records
            /\ \A r \in working.records : Needs[r] \subseteq working.records
  BY Transacting
<1>2. c.pc = "open" /\ c.found = conn[p].found /\ c.depth = d /\ c \in Connection
  BY <1>1 DEF Connection, Open
<1>3. Opening(c, file.version) /\ conn' = [conn EXCEPT ![p] = c]
  BY <1>1, <1>2 DEF Opening, Goto
<1>4. conn'[p] = c
  BY <1>3 DEF FileInv, FileTypeOK
<1>5. working' \in Content
  BY <1>1 DEF FileInv, FileTypeOK
<1>6. WorkInv'
  <2>1. file = [file EXCEPT !.records = file.records]
    BY <1>1 DEF Content
  <2> QED
    BY <1>1, <1>2, <1>4, <2>1 DEF WorkInv, FileInv, FileWhole
<1>7. BackupOf(p)'
  BY <1>2, <1>4 DEF BackupOf
<1>8. conn[p].pc = "open"
  BY DEF Open
<1> QED
  BY <1>1, <1>2, <1>3, <1>5, <1>6, <1>7, <1>8, HolderMoves

LEMMA AddRecordKeeps ==
    ASSUME FileInv, NEW p \in Openers, NEW r \in Records, AddRecord(p, r)
    PROVE  FileInv'
<1>1. /\ file.version = Latest /\ conn[p] \in Connection /\ Opening(conn[p], file.version) /\ lock = p
      /\ working = [file EXCEPT !.records = working.records] /\ file.records \subseteq working.records
      /\ \A x \in working.records : Needs[x] \subseteq working.records
  BY Transacting DEF AddRecord
<1>2. /\ working \in Content /\ file \in Content /\ conn \in [Openers -> Connection]
  BY DEF FileInv, FileTypeOK
<1>3. /\ working' = [working EXCEPT !.records = @ \cup {r}] /\ Needs[r] \subseteq working.records
      /\ conn[p].pc = "open" /\ UNCHANGED <<file, backup, lock, conn>>
  BY DEF AddRecord, Addable, Open
<1>4. working' \in Content /\ working'.records = working.records \cup {r}
  BY <1>2, <1>3 DEF Content
<1>5. working' = [file EXCEPT !.records = working'.records]
  BY <1>1, <1>2, <1>3, <1>4 DEF Content
<1>6. WorkInv'
  BY <1>1, <1>3, <1>4, <1>5 DEF WorkInv
<1>7. BackupOf(p)'
  BY <1>3 DEF BackupOf
<1>8. conn' = [conn EXCEPT ![p] = conn[p]]
  BY <1>2, <1>3
<1> QED
  BY <1>1, <1>3, <1>4, <1>6, <1>7, <1>8, HolderMoves

LEMMA CommitKeeps == ASSUME FileInv, NEW p \in Openers, Commit(p) PROVE FileInv'
<1> DEFINE c == [conn[p] EXCEPT !.depth = 0]
<1>1. /\ file.version = Latest /\ conn[p] \in Connection /\ Opening(conn[p], file.version) /\ lock = p
      /\ file \in Content /\ file.tables = 1..Latest /\ file.rewritten = Rewriting \cap (1..Latest)
      /\ working = [file EXCEPT !.records = working.records] /\ file.records \subseteq working.records
      /\ \A x \in working.records : Needs[x] \subseteq working.records
  BY Transacting DEF Commit
<1>2. file' = working /\ Release /\ conn' = [conn EXCEPT ![p] = c] /\ UNCHANGED backup /\ conn[p].pc = "open"
  BY DEF Commit, Goto, Open
<1>3. c.pc = "open" /\ c.found = conn[p].found /\ c.depth = 0 /\ c \in Connection
  BY <1>1, <1>2, Assumed DEF Connection
<1>4. Opening(c, Latest)
  BY <1>1, <1>3 DEF Opening
<1>5. working.version = file.version /\ working.tables = file.tables /\ working.rewritten = file.rewritten
  BY <1>1 DEF Content
<1>6. working \in Content
  BY DEF FileInv, FileTypeOK
<1> QED
  BY <1>1, <1>2, <1>3, <1>4, <1>5, <1>6, HolderCommits

LEMMA ExceptionLeavesKeeps == ASSUME FileInv, NEW p \in Openers, ExceptionLeaves(p) PROVE FileInv'
<1> DEFINE c == [conn[p] EXCEPT !.depth = 0]
<1>1. file.version = Latest /\ conn[p] \in Connection /\ Opening(conn[p], file.version) /\ lock = p
  BY Transacting DEF ExceptionLeaves
<1>2. Release /\ conn' = [conn EXCEPT ![p] = c] /\ UNCHANGED <<file, backup>> /\ conn[p].pc = "open"
  BY DEF ExceptionLeaves, Goto, Open
<1>3. c.pc = "open" /\ c.found = conn[p].found /\ c.depth = 0 /\ c \in Connection
  BY <1>1, <1>2, Assumed DEF Connection
<1>4. Opening(c, file.version)
  BY <1>1, <1>3 DEF Opening
<1> QED
  BY <1>1, <1>2, <1>3, <1>4, HolderReleases

LEMMA DisconnectKeeps ==
    ASSUME FileInv, NEW p \in Openers, NEW pc \in {"closed", "dead"}, Disconnect(p, pc),
           conn[p].pc = "copying" => pc = "dead"
    PROVE  FileInv'
<1> DEFINE c == [Closed EXCEPT !.pc = pc]
<1>1. conn' = [conn EXCEPT ![p] = c] /\ UNCHANGED <<file, backup>> /\ conn[p].pc # "dead"
  BY DEF Disconnect, Goto
<1>2. c \in Connection /\ c.pc = pc /\ c.found = 0 /\ c.depth = 0
  BY ClosedConnection, Assumed DEF Closed, Connection
<1>3. Opening(c, file.version)
  BY <1>2 DEF Opening, FileInv, FileTypeOK, Content
<1>4. CASE lock = p
  BY <1>1, <1>2, <1>3, <1>4, HolderReleases DEF Disconnect
<1>5. CASE lock # p
  <2>1. UNCHANGED <<lock, working>>
    BY <1>5 DEF Disconnect
  <2>2. file.version \in 0..Latest /\ file'.version = file.version
    BY <1>1 DEF FileInv, FileTypeOK, Content
  <2>3. file.version <= file'.version /\ file'.version \in 0..Latest /\ Opening(c, file'.version)
    BY <1>3, <2>2, Assumed
  <2>4. /\ OpeningInv' /\ conn' \in [Openers -> Connection]
        /\ conn'[p] = c /\ \A q \in Openers \ {p} : conn'[q] = conn[q]
    BY <1>1, <2>3, OneMoves
  <2>5. FileTypeOK' /\ FileWhole'
    BY <1>1, <1>2, <2>1, <2>4 DEF FileInv, FileTypeOK, FileWhole, Open
  <2>6. LockInv' /\ WorkInv'
    BY <1>1, <1>2, <1>5, <2>1, <2>4 DEF FileInv, FileTypeOK, LockInv, WorkInv, Built
  <2>7. BackupInv'
    BY <1>1, <1>2, <2>4, OthersBackup DEF BackupInv, BackupOf
  <2> QED
    BY <2>4, <2>5, <2>6, <2>7 DEF FileInv
<1> QED
  BY <1>4, <1>5
-----------------------------------------------------------------------------
\* Nothing changes.
LEMMA FileStutters == ASSUME FileInv, UNCHANGED fileVars PROVE FileInv'
  BY DEF fileVars, FileInv, FileTypeOK, FileWhole, OpeningInv, LockInv, WorkInv, BackupInv, BackupOf,
         Overwriting, Built, Open

LEMMA FileInvStep == FileInv /\ [FileNext]_fileVars => FileInv'
<1> SUFFICES ASSUME FileInv, FileNext PROVE FileInv'
  BY FileStutters
<1>1. PICK p \in Openers :
        \/ ReadVersion(p) \/ CountTables(p) \/ StartCopy(p) \/ EndCopy(p)
        \/ BeginBuilding(p) \/ BuildingLocked(p) \/ BuildStep(p) \/ \E ok \in BOOLEAN : CommitBuilding(p, ok)
        \/ Begin(p) \/ Nest(p) \/ (\E r \in Records : AddRecord(p, r)) \/ Unnest(p)
        \/ Commit(p) \/ CommitRaises(p) \/ ExceptionLeaves(p) \/ Close(p) \/ ProcessKilled(p)
  BY DEF FileNext
<1>2. CASE ReadVersion(p) \/ CountTables(p) \/ StartCopy(p) \/ EndCopy(p)
  BY <1>2, ReadVersionKeeps, CountTablesKeeps, StartCopyKeeps, EndCopyKeeps
<1>3. CASE BeginBuilding(p) \/ BuildingLocked(p) \/ BuildStep(p) \/ \E ok \in BOOLEAN : CommitBuilding(p, ok)
  BY <1>3, BeginBuildingKeeps, BuildingLockedKeeps, BuildStepKeeps, CommitBuildingKeeps
<1>4. conn[p].depth \in 0..MaxDepth
  BY DEF FileInv, FileTypeOK, Connection
<1>5. CASE Begin(p)
  <2>1. lock # p
    BY <1>5, Assumed DEF Begin
  <2> QED
    BY <1>5, <2>1, DepthKeeps, Assumed DEF Begin
<1>6. CASE Nest(p)
  <2>1. lock = p /\ conn[p].depth + 1 \in 0..MaxDepth
    BY <1>4, <1>6, Transacting, Assumed DEF Nest
  <2>2. Goto(p, [conn[p] EXCEPT !.depth = conn[p].depth + 1])
    BY <1>6 DEF Nest
  <2> QED
    BY <1>6, <2>1, <2>2, DepthKeeps DEF Nest
<1>7. CASE Unnest(p)
  <2>1. lock = p /\ conn[p].depth - 1 \in 0..MaxDepth
    BY <1>4, <1>7, Transacting, Assumed DEF Unnest
  <2>2. Goto(p, [conn[p] EXCEPT !.depth = conn[p].depth - 1])
    BY <1>7 DEF Unnest
  <2> QED
    BY <1>7, <2>1, <2>2, DepthKeeps DEF Unnest
<1>8. CASE CommitRaises(p)
  <2>1. lock = p
    BY <1>8, Transacting DEF CommitRaises
  <2> QED
    BY <1>8, <2>1, DepthKeeps, Assumed DEF CommitRaises
<1>9. CASE (\E r \in Records : AddRecord(p, r)) \/ Commit(p) \/ ExceptionLeaves(p)
  BY <1>9, AddRecordKeeps, CommitKeeps, ExceptionLeavesKeeps
<1>10. CASE Close(p) \/ ProcessKilled(p)
  BY <1>10, DisconnectKeeps DEF Close, ProcessKilled, Open
<1> QED
  BY <1>1, <1>2, <1>3, <1>5, <1>6, <1>7, <1>8, <1>9, <1>10

\* What is committed over the file is the file with something more, and over an older version
\* only what was built on the copy that was made of it.
LEMMA KeptStep == FileInv /\ [FileNext]_fileVars => [FileKept]_fileVars
<1> SUFFICES ASSUME FileInv, FileNext PROVE FileKept
  OBVIOUS
<1>1. ASSUME UNCHANGED file PROVE FileKept
  BY <1>1 DEF FileKept
<1>2. ASSUME NEW p \in Openers, Commit(p) PROVE FileKept
  <2>1. file.records \subseteq working.records /\ working = [file EXCEPT !.records = working.records] /\ file \in Content
    BY <1>2, Transacting DEF Commit
  <2>2. file'.records = working.records /\ file'.version = file.version
    BY <1>2, <2>1 DEF Commit, Content
  <2> QED
    BY <2>1, <2>2 DEF FileKept
<1>3. ASSUME NEW p \in Openers, CommitBuilding(p, TRUE) PROVE FileKept
  <2>1. /\ lock = p /\ working = Built(Latest) /\ working \in Content
        /\ file.version = conn[p].found /\ conn[p].found < Latest
    BY <1>3, BuildIsOver DEF CommitBuilding
  <2>2. file'.records = file.records
    BY <1>3, <2>1 DEF CommitBuilding, Built
  <2>3. conn[p].pc = "building" /\ BackupOf(p)
    BY <1>3 DEF CommitBuilding, FileInv, BackupInv
  <2>4. file.version # 0 => conn[p].copied = file /\ (backup[file.version] = {file} \/ Overwriting(p))
    BY <2>1, <2>3 DEF BackupOf
  <2> QED
    BY <2>1, <2>2, <2>4 DEF FileKept, Overwriting
<1>4. CASE \E p \in Openers : CommitBuilding(p, FALSE)
  BY <1>1, <1>4 DEF CommitBuilding
<1>5. CASE \E p \in Openers :
        \/ ReadVersion(p) \/ CountTables(p) \/ StartCopy(p) \/ EndCopy(p)
        \/ BeginBuilding(p) \/ BuildingLocked(p) \/ Begin(p) \/ Nest(p)
        \/ (\E r \in Records : AddRecord(p, r)) \/ Unnest(p)
        \/ CommitRaises(p) \/ ExceptionLeaves(p) \/ Close(p) \/ ProcessKilled(p)
  BY <1>1, <1>5 DEF ReadVersion, CountTables, StartCopy, EndCopy, BeginBuilding, BuildingLocked, Begin, Nest,
                    AddRecord, Unnest, CommitRaises, ExceptionLeaves, Close, ProcessKilled, Disconnect
<1>6. CASE \E p \in Openers : BuildStep(p)
  BY <1>1, <1>6 DEF BuildStep
<1> QED
  BY <1>2, <1>3, <1>4, <1>5, <1>6 DEF FileNext

\* The inductive invariant, with the types, of processes that open, migrate and write the file.
THEOREM FileInductive == FileSpec => []FileInv
  BY FileInitial, FileInvStep, PTL DEF FileSpec

\* What is committed is at every moment the file some version describes, whole.
THEOREM FileAlwaysWhole == FileSpec => []FileWhole
<1>1. FileInv => FileWhole
  BY DEF FileInv
<1> QED
  BY <1>1, FileInductive, PTL

\* All steps or none: no step of any process leaves a file that is not whole, loses a record, or
\* migrates over a file that was not copied before.
THEOREM FileAllOrNothing == FileSpec => AllOrNothing
<1>1. FileInv /\ FileInv' /\ [FileNext]_fileVars => [FileKept /\ FileWhole']_fileVars
  BY KeptStep DEF FileInv
<1> QED
  BY <1>1, FileInitial, FileInvStep, PTL DEF FileSpec, AllOrNothing

(***************************************************************************)
(* Dossiers.  What is on record of a dossier only grows, and each of its   *)
(* parts came with the findings it calls for; what a writer carries from   *)
(* one query to the next is what later ones cannot take back.              *)
(***************************************************************************)

Kinds == {"run", "analysis", "reproduction_attempt", "statistical_analysis"}
Bundles == [Entities -> Nat]
Statement == {"records"} \X Kinds \X {Cardinality(S) : S \in SUBSET Entities}
RecordedReport == [template : Templates, bundle : Bundles, gaps : SUBSET UNION Templates]
ReportFinding == [report : RecordedReport, statement : Statement]
Item == [dossier : Bundles, entity : Entities, traced : BOOLEAN]
Writing ==
    [at : {"collect", "ended", "reports", "provenance", "persist", "freeze"}, step : Nat, bundle : Bundles,
     reports : SUBSET RecordedReport, imported : SUBSET ReportFinding, traced : SUBSET AllRuns, dossier : Bundles,
     items : SUBSET Item]

DossierTypes ==
    /\ evidence \in Bundles /\ traced \subseteq AllRuns
    /\ reports \subseteq RecordedReport /\ reportFindings \subseteq ReportFinding
    /\ items \subseteq Item
    /\ \A d \in dossiers : d.bundle \in Bundles
    /\ writer \in [Writers -> Writing]

\* The findings of reports are with them.
WithFindings(rs, fs) == \A r \in rs : \A s \in Counted(r.bundle) : [report |-> r, statement |-> s] \in fs

OnFile(id) == \E d \in dossiers : d.bundle = id
ItemsOf(id) == {i \in items : i.dossier = id}
FindingsOf(id) == {f \in findings : f.dossier = id}

\* Nothing belongs to a dossier that is not on record.
Belongs == \A x \in items \union findings \union snapshots : OnFile(x.dossier)

WriterInv(w) ==
    /\ writer[w].at \in {"provenance", "persist"} => WithFindings(writer[w].reports, writer[w].imported)
    /\ writer[w].at = "freeze" =>
          OnFile(writer[w].dossier) /\ writer[w].items \subseteq ItemsOf(writer[w].dossier)

DossierInv ==
    /\ DossierTypes /\ WithFindings(reports, reportFindings) /\ Belongs /\ NothingHidden
    /\ \A w \in Writers : WriterInv(w)

-----------------------------------------------------------------------------
LEMMA KindsInOrder ==
    /\ Len(KindOrder) = 4 /\ DOMAIN KindOrder = 1..4
    /\ \A i \in 1..4 : KindOrder[i] \in Kinds
BY DEF KindOrder, Kinds

\* The digest forgets the runs of others, which are no analyses and no attempts.
LEMMA DigestKeeps ==
    ASSUME NEW b \in Bundles
    PROVE  /\ Digest(b) \in Bundles
           /\ \A kind \in EvidenceKinds : Collected(Digest(b), kind) = Collected(b, kind)
<1>1. Digest(b) \in Bundles
  BY DEF Digest, Bundles
<1>2. ASSUME NEW kind \in EvidenceKinds PROVE Collected(Digest(b), kind) = Collected(b, kind)
  <2>1. OfKind(kind) \subseteq Entities /\ OfKind(kind) \intersect Foreign = {}
    BY DossierAssumption DEF OfKind, EvidenceKinds, Entities
  <2>2. \A e \in OfKind(kind) : Digest(b)[e] = b[e]
    BY <2>1 DEF Digest
  <2> QED
    BY <2>2 DEF Collected
<1> QED
  BY <1>1, <1>2

\* Every statement of the new findings is told once they are kept, by one finding.
LEMMA KeptTells ==
    ASSUME NEW new, NEW id, \A f \in new : f.dossier = id
    PROVE  /\ Kept(new, id) \subseteq new
           /\ \A f \in new : Told(f.statement, id) \/ \E g \in Kept(new, id) : g.statement = f.statement
           /\ \A f \in Kept(new, id) : ~Told(f.statement, id)
           /\ \A f, g \in Kept(new, id) : f.statement = g.statement => f = g
<1> DEFINE one(s) == CHOOSE f \in new : f.statement = s
           untold == {t \in {f.statement : f \in new} : ~Told(t, id)}
<1>1. Kept(new, id) = {one(s) : s \in untold}
  BY DEF Kept
<1>2. ASSUME NEW s \in untold PROVE one(s) \in new /\ one(s).statement = s
  <2>1. \E f \in new : f.statement = s
    OBVIOUS
  <2> QED
    BY <2>1
<1>3. \A f \in new : ~Told(f.statement, id) => f.statement \in untold
  OBVIOUS
<1>4. \A s \in untold : ~Told(s, id)
  OBVIOUS
<1> HIDE DEF one, untold
<1> QED
  BY <1>1, <1>2, <1>3, <1>4

\* A dossier that hides nothing goes on so while findings are added, with new items only as told of.
LEMMA StaysComplete ==
    ASSUME NEW d, NEW its, NEW more, NEW found, NEW all, Complete(d, its, found), found \subseteq all,
           \A f, g \in all : f.statement = g.statement => f = g,
           \A i \in more \ its : i.entity \in AllRuns /\ ~i.traced => Tells(all, <<"no provenance", i.entity>>),
           /\ \E i \in more \ its : i.entity \in AllRuns
           /\ Collected(d.bundle, "reproduction_attempt") = {}
           => Tells(all, <<"no reproduction attempts">>)
    PROVE  Complete(d, more, all)
<1>1. \A s : Tells(found, s) => Tells(all, s)
  BY DEF Tells
<1>2. /\ \A kind \in EvidenceKinds : Collected(d.bundle, kind) = {} => Tells(all, <<"none recorded", kind>>)
      /\ \A g \in d.gaps : Tells(all, g)
  BY <1>1 DEF Complete
<1>3. \A r \in d.reports :
         /\ \A kind \in r.gaps : Tells(all, <<"no evidence found", kind>>)
         /\ \A s \in Counted(r.bundle) : Tells(all, s)
  BY <1>1 DEF Complete
<1>4. \A i \in more : i.entity \in AllRuns /\ ~i.traced => Tells(all, <<"no provenance", i.entity>>)
  BY <1>1 DEF Complete
<1>5. (\E i \in more : i.entity \in AllRuns) /\ Collected(d.bundle, "reproduction_attempt") = {} =>
         Tells(all, <<"no reproduction attempts">>)
  BY <1>1 DEF Complete
<1>6. \A s \in Disagreeing : \E f \in all :
         f.statement = <<"conflicting", s>> /\ f.conflicts = {<<"conflicting", t>> : t \in Disagreeing \ {s}}
  BY DEF Complete
<1> QED
  BY <1>2, <1>3, <1>4, <1>5, <1>6 DEF Complete

LEMMA FewerItems ==
    ASSUME NEW d, NEW its, NEW fewer, NEW found, Complete(d, its, found), fewer \subseteq its
    PROVE  Complete(d, fewer, found)
<1>1. \A f, g \in found : f.statement = g.statement => f = g
  BY DEF Complete
<1> QED
  BY <1>1, StaysComplete

-----------------------------------------------------------------------------
\* What a builder finds to say.
LEMMA WhatIsFound ==
    ASSUME NEW w \in Builders
    PROVE  LET new == Imported(w) \union Weaknesses(w)
               id == Digest(writer[w].bundle)
           IN  /\ \A f \in new : f.dossier = id
               /\ \A g \in Gaps(w) : Tells(new, g)
               /\ \A r \in Untraced(w) : Tells(new, <<"no provenance", r>>)
               /\ Unreproduced(w) => Tells(new, <<"no reproduction attempts">>)
               /\ \A f \in writer[w].imported : Tells(new, f.statement)
               /\ \A s \in Disagreeing : Tells(new, <<"conflicting", s>>)
<1> DEFINE new == Imported(w) \union Weaknesses(w)
           id == Digest(writer[w].bundle)
<1>1. \A f \in Imported(w) : f.dossier = id
  BY DEF Imported, Finding
<1>2. ASSUME NEW f \in Weaknesses(w) PROVE f.dossier = id
  <2>1. \A statement, status : Finding(w, statement, status).dossier = id
    BY DEF Finding
  <2>2. \A statement, status, c : [Finding(w, statement, status) EXCEPT !.conflicts = c].dossier = id
    BY DEF Finding
  <2>3. \/ \E statement, status : f = Finding(w, statement, status)
        \/ \E statement, status, c : f = [Finding(w, statement, status) EXCEPT !.conflicts = c]
    <3>1. CASE \E g \in Gaps(w) : f = Finding(w, g, "MISSING_EXPECTED_EVIDENCE")
      BY <3>1
    <3>2. CASE \E r \in Untraced(w) : f = Finding(w, <<"no provenance", r>>, "PROVENANCE_GAP")
      BY <3>2
    <3>3. CASE f = Finding(w, <<"no reproduction attempts">>, "REPRODUCIBILITY_GAP")
      BY <3>3
    <3>4. CASE \E t \in Disagreeing :
                  f = [Finding(w, <<"conflicting", t>>, "CONFLICTING_EVIDENCE") EXCEPT
                          !.conflicts = {<<"conflicting", u>> : u \in Disagreeing \ {t}}]
      BY <3>4
    <3> QED
      BY <1>2, <3>1, <3>2, <3>3, <3>4 DEF Weaknesses
  <2>4. CASE \E statement, status : f = Finding(w, statement, status)
    BY <2>1, <2>4
  <2>5. CASE \E statement, status, c : f = [Finding(w, statement, status) EXCEPT !.conflicts = c]
    <3>1. PICK statement, status, c : f = [Finding(w, statement, status) EXCEPT !.conflicts = c]
      BY <2>5
    <3> QED
      BY <2>2, <3>1
  <2> QED
    BY <2>3, <2>4, <2>5
<1>3. \A g \in Gaps(w) : Tells(new, g)
  <2> TAKE g \in Gaps(w)
  <2>1. Finding(w, g, "MISSING_EXPECTED_EVIDENCE") \in new
    BY DEF Weaknesses
  <2> QED
    BY <2>1 DEF Tells, Finding
<1>4. \A r \in Untraced(w) : Tells(new, <<"no provenance", r>>)
  <2> TAKE r \in Untraced(w)
  <2>1. Finding(w, <<"no provenance", r>>, "PROVENANCE_GAP") \in new
    BY DEF Weaknesses
  <2> QED
    BY <2>1 DEF Tells, Finding
<1>5. ASSUME Unreproduced(w) PROVE Tells(new, <<"no reproduction attempts">>)
  <2>1. Finding(w, <<"no reproduction attempts">>, "REPRODUCIBILITY_GAP") \in new
    BY <1>5 DEF Weaknesses
  <2> QED
    BY <2>1 DEF Tells, Finding
<1>6. \A f \in writer[w].imported : Tells(new, f.statement)
  <2> TAKE f \in writer[w].imported
  <2> DEFINE told == [Finding(w, f.statement, "SUPPORTED") EXCEPT !.report = {f.report}]
  <2>1. told \in new
    BY DEF Imported
  <2>2. told.statement = f.statement
    BY DEF Finding
  <2> QED
    BY <2>1, <2>2 DEF Tells
<1>7. \A s \in Disagreeing : Tells(new, <<"conflicting", s>>)
  <2> TAKE s \in Disagreeing
  <2> DEFINE told == [Finding(w, <<"conflicting", s>>, "CONFLICTING_EVIDENCE") EXCEPT
                         !.conflicts = {<<"conflicting", t>> : t \in Disagreeing \ {s}}]
  <2>1. told \in new
    BY DEF Weaknesses
  <2>2. told.statement = <<"conflicting", s>>
    BY DEF Finding
  <2> QED
    BY <2>1, <2>2 DEF Tells
<1> QED
  BY <1>1, <1>2, <1>3, <1>4, <1>5, <1>6, <1>7

\* A statement about a disagreement is made with its other sides, whoever makes it.
LEMMA ConflictsNamed ==
    ASSUME NEW w \in Builders, writer[w].imported \subseteq ReportFinding, NEW s \in Disagreeing,
           NEW f \in Imported(w) \union Weaknesses(w), f.statement = <<"conflicting", s>>
    PROVE  f.conflicts = {<<"conflicting", t>> : t \in Disagreeing \ {s}}
<1>1. CASE f \in Imported(w)
  <2>1. PICK g \in writer[w].imported : f = [Finding(w, g.statement, "SUPPORTED") EXCEPT !.report = {g.report}]
    BY <1>1 DEF Imported
  <2>2. f.statement = g.statement /\ g.statement \in Statement
    BY <2>1 DEF Finding, ReportFinding
  <2>3. f.statement[1] = "records" /\ f.statement[1] = "conflicting"
    BY <2>2 DEF Statement
  <2> QED
    BY <2>3
<1>2. CASE \E g \in Gaps(w) : f = Finding(w, g, "MISSING_EXPECTED_EVIDENCE")
  <2>1. PICK g \in Gaps(w) : f = Finding(w, g, "MISSING_EXPECTED_EVIDENCE")
    BY <1>2
  <2>2. g[1] \in {"no evidence found", "none recorded"}
    <3>1. CASE \E kind : g = <<"no evidence found", kind>>
      <4>1. PICK kind : g = <<"no evidence found", kind>>
        BY <3>1
      <4>2. <<"no evidence found", kind>>[1] = "no evidence found"
        OBVIOUS
      <4> QED
        BY <4>1, <4>2
    <3>2. CASE \E kind : g = <<"none recorded", kind>>
      <4>1. PICK kind : g = <<"none recorded", kind>>
        BY <3>2
      <4>2. <<"none recorded", kind>>[1] = "none recorded"
        OBVIOUS
      <4> QED
        BY <4>1, <4>2
    <3> QED
      BY <3>1, <3>2 DEF Gaps
  <2>3. g = <<"conflicting", s>>
    BY <2>1 DEF Finding
  <2> QED
    BY <2>2, <2>3
<1>3. CASE \E r \in Untraced(w) : f = Finding(w, <<"no provenance", r>>, "PROVENANCE_GAP")
  <2>1. PICK r \in Untraced(w) : f = Finding(w, <<"no provenance", r>>, "PROVENANCE_GAP")
    BY <1>3
  <2>2. <<"no provenance", r>> = <<"conflicting", s>>
    BY <2>1 DEF Finding
  <2> QED
    BY <2>2
<1>4. CASE f = Finding(w, <<"no reproduction attempts">>, "REPRODUCIBILITY_GAP")
  BY <1>4 DEF Finding
<1>5. CASE \E t \in Disagreeing :
              f = [Finding(w, <<"conflicting", t>>, "CONFLICTING_EVIDENCE") EXCEPT
                      !.conflicts = {<<"conflicting", u>> : u \in Disagreeing \ {t}}]
  <2>1. PICK t \in Disagreeing :
           f = [Finding(w, <<"conflicting", t>>, "CONFLICTING_EVIDENCE") EXCEPT
                   !.conflicts = {<<"conflicting", u>> : u \in Disagreeing \ {t}}]
    BY <1>5
  <2>2. f.statement = <<"conflicting", t>> /\ f.conflicts = {<<"conflicting", u>> : u \in Disagreeing \ {t}}
    BY <2>1 DEF Finding
  <2>3. t = s
    BY <2>2
  <2> QED
    BY <2>2, <2>3
<1> QED
  BY <1>1, <1>2, <1>3, <1>4, <1>5 DEF Weaknesses

-----------------------------------------------------------------------------
\* The writers.  Who is not the one that moves keeps what it carries while the registry only grows.
LEMMA CarriesOn ==
    ASSUME NEW w \in Writers, WriterInv(w), writer'[w] = writer[w], items \subseteq items',
           \A d \in dossiers : \E e \in dossiers' : e.bundle = d.bundle
    PROVE  WriterInv(w)'
<1>1. \A id : OnFile(id) => OnFile(id)'
  BY DEF OnFile
<1>2. \A id : ItemsOf(id) \subseteq ItemsOf(id)'
  BY DEF ItemsOf
<1> QED
  BY <1>1, <1>2 DEF WriterInv

LEMMA OneWrites ==
    ASSUME DossierInv, NEW w \in Writers, NEW job \in Writing, writer' = [writer EXCEPT ![w] = job],
           items \subseteq items', \A d \in dossiers : \E e \in dossiers' : e.bundle = d.bundle, WriterInv(w)'
    PROVE  /\ writer' \in [Writers -> Writing]
           /\ \A v \in Writers : WriterInv(v)'
<1>1. writer' \in [Writers -> Writing]
  BY DEF DossierInv, DossierTypes
<1>2. ASSUME NEW v \in Writers, v # w PROVE WriterInv(v)'
  <2>1. writer'[v] = writer[v]
    BY <1>2 DEF DossierInv, DossierTypes
  <2> QED
    BY <2>1, CarriesOn DEF DossierInv
<1> QED
  BY <1>1, <1>2

\* Whoever leaves the registry as it is needs only keep its own.
LEMMA OneReads ==
    ASSUME DossierInv, NEW w \in Writers, NEW job \in Writing, writer' = [writer EXCEPT ![w] = job],
           UNCHANGED <<evidence, traced, registry>>, WriterInv(w)'
    PROVE  DossierInv'
<1>1. writer' \in [Writers -> Writing] /\ \A v \in Writers : WriterInv(v)'
  BY OneWrites DEF registry
<1>2. DossierTypes'
  BY <1>1 DEF DossierInv, DossierTypes, registry
<1>3. WithFindings(reports, reportFindings)'
  BY DEF DossierInv, WithFindings, registry
<1>4. Belongs'
  BY DEF DossierInv, Belongs, OnFile, registry
<1>5. NothingHidden'
  BY DEF DossierInv, NothingHidden, registry
<1> QED
  BY <1>1, <1>2, <1>3, <1>4, <1>5 DEF DossierInv

LEMMA FinishedWrites == Starting \in Writing /\ Finished \in Writing /\ Finished.at = "ended"
<1>1. NoEvidence \in Bundles
  BY DEF NoEvidence, Bundles
<1>2. Starting \in Writing
  BY <1>1 DEF Starting, Writing
<1> QED
  BY <1>2 DEF Finished, Writing

LEMMA CollectKindKeeps ==
    ASSUME DossierInv, NEW w \in Writers, CollectKind(w)
    PROVE  DossierInv'
<1> DEFINE n == writer[w].step + 1
           kind == KindOrder[n]
           seen == [e \in Entities |-> IF e \in OfKind(kind) THEN evidence[e] ELSE writer[w].bundle[e]]
           job == [writer[w] EXCEPT !.step = n, !.bundle = seen]
<1>1. writer[w] \in Writing /\ evidence \in Bundles /\ writer[w].at = "collect" /\ UNCHANGED <<evidence, traced, registry>>
  BY DEF DossierInv, DossierTypes, CollectKind
<1>2. CASE writer' = [writer EXCEPT ![w] = Finished]
  <2>1. WriterInv(w)'
    BY <1>2, FinishedWrites DEF WriterInv, DossierInv, DossierTypes
  <2> QED
    BY <1>1, <1>2, <2>1, FinishedWrites, OneReads
<1>3. CASE writer' = [writer EXCEPT ![w] = job]
  <2>1. seen \in Bundles /\ n \in Nat
    BY <1>1 DEF Bundles, Writing
  <2> HIDE DEF seen, n
  <2>2. job \in Writing /\ job.at = "collect"
    BY <1>1, <2>1 DEF Writing
  <2>3. WriterInv(w)'
    BY <1>3, <2>2 DEF WriterInv, DossierInv, DossierTypes
  <2> QED
    BY <1>1, <1>3, <2>2, <2>3, OneReads
<1>4. writer' = [writer EXCEPT ![w] = Finished] \/ writer' = [writer EXCEPT ![w] = job]
  BY DEF CollectKind, DossierInv, DossierTypes
<1> QED
  BY <1>2, <1>3, <1>4

LEMMA ReadExplicitKeeps ==
    ASSUME DossierInv, NEW w \in Writers, ReadExplicit(w)
    PROVE  DossierInv'
<1> DEFINE seen == [e \in Entities |-> IF e \in Foreign THEN evidence[e] ELSE writer[w].bundle[e]]
           job == [writer[w] EXCEPT !.at = "reports", !.bundle = seen]
<1>1. writer[w] \in Writing /\ evidence \in Bundles /\ UNCHANGED <<evidence, traced, registry>>
  BY DEF DossierInv, DossierTypes, ReadExplicit
<1>2. CASE writer' = [writer EXCEPT ![w] = Finished]
  <2>1. WriterInv(w)'
    BY <1>2, FinishedWrites DEF WriterInv, DossierInv, DossierTypes
  <2> QED
    BY <1>1, <1>2, <2>1, FinishedWrites, OneReads
<1>3. CASE writer' = [writer EXCEPT ![w] = job]
  <2>1. seen \in Bundles
    BY <1>1 DEF Bundles, Writing
  <2> HIDE DEF seen
  <2>2. job \in Writing /\ job.at = "reports"
    BY <1>1, <2>1 DEF Writing
  <2>3. WriterInv(w)'
    BY <1>3, <2>2 DEF WriterInv, DossierInv, DossierTypes
  <2> QED
    BY <1>1, <1>3, <2>2, <2>3, OneReads
<1>4. writer' = [writer EXCEPT ![w] = Finished] \/ writer' = [writer EXCEPT ![w] = job]
  BY DEF ReadExplicit, DossierInv, DossierTypes
<1> QED
  BY <1>2, <1>3, <1>4

LEMMA ReadReportsKeeps ==
    ASSUME DossierInv, NEW w \in Writers, ReadReports(w)
    PROVE  DossierInv'
<1> DEFINE job == [writer[w] EXCEPT !.at = "provenance", !.reports = reports, !.imported = reportFindings]
<1>1. /\ writer[w] \in Writing /\ reports \subseteq RecordedReport /\ reportFindings \subseteq ReportFinding
      /\ UNCHANGED <<evidence, traced, registry>> /\ WithFindings(reports, reportFindings)
  BY DEF DossierInv, DossierTypes, ReadReports
<1>2. writer' = [writer EXCEPT ![w] = job] /\ writer'[w] = job
  BY DEF ReadReports, DossierInv, DossierTypes
<1>3. job \in Writing /\ job.at = "provenance" /\ job.reports = reports /\ job.imported = reportFindings
  BY <1>1 DEF Writing
<1> HIDE DEF job
<1>4. WriterInv(w)'
  BY <1>1, <1>2, <1>3 DEF WriterInv, WithFindings
<1> QED
  BY <1>1, <1>2, <1>3, <1>4, OneReads

LEMMA ReadProvenanceKeeps ==
    ASSUME DossierInv, NEW w \in Writers, ReadProvenance(w)
    PROVE  DossierInv'
<1> DEFINE job == [writer[w] EXCEPT !.at = "persist", !.traced = traced]
<1>1. /\ writer[w] \in Writing /\ traced \subseteq AllRuns /\ writer[w].at = "provenance"
      /\ UNCHANGED <<evidence, traced, registry>> /\ WriterInv(w)
  BY DEF DossierInv, DossierTypes, ReadProvenance
<1>2. writer' = [writer EXCEPT ![w] = job] /\ writer'[w] = job
  BY DEF ReadProvenance, DossierInv, DossierTypes
<1>3. job \in Writing /\ job.at = "persist" /\ job.reports = writer[w].reports /\ job.imported = writer[w].imported
  BY <1>1 DEF Writing
<1> HIDE DEF job
<1>4. WriterInv(w)'
  BY <1>1, <1>2, <1>3 DEF WriterInv, WithFindings
<1> QED
  BY <1>1, <1>2, <1>3, <1>4, OneReads

LEMMA ReadItemsKeeps ==
    ASSUME DossierInv, NEW w \in Writers, ReadItems(w)
    PROVE  DossierInv'
<1>1. PICK d \in dossiers :
         writer' = [writer EXCEPT ![w] = [writer[w] EXCEPT !.at = "freeze", !.dossier = d.bundle,
                                                           !.items = {i \in items : i.dossier = d.bundle}]]
  BY DEF ReadItems, DossierInv, DossierTypes
<1> DEFINE its == {i \in items : i.dossier = d.bundle}
           job == [writer[w] EXCEPT !.at = "freeze", !.dossier = d.bundle, !.items = its]
<1>2. /\ writer[w] \in Writing /\ d.bundle \in Bundles /\ its \subseteq Item
      /\ UNCHANGED <<evidence, traced, registry>> /\ its = ItemsOf(d.bundle)
  BY DEF DossierInv, DossierTypes, ReadItems, ItemsOf
<1> HIDE DEF its
<1>3. job \in Writing /\ job.at = "freeze" /\ job.dossier = d.bundle /\ job.items = its
  BY <1>2 DEF Writing
<1>4. writer' = [writer EXCEPT ![w] = job]
  BY <1>1 DEF its
<1> HIDE DEF job
<1>5. writer'[w] = job
  BY <1>4 DEF DossierInv, DossierTypes
<1>6. ItemsOf(d.bundle)' = ItemsOf(d.bundle) /\ OnFile(d.bundle)'
  BY <1>2 DEF ItemsOf, OnFile, registry
<1>7. WriterInv(w)'
  BY <1>2, <1>3, <1>5, <1>6 DEF WriterInv
<1> QED
  BY <1>2, <1>3, <1>4, <1>7, OneReads

\* A writer is none of the dossier's: a report adds its findings with it.
LEMMA GenerateReportKeeps ==
    ASSUME DossierInv, NEW w \in Writers, GenerateReport(w)
    PROVE  DossierInv'
<1>1. PICK template \in Templates :
         /\ reports' = reports \union {Report(w, template)}
         /\ reportFindings' = reportFindings \union
               {[report |-> Report(w, template), statement |-> s] : s \in Counted(writer[w].bundle)}
  BY DEF GenerateReport
<1> DEFINE r == Report(w, template)
           more == {[report |-> r, statement |-> s] : s \in Counted(writer[w].bundle)}
<1>2. /\ writer[w] \in Writing /\ writer[w].bundle \in Bundles
      /\ UNCHANGED <<evidence, traced, dossiers, items, findings, snapshots>>
  BY DEF DossierInv, DossierTypes, Writing, GenerateReport
<1>3. r \in RecordedReport /\ r.bundle = writer[w].bundle
  <2>1. {kind \in template : Collected(writer[w].bundle, kind) = {}} \subseteq UNION Templates
    OBVIOUS
  <2> QED
    BY <1>2, <2>1 DEF Report, RecordedReport
<1>4. Counted(writer[w].bundle) \subseteq Statement
  <2> SUFFICES ASSUME NEW s \in Counted(writer[w].bundle) PROVE s \in Statement
    OBVIOUS
  <2>1. PICK kind \in {KindOrder[i] : i \in DOMAIN KindOrder} :
           s = <<"records", kind, Cardinality(Collected(writer[w].bundle, kind))>>
    BY DEF Counted
  <2>2. kind \in Kinds
    BY KindsInOrder
  <2>3. Collected(writer[w].bundle, kind) \in SUBSET Entities
    BY <2>2 DEF Collected, OfKind, Entities, Kinds
  <2> QED
    BY <2>1, <2>2, <2>3 DEF Statement
<1>5. more \subseteq ReportFinding
  BY <1>3, <1>4 DEF ReportFinding
<1>6. WithFindings(reports, reportFindings)'
  <2> SUFFICES ASSUME NEW q \in reports', NEW s \in Counted(q.bundle)
               PROVE  [report |-> q, statement |-> s] \in reportFindings'
    BY DEF WithFindings, Counted, Collected
  <2>1. CASE q \in reports
    BY <1>1, <2>1 DEF DossierInv, WithFindings
  <2>2. CASE q = r
    BY <1>1, <1>3, <2>2
  <2> QED
    BY <1>1, <2>1, <2>2
<1>7. writer' = [writer EXCEPT ![w] = Finished]
  BY DEF GenerateReport
<1>8. WriterInv(w)'
  BY <1>7, FinishedWrites DEF WriterInv, DossierInv, DossierTypes
<1>9. writer' \in [Writers -> Writing] /\ \A v \in Writers : WriterInv(v)'
  BY <1>2, <1>7, <1>8, FinishedWrites, OneWrites
<1>10. DossierTypes'
  <2> HIDE DEF r, more
  <2>1. reports' \subseteq RecordedReport /\ reportFindings' \subseteq ReportFinding
    BY <1>1, <1>3, <1>5 DEF DossierInv, DossierTypes, r, more
  <2> QED
    BY <1>2, <1>9, <2>1 DEF DossierInv, DossierTypes
<1>11. Belongs' /\ NothingHidden'
  BY <1>2 DEF DossierInv, Belongs, OnFile, NothingHidden
<1> QED
  BY <1>6, <1>9, <1>10, <1>11 DEF DossierInv

-----------------------------------------------------------------------------
\* What the commit of a dossier makes of the dossier it is about.
LEMMA BuiltComplete ==
    ASSUME DossierInv, NEW w \in Builders, BuildDossier(w), NEW d \in dossiers', d.bundle = Digest(writer[w].bundle)
    PROVE  Complete(d, ItemsOf(d.bundle)', FindingsOf(d.bundle)')
<1> DEFINE id == Digest(writer[w].bundle)
           new == Imported(w) \union Weaknesses(w)
           missing == {e \in Present(writer[w].bundle) : ~\E i \in items : i.dossier = id /\ i.entity = e}
           more == {[dossier |-> id, entity |-> e, traced |-> e \in writer[w].traced] : e \in missing}
           its == {i \in items' : i.dossier = id}
           all == {f \in findings' : f.dossier = id}
<1>1. /\ w \in Writers /\ writer[w] \in Writing /\ writer[w].bundle \in Bundles /\ id \in Bundles
      /\ WithFindings(writer[w].reports, writer[w].imported) /\ writer[w].imported \subseteq ReportFinding
      /\ \A kind \in EvidenceKinds : Collected(id, kind) = Collected(writer[w].bundle, kind)
  <2>1. w \in Writers
    BY DEF Writers
  <2>2. writer[w] \in Writing /\ WriterInv(w) /\ writer[w].at = "persist"
    BY <2>1 DEF DossierInv, DossierTypes, BuildDossier
  <2>3. writer[w].bundle \in Bundles /\ writer[w].imported \subseteq ReportFinding
    BY <2>2 DEF Writing
  <2> QED
    BY <2>1, <2>2, <2>3, DigestKeeps DEF WriterInv
<1>2. items' = items \union more /\ findings' = findings \union Kept(new, id)
  BY DEF BuildDossier
<1>3. /\ \A f \in new : f.dossier = id
      /\ \A g \in Gaps(w) : Tells(new, g)
      /\ \A r \in Untraced(w) : Tells(new, <<"no provenance", r>>)
      /\ Unreproduced(w) => Tells(new, <<"no reproduction attempts">>)
      /\ \A f \in writer[w].imported : Tells(new, f.statement)
      /\ \A s \in Disagreeing : Tells(new, <<"conflicting", s>>)
  BY WhatIsFound
<1>4. /\ Kept(new, id) \subseteq new
      /\ \A f \in new : Told(f.statement, id) \/ \E g \in Kept(new, id) : g.statement = f.statement
      /\ \A f \in Kept(new, id) : ~Told(f.statement, id)
      /\ \A f, g \in Kept(new, id) : f.statement = g.statement => f = g
  BY <1>3, KeptTells
<1>5. all = FindingsOf(id) \union Kept(new, id)
  <2> HIDE DEF new, id
  <2> QED
    BY <1>2, <1>3, <1>4 DEF FindingsOf
<1>6. its = ItemsOf(id) \union more
  <2>1. \A i \in more : i.dossier = id
    OBVIOUS
  <2> HIDE DEF more, id
  <2> QED
    BY <1>2, <2>1 DEF ItemsOf
<1>7. \A s : Tells(new, s) => Tells(all, s)
  <2> HIDE DEF new, id, all
  <2> QED
    BY <1>4, <1>5 DEF Tells, Told, FindingsOf
<1>8. ASSUME NEW i \in more, i.entity \in AllRuns
      PROVE  /\ ~i.traced => Tells(all, <<"no provenance", i.entity>>)
             /\ Collected(id, "reproduction_attempt") = {} => Tells(all, <<"no reproduction attempts">>)
  <2>1. PICK e \in missing : i = [dossier |-> id, entity |-> e, traced |-> e \in writer[w].traced]
    OBVIOUS
  <2>2. i.entity = e /\ (~i.traced => e \notin writer[w].traced) /\ e \in Present(writer[w].bundle)
    BY <2>1
  <2>3. ~i.traced => e \in Untraced(w)
    BY <1>8, <2>2 DEF Untraced
  <2>4. Collected(id, "reproduction_attempt") = {} => Unreproduced(w)
    <3>1. "reproduction_attempt" \in EvidenceKinds
      BY DEF EvidenceKinds
    <3> QED
      BY <1>1, <1>8, <2>2, <3>1 DEF Unreproduced
  <2> HIDE DEF all, new, id
  <2> QED
    BY <1>3, <1>7, <2>2, <2>3, <2>4
<1> HIDE DEF new, missing, more, its, all
<1>9. CASE d \in dossiers
  <2>1. Complete(d, ItemsOf(id), FindingsOf(id))
    BY <1>9 DEF DossierInv, NothingHidden, ItemsOf, FindingsOf
  <2>2. \A f, g \in all : f.statement = g.statement => f = g
    <3>1. \A f, g \in FindingsOf(id) : f.statement = g.statement => f = g
      BY <2>1 DEF Complete
    <3> QED
      BY <1>4, <1>5, <3>1 DEF Told, FindingsOf
  <2>3. \A i \in its \ ItemsOf(id) : i \in more
    BY <1>6
  <2>4. FindingsOf(id) \subseteq all
    BY <1>5
  <2>5. Complete(d, its, all)
    <3>1. \A i \in its \ ItemsOf(id) : i.entity \in AllRuns /\ ~i.traced => Tells(all, <<"no provenance", i.entity>>)
      BY <1>8, <2>3
    <3>2. /\ \E i \in its \ ItemsOf(id) : i.entity \in AllRuns
          /\ Collected(d.bundle, "reproduction_attempt") = {}
          => Tells(all, <<"no reproduction attempts">>)
      BY <1>8, <2>3
    <3> DEFINE before == ItemsOf(id)
               found == FindingsOf(id)
    <3> HIDE DEF before, found, id
    <3> QED
      BY <2>1, <2>2, <2>4, <3>1, <3>2, StaysComplete DEF before, found
  <2> QED
    BY <2>5 DEF its, all, ItemsOf, FindingsOf
<1>10. CASE d \notin dossiers
  <2>1. ~OnFile(id) /\ d.reports = writer[w].reports /\ d.gaps = Gaps(w)
    BY <1>10 DEF BuildDossier, OnFile
  <2>2. ItemsOf(id) = {} /\ FindingsOf(id) = {}
    BY <2>1 DEF DossierInv, Belongs, ItemsOf, FindingsOf
  <2>3. its = more /\ all = Kept(new, id)
    BY <1>5, <1>6, <2>2
  <2>4. \A kind \in EvidenceKinds : Collected(d.bundle, kind) = {} => Tells(all, <<"none recorded", kind>>)
    BY <1>1, <1>3, <1>7 DEF Gaps
  <2>5. \A g \in d.gaps : Tells(all, g)
    BY <1>3, <1>7, <2>1
  <2>6. ASSUME NEW r \in d.reports
        PROVE  /\ \A kind \in r.gaps : Tells(all, <<"no evidence found", kind>>)
               /\ \A s \in Counted(r.bundle) : Tells(all, s)
    <3>1. \A kind \in r.gaps : <<"no evidence found", kind>> \in Gaps(w)
      BY <2>1 DEF Gaps
    <3>2. ASSUME NEW s \in Counted(r.bundle) PROVE Tells(all, s)
      <4>1. [report |-> r, statement |-> s] \in writer[w].imported
        BY <1>1, <2>1 DEF WithFindings
      <4> QED
        BY <1>3, <1>7, <4>1
    <3> QED
      BY <1>3, <1>7, <3>1, <3>2
  <2>7. /\ \A i \in its : i.entity \in AllRuns /\ ~i.traced => Tells(all, <<"no provenance", i.entity>>)
        /\ (\E i \in its : i.entity \in AllRuns) /\ Collected(d.bundle, "reproduction_attempt") = {} =>
              Tells(all, <<"no reproduction attempts">>)
    BY <1>8, <2>3
  <2>8. ASSUME NEW s \in Disagreeing
        PROVE  \E f \in all :
                  f.statement = <<"conflicting", s>> /\ f.conflicts = {<<"conflicting", t>> : t \in Disagreeing \ {s}}
    <3>1. PICK f \in all : f.statement = <<"conflicting", s>>
      BY <1>3, <1>7 DEF Tells
    <3>2. f \in Imported(w) \union Weaknesses(w)
      BY <1>4, <2>3 DEF new
    <3> QED
      BY <1>1, <3>1, <3>2, ConflictsNamed
  <2>9. \A f, g \in all : f.statement = g.statement => f = g
    BY <1>4, <2>3
  <2>10. Complete(d, its, all)
    BY <2>4, <2>5, <2>6, <2>7, <2>8, <2>9 DEF Complete
  <2> QED
    BY <2>10 DEF its, all, ItemsOf, FindingsOf
<1> QED
  BY <1>9, <1>10

LEMMA BuildDossierKeeps ==
    ASSUME DossierInv, NEW w \in Builders, BuildDossier(w)
    PROVE  DossierInv'
<1> DEFINE id == Digest(writer[w].bundle)
           new == Imported(w) \union Weaknesses(w)
           missing == {e \in Present(writer[w].bundle) : ~\E i \in items : i.dossier = id /\ i.entity = e}
           more == {[dossier |-> id, entity |-> e, traced |-> e \in writer[w].traced] : e \in missing}
<1>1. /\ w \in Writers /\ writer[w] \in Writing /\ id \in Bundles /\ DossierTypes /\ Belongs /\ NothingHidden
      /\ UNCHANGED <<evidence, traced, reports, reportFindings, snapshots>> /\ writer' = [writer EXCEPT ![w] = Finished]
  <2>1. w \in Writers
    BY DEF Writers
  <2>2. writer[w] \in Writing /\ DossierTypes /\ Belongs /\ NothingHidden
    BY <2>1 DEF DossierInv, DossierTypes
  <2>3. writer[w].bundle \in Bundles
    BY <2>2 DEF Writing
  <2> QED
    BY <2>1, <2>2, <2>3, DigestKeeps DEF BuildDossier
<1>2. items' = items \union more /\ findings' = findings \union Kept(new, id)
  BY DEF BuildDossier
<1>3. /\ dossiers \subseteq dossiers'
      /\ \A d \in dossiers' \ dossiers : d.bundle = id /\ ~OnFile(id)
      /\ \A d, e \in dossiers' \ dossiers : d = e
      /\ \E d \in dossiers' : d.bundle = id
  <2>1. CASE OnFile(id)
    <3>1. dossiers' = dossiers
      BY <2>1 DEF BuildDossier, OnFile
    <3> QED
      BY <2>1, <3>1 DEF OnFile
  <2>2. CASE ~OnFile(id)
    <3> DEFINE d == [bundle |-> id, reports |-> writer[w].reports, gaps |-> Gaps(w)]
    <3>1. dossiers' = dossiers \union {d}
      BY <2>2 DEF BuildDossier, OnFile
    <3>2. d.bundle = id
      OBVIOUS
    <3> HIDE DEF d
    <3> QED
      BY <2>2, <3>1, <3>2
  <2> QED
    BY <2>1, <2>2
<1>4. \A f \in Kept(new, id) : f.dossier = id
  BY WhatIsFound, KeptTells
<1>5. more \subseteq Item /\ \A i \in more : i.dossier = id
  <2>1. \A e \in missing : e \in Entities
    BY DEF Present
  <2>2. \A e \in Entities, b \in BOOLEAN : [dossier |-> id, entity |-> e, traced |-> b] \in Item
    BY <1>1 DEF Item
  <2>3. \A e : (e \in writer[w].traced) \in BOOLEAN
    OBVIOUS
  <2>4. more \subseteq Item
    BY <2>1, <2>2, <2>3
  <2>5. \A i \in more : i.dossier = id
    OBVIOUS
  <2> QED
    BY <2>4, <2>5
<1>6. WriterInv(w)'
  BY <1>1, FinishedWrites DEF WriterInv, DossierTypes
<1>7. writer' \in [Writers -> Writing] /\ \A v \in Writers : WriterInv(v)'
  BY <1>1, <1>2, <1>3, <1>6, FinishedWrites, OneWrites
<1>8. DossierTypes'
  <2>1. items' \subseteq Item
    BY <1>1, <1>2, <1>5 DEF DossierTypes
  <2>2. \A d \in dossiers' : d.bundle \in Bundles
    BY <1>1, <1>3 DEF DossierTypes
  <2> QED
    BY <1>1, <1>7, <2>1, <2>2 DEF DossierTypes
<1>9. WithFindings(reports, reportFindings)'
  BY <1>1 DEF DossierInv, WithFindings
<1> HIDE DEF id, new, more
<1>10. \A x \in items' \union findings' \union snapshots' : \E d \in dossiers' : d.bundle = x.dossier
  BY <1>1, <1>2, <1>3, <1>4, <1>5 DEF Belongs, OnFile
<1>11. \A d, e \in dossiers' : d.bundle = e.bundle => d = e
  BY <1>1, <1>3 DEF NothingHidden, OnFile
<1>12. ASSUME NEW d \in dossiers'
       PROVE  /\ Complete(d, {i \in items' : i.dossier = d.bundle}, {f \in findings' : f.dossier = d.bundle})
              /\ \A s \in snapshots' : s.dossier = d.bundle => Complete(d, s.items, s.findings)
  <2>1. CASE d.bundle = id
    <3>1. Complete(d, {i \in items' : i.dossier = d.bundle}, {f \in findings' : f.dossier = d.bundle})
      BY <2>1, BuiltComplete DEF id, ItemsOf, FindingsOf
    <3>2. ASSUME NEW s \in snapshots', s.dossier = d.bundle PROVE Complete(d, s.items, s.findings)
      <4>1. s \in snapshots /\ OnFile(d.bundle)
        BY <1>1, <3>2 DEF Belongs
      <4>2. d \in dossiers
        BY <1>3, <2>1, <4>1
      <4> QED
        BY <1>1, <3>2, <4>1, <4>2 DEF NothingHidden
    <3> QED
      BY <3>1, <3>2
  <2>2. CASE d.bundle # id
    <3>1. d \in dossiers
      BY <1>3, <2>2
    <3>2. /\ {i \in items' : i.dossier = d.bundle} = {i \in items : i.dossier = d.bundle}
          /\ {f \in findings' : f.dossier = d.bundle} = {f \in findings : f.dossier = d.bundle}
      BY <1>2, <1>4, <1>5, <2>2
    <3> QED
      BY <1>1, <3>1, <3>2 DEF NothingHidden
  <2> QED
    BY <2>1, <2>2
<1>13. NothingHidden'
  BY <1>11, <1>12 DEF NothingHidden
<1>14. Belongs'
  BY <1>10 DEF Belongs, OnFile
<1> QED
  BY <1>7, <1>8, <1>9, <1>13, <1>14 DEF DossierInv

LEMMA BuildSnapshotKeeps ==
    ASSUME DossierInv, NEW w \in Writers, BuildSnapshot(w)
    PROVE  DossierInv'
<1> DEFINE id == writer[w].dossier
           made == [dossier |-> id, items |-> writer[w].items, findings |-> {f \in findings : f.dossier = id}]
<1>1. /\ OnFile(id) /\ writer[w].items \subseteq ItemsOf(id) /\ Belongs /\ NothingHidden
      /\ UNCHANGED <<evidence, traced, reports, reportFindings, dossiers, items, findings>>
      /\ writer' = [writer EXCEPT ![w] = Finished] /\ snapshots' = snapshots \union {made}
  BY DEF BuildSnapshot, DossierInv, WriterInv
<1>2. made.dossier = id /\ made.items = writer[w].items /\ made.findings = FindingsOf(id)
  BY DEF FindingsOf
<1>3. WriterInv(w)'
  BY <1>1, FinishedWrites DEF WriterInv, DossierInv, DossierTypes
<1>4. writer' \in [Writers -> Writing] /\ \A v \in Writers : WriterInv(v)'
  BY <1>1, <1>3, FinishedWrites, OneWrites
<1>5. DossierTypes' /\ WithFindings(reports, reportFindings)'
  BY <1>1, <1>4 DEF DossierInv, DossierTypes, WithFindings
<1> HIDE DEF made
<1>6. Belongs'
  BY <1>1, <1>2 DEF Belongs, OnFile
<1>7. ASSUME NEW d \in dossiers, made.dossier = d.bundle PROVE Complete(d, made.items, made.findings)
  <2>1. Complete(d, ItemsOf(id), FindingsOf(id))
    BY <1>1, <1>2, <1>7 DEF NothingHidden, ItemsOf, FindingsOf
  <2> HIDE DEF id
  <2> QED
    BY <1>1, <1>2, <2>1, FewerItems
<1>8. NothingHidden'
  BY <1>1, <1>7 DEF NothingHidden
<1> QED
  BY <1>4, <1>5, <1>6, <1>8 DEF DossierInv

\* Others that record evidence touch nothing a dossier is made of.
LEMMA EvidenceKeeps ==
    ASSUME DossierInv, UNCHANGED <<registry, writer>>, evidence' \in Bundles, traced' \subseteq AllRuns
    PROVE  DossierInv'
<1>1. DossierTypes' /\ WithFindings(reports, reportFindings)' /\ Belongs' /\ NothingHidden'
  BY DEF DossierInv, DossierTypes, WithFindings, Belongs, OnFile, NothingHidden, registry
<1>2. \A w \in Writers : WriterInv(w)'
  BY CarriesOn DEF DossierInv, registry
<1> QED
  BY <1>1, <1>2 DEF DossierInv

\* The dossiers can be in these states only, whoever writes at once and whatever is recorded meanwhile.
THEOREM DossiersInductive == DossierSpec => []DossierInv
<1>1. DossierInit => DossierInv
  <2> SUFFICES ASSUME DossierInit PROVE DossierInv
    OBVIOUS
  <2>1. DossierTypes
    BY FinishedWrites DEF DossierInit, DossierTypes, Bundles
  <2>2. WithFindings(reports, reportFindings) /\ Belongs /\ NothingHidden
    BY DEF DossierInit, WithFindings, Belongs, NothingHidden
  <2>3. \A w \in Writers : WriterInv(w)
    BY DEF DossierInit, WriterInv, Starting
  <2> QED
    BY <2>1, <2>2, <2>3 DEF DossierInv
<1>2. DossierInv /\ [DossierNext]_dossierVars => DossierInv'
  <2> SUFFICES ASSUME DossierInv, [DossierNext]_dossierVars PROVE DossierInv'
    OBVIOUS
  <2>1. ASSUME NEW e \in Entities, RecordEvidence(e) PROVE DossierInv'
    <3>1. evidence' \in Bundles
      BY <2>1 DEF RecordEvidence, DossierInv, DossierTypes, Bundles
    <3> QED
      BY <2>1, <3>1, EvidenceKeeps DEF RecordEvidence, DossierInv, DossierTypes
  <2>2. ASSUME NEW r \in AllRuns, CaptureProvenance(r) PROVE DossierInv'
    BY <2>2, EvidenceKeeps DEF CaptureProvenance, DossierInv, DossierTypes
  <2>3. ASSUME NEW w \in Reporters \union Builders, CollectKind(w) PROVE DossierInv'
    BY <2>3, CollectKindKeeps DEF Writers
  <2>4. ASSUME NEW w \in Reporters, GenerateReport(w) PROVE DossierInv'
    BY <2>4, GenerateReportKeeps DEF Writers
  <2>5. ASSUME NEW w \in Builders, ReadExplicit(w) \/ ReadReports(w) \/ ReadProvenance(w) \/ BuildDossier(w)
        PROVE  DossierInv'
    BY <2>5, ReadExplicitKeeps, ReadReportsKeeps, ReadProvenanceKeeps, BuildDossierKeeps DEF Writers
  <2>6. ASSUME NEW w \in Archivists, ReadItems(w) \/ BuildSnapshot(w) PROVE DossierInv'
    BY <2>6, ReadItemsKeeps, BuildSnapshotKeeps DEF Writers
  <2>7. CASE UNCHANGED dossierVars
    BY <2>7, EvidenceKeeps DEF dossierVars, registry, DossierInv, DossierTypes
  <2> QED
    BY <2>1, <2>2, <2>3, <2>4, <2>5, <2>6, <2>7 DEF DossierNext
<1> QED
  BY <1>1, <1>2, PTL DEF DossierSpec

\* NothingHidden: whoever assembles a dossier, at once or again, and whatever is recorded meanwhile, its findings
\* tell every lack and every disagreement its parts call for, once, and so do those of its snapshots.
THEOREM DossiersHideNothing == DossierSpec => []NothingHidden
<1>1. DossierInv => NothingHidden
  BY DEF DossierInv
<1> QED
  BY <1>1, DossiersInductive, PTL
=============================================================================
