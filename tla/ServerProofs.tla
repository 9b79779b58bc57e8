---------------------------- MODULE ServerProofs ----------------------------
(***************************************************************************)
(* What the server promises about its database, for any number of clients, *)
(* paths, sources and failures.                                            *)
(***************************************************************************)
EXTENDS Server, TLAPS

(* Each file has its unit, in what a ROLLBACK restores and, but for one     *)
(* file of an open transaction, in the tables.                             *)
Consistent(t) == \A p \in Paths : t.files[p] # None => t.files[p] \in t.units
OneTorn(t) ==
  \A p, q \in Paths :
    /\ t.files[p] # None /\ t.files[p] \notin t.units
    /\ t.files[q] # None /\ t.files[q] \notin t.units
    => p = q
Sound(d) ==
  /\ d \in DatabaseType
  /\ Consistent(d.before)
  /\ ~d.open => Consistent(d.now)
  /\ OneTorn(d.now)

IInv == TypeOK /\ Sound(db)

Tables == [files : [Paths -> Sources \cup {None}], units : SUBSET Sources]

-----------------------------------------------------------------------------
(* The operators of Database keep a database sound. *)

LEMMA ConsistentOneTorn ==
  ASSUME NEW t, Consistent(t) PROVE OneTorn(t)
BY DEF Consistent, OneTorn

LEMMA EmptyTablesConsistent == EmptyTables \in Tables /\ Consistent(EmptyTables)
BY DEF EmptyTables, Tables, NoFiles, Consistent

LEMMA EmptySound == Sound(Empty)
BY EmptyTablesConsistent, ConsistentOneTorn DEF Empty, Sound, DatabaseType, Tables

(* Only a transaction in which every file has its unit is committed.        *)
LEMMA CommitSound ==
  ASSUME NEW d, Sound(d), Consistent(d.now) PROVE Sound(transactionCommit(d))
BY EmptyTablesConsistent DEF transactionCommit, Sound, DatabaseType, Tables

LEMMA BeginSound ==
  ASSUME NEW d, Sound(d), ~d.open PROVE Sound(transactionBegin(d))
BY DEF transactionBegin, Sound, DatabaseType

(* A rollback looks at what was there before only. *)
LEMMA RollbackSound ==
  ASSUME NEW d \in DatabaseType, Consistent(d.before), d.open \/ Consistent(d.now)
  PROVE  Sound(transactionRollback(d))
BY EmptyTablesConsistent, ConsistentOneTorn DEF transactionRollback, Sound, DatabaseType, Tables

LEMMA BrokenSound ==
  ASSUME NEW d, Sound(d), NEW end PROVE Sound(Broken(d, end))
BY RollbackSound DEF Broken, Sound

LEMMA SetFileType ==
  ASSUME NEW d \in DatabaseType, NEW p \in Paths, NEW s \in Sources
  PROVE  /\ SetFile(d, p, s) \in DatabaseType
         /\ SetFile(d, p, s).open = d.open
         /\ SetFile(d, p, s).before = d.before
         /\ SetFile(d, p, s).now.units = d.now.units
         /\ \A q \in Paths :
              SetFile(d, p, s).now.files[q] = IF q = p THEN s ELSE d.now.files[q]
BY DEF SetFile, DatabaseType

LEMMA AddUnitType ==
  ASSUME NEW d \in DatabaseType, NEW s \in Sources
  PROVE  /\ AddUnit(d, s) \in DatabaseType
         /\ AddUnit(d, s).open = d.open
         /\ AddUnit(d, s).before = d.before
         /\ AddUnit(d, s).now.files = d.now.files
         /\ AddUnit(d, s).now.units = d.now.units \cup {s}
BY DEF AddUnit, DatabaseType

(* What an operation may leave behind: a sound database; the tables as they *)
(* were when it failed, but for an open transaction; and every file that    *)
(* was registered, unless the end of an open transaction took it away.      *)
Keeps(d, e) ==
  d.open \/ \A p \in Paths : d.now.files[p] # None => e.now.files[p] # None
Orderly(d, r) ==
  /\ Sound(r.db)
  /\ ~r.ok => r.db.now = d.now \/ r.db.open \/ d.open
  /\ Keeps(d, r.db)

LEMMA OrderlyResult ==
  ASSUME NEW d, NEW e, NEW ok, Sound(e), Keeps(d, e),
         ok \/ e.now = d.now \/ e.open \/ d.open
  PROVE  Orderly(d, Result(e, ok))
BY DEF Orderly, Result

LEMMA UnchangedOrderly ==
  ASSUME NEW d, Sound(d), NEW ok PROVE Orderly(d, Result(d, ok))
BY DEF Orderly, Result, Keeps

LEMMA BrokenOrderly ==
  ASSUME NEW d, Sound(d), NEW end, NEW ok PROVE Orderly(d, Result(Broken(d, end), ok))
<1>1. Sound(Broken(d, end))
  BY BrokenSound
<1>2. d.open \/ Broken(d, end) = d
  BY DEF Broken, transactionRollback
<1>3. QED
  BY <1>1, <1>2 DEF Orderly, Result, Keeps

(* The transaction around a file and its unit. *)
LEMMA InTransactionOrderly ==
  ASSUME NEW d, Sound(d), NEW p \in Paths, NEW s \in Sources, NEW fault, NEW end
  PROVE  Orderly(d, InTransaction(d, p, s, fault, end))
<1> DEFINE begun == transactionBegin(d)
           filed == SetFile(begun, p, s)
           united == AddUnit(filed, s)
           r == InTransaction(d, p, s, fault, end)
<1>1. CASE d.open \/ fault = "begin"
  <2>1. r = Result(d, FALSE)
    BY <1>1 DEF InTransaction
  <2>2. QED
    BY <2>1, UnchangedOrderly
<1>2. CASE ~d.open /\ fault # "begin"
  <2>1. /\ Sound(begun) /\ begun \in DatabaseType
        /\ begun.open /\ begun.now = d.now /\ begun.before = d.now
    BY <1>2, BeginSound DEF Sound, DatabaseType, transactionBegin
  <2>2. /\ filed \in DatabaseType
        /\ filed.open /\ filed.before = d.now
        /\ filed.now.units = d.now.units
        /\ \A q \in Paths : filed.now.files[q] = IF q = p THEN s ELSE d.now.files[q]
    BY <2>1, SetFileType
  <2>3. /\ united \in DatabaseType
        /\ united.open /\ united.before = d.now
        /\ united.now.files = filed.now.files
        /\ united.now.units = d.now.units \cup {s}
    BY <2>2, AddUnitType
  <2>4. Consistent(united.now) /\ Sound(united)
    <3>1. Consistent(d.now)
      BY <1>2 DEF Sound
    <3>2. Consistent(united.now)
      BY <2>2, <2>3, <3>1 DEF Consistent
    <3>3. QED
      BY <2>3, <3>1, <3>2, ConsistentOneTorn DEF Sound
  <2>5. ASSUME NEW e \in DatabaseType, e.open, e.before = d.now
        PROVE  /\ Sound(transactionRollback(e))
               /\ transactionRollback(e).now = d.now
               /\ transactionRollback(e).open = FALSE
    <3>1. Sound(transactionRollback(e))
      BY <1>2, <2>5, RollbackSound DEF Sound
    <3>2. QED
      BY <2>5, <3>1 DEF transactionRollback, DatabaseType
  <2>6. ASSUME NEW e, Sound(e), e.open, e.before = d.now, Keeps(d, e),
               r = Result(Undone(e, end), FALSE)
        PROVE  Orderly(d, r)
    <3>1. CASE end = "stuck"
      BY <2>6, <3>1, OrderlyResult DEF Undone
    <3>2. CASE end # "stuck"
      <4>1. Undone(e, end) = transactionRollback(e)
        <5>1. e \in DatabaseType
          BY <2>6 DEF Sound
        <5>2. transactionRollback(e).open = FALSE
          BY <2>5, <2>6, <5>1
        <5>3. transactionRollback(transactionRollback(e)) = transactionRollback(e)
          BY <5>2 DEF transactionRollback
        <5>4. QED
          BY <3>2, <5>3 DEF Undone, Broken
      <4>2. /\ Sound(transactionRollback(e))
            /\ transactionRollback(e).now = d.now
        BY <2>5, <2>6 DEF Sound
      <4>3. Keeps(d, transactionRollback(e))
        BY <4>2 DEF Keeps
      <4>4. QED
        BY <2>6, <4>1, <4>2, <4>3, OrderlyResult
    <3>3. QED
      BY <3>1, <3>2
  <2>7. CASE fault = "file"
    <3>1. r = Result(Undone(begun, end), FALSE)
      BY <1>2, <2>7 DEF InTransaction
    <3>2. begun.before = d.now /\ Keeps(d, begun)
      BY <2>1 DEF Keeps, transactionBegin, Sound, DatabaseType
    <3>3. QED
      BY <2>1, <2>6, <3>1, <3>2
  <2>8. CASE fault = "unit"
    <3>1. r = Result(Undone(filed, end), FALSE)
      BY <1>2, <2>8 DEF InTransaction
    <3>2. Consistent(d.now)
      BY <1>2 DEF Sound
    <3>3. \A q \in Paths \ {p} :
            filed.now.files[q] # None => filed.now.files[q] \in filed.now.units
      BY <2>2, <3>2 DEF Consistent
    <3>4. Sound(filed)
      BY <2>2, <3>2, <3>3 DEF Sound, OneTorn
    <3>5. Keeps(d, filed)
      BY <2>2, SourcesAssumption DEF Keeps
    <3>6. QED
      BY <2>2, <2>6, <3>1, <3>4, <3>5
  <2>9. \A q \in Paths : d.now.files[q] # None => united.now.files[q] # None
    BY <2>2, <2>3, SourcesAssumption
  <2>10. CASE fault = "commit"
    <3>1. r = Result(Broken(united, end), FALSE)
      BY <1>2, <2>10 DEF InTransaction
    <3>2. CASE end = "undone"
      <4>1. Broken(united, end) = transactionRollback(united)
        BY <3>2 DEF Broken
      <4>2. /\ Sound(transactionRollback(united))
            /\ transactionRollback(united).now = d.now
        BY <2>3, <2>5
      <4>3. Keeps(d, transactionRollback(united))
        BY <4>2 DEF Keeps
      <4>4. QED
        BY <3>1, <4>1, <4>2, <4>3, OrderlyResult
    <3>3. CASE end # "undone"
      <4>1. Broken(united, end) = united
        BY <3>3 DEF Broken
      <4>2. Keeps(d, united)
        BY <2>9 DEF Keeps
      <4>3. QED
        BY <2>3, <2>4, <3>1, <4>1, <4>2, OrderlyResult
    <3>4. QED
      BY <3>2, <3>3
  <2>11. CASE fault \notin {"begin", "file", "unit", "commit"}
    <3>1. r = Result(transactionCommit(united), TRUE)
      BY <1>2, <2>11 DEF InTransaction
    <3>2. /\ Sound(transactionCommit(united))
          /\ transactionCommit(united).now = united.now
      BY <2>3, <2>4, CommitSound DEF transactionCommit, DatabaseType
    <3>3. Keeps(d, transactionCommit(united))
      BY <2>9, <3>2 DEF Keeps
    <3>4. QED
      BY <3>1, <3>2, <3>3, OrderlyResult
  <2>12. QED
    BY <1>2, <2>7, <2>8, <2>10, <2>11
<1>3. QED
  BY <1>1, <1>2

(* A file alone, of a unit the tables have. *)
LEMMA insertFileOrderly ==
  ASSUME NEW d, Sound(d), NEW p \in Paths, NEW s \in d.now.units,
         NEW fault, NEW end
  PROVE  Orderly(d, insertFile(d, p, s, fault, end))
<1>1. CASE fault = "file"
  BY <1>1, BrokenOrderly DEF insertFile
<1>2. CASE fault # "file"
  <2>1. d \in DatabaseType /\ s \in Sources
    BY DEF Sound, DatabaseType
  <2> DEFINE e == SetFile(d, p, s)
  <2>2. Sound(e)
    <3>1. /\ e \in DatabaseType /\ e.open = d.open /\ e.before = d.before
          /\ e.now.units = d.now.units
          /\ \A q \in Paths : e.now.files[q] = IF q = p THEN s ELSE d.now.files[q]
      BY <2>1, SetFileType
    <3> HIDE DEF e
    <3>2. ~e.open => Consistent(e.now)
      BY <3>1 DEF Sound, Consistent
    <3>3. OneTorn(e.now)
      BY <3>1 DEF Sound, OneTorn
    <3>4. QED
      BY <3>1, <3>2, <3>3 DEF Sound
  <2>3. Keeps(d, SetFile(d, p, s))
    BY <2>1, SetFileType, SourcesAssumption DEF Keeps
  <2>4. QED
    BY <1>2, <2>2, <2>3, OrderlyResult DEF insertFile
<1>3. QED
  BY <1>1, <1>2

(* Cleaning takes no unit away that a file has; not in what a ROLLBACK      *)
(* restores either.                                                        *)
LEMMA cleanOrderly ==
  ASSUME NEW d, Sound(d), NEW fault, NEW end
  PROVE  Orderly(d, clean(d, fault, end))
<1> DEFINE used == {s \in d.now.units : \E p \in Paths : d.now.files[p] = s}
           e == [d EXCEPT !.now.units = used]
<1>1. CASE fault = "clean"
  BY <1>1, BrokenOrderly DEF clean
<1>2. CASE fault # "clean"
  <2>1. clean(d, fault, end) = Result(e, TRUE)
    BY <1>2 DEF clean
  <2>2. /\ e \in DatabaseType /\ e.before = d.before /\ e.open = d.open
        /\ e.now.files = d.now.files /\ e.now.units = used
    BY DEF Sound, DatabaseType
  <2>3. /\ \A p \in Paths : e.now.files[p] = d.now.files[p]
        /\ \A p \in Paths : d.now.files[p] \in d.now.units => d.now.files[p] \in used
    BY <2>2
  <2> HIDE DEF e, used
  <2>4. Sound(e)
    BY <2>2, <2>3 DEF Sound, Consistent, OneTorn
  <2>5. Keeps(d, e)
    BY <2>3 DEF Keeps
  <2>6. Orderly(d, Result(e, TRUE))
    BY <2>4, <2>5, OrderlyResult
  <2>7. QED
    BY <2>1, <2>6
<1>3. QED
  BY <1>1, <1>2

LEMMA AddResultOrderly ==
  ASSUME NEW d, Sound(d), NEW p \in Paths, NEW s \in Sources,
         NEW fault, NEW end
  PROVE  Orderly(d, AddResult(d, p, s, fault, end))
<1>1. CASE fault \in {"hasFile", "hasUnit"}
  <2>1. AddResult(d, p, s, fault, end) = Result(Broken(d, end), FALSE)
    BY <1>1 DEF AddResult
  <2>2. QED
    BY <2>1, BrokenOrderly
<1>2. CASE fault \notin {"hasFile", "hasUnit"} /\ ~hasFile(d, p) /\ hasUnit(d, s)
  <2>1. AddResult(d, p, s, fault, end) = insertFile(d, p, s, fault, end)
    BY <1>2 DEF AddResult
  <2>2. QED
    BY <1>2, <2>1, insertFileOrderly DEF hasUnit
<1>3. CASE fault \notin {"hasFile", "hasUnit"} /\ ~hasUnit(d, s)
  <2>1. AddResult(d, p, s, fault, end) = InTransaction(d, p, s, fault, end)
    BY <1>3 DEF AddResult, insertFileAndUnit, updateFileAndInsertUnit
  <2>2. QED
    BY <2>1, InTransactionOrderly
<1>4. CASE fault \notin {"hasFile", "hasUnit"} /\ hasFile(d, p) /\ hasUnit(d, s)
  <2>1. AddResult(d, p, s, fault, end) = Result(d, TRUE)
    BY <1>4 DEF AddResult
  <2>2. QED
    BY <2>1, UnchangedOrderly
<1>5. QED
  BY <1>1, <1>2, <1>3, <1>4

-----------------------------------------------------------------------------
(* Every step of the server and of its clients keeps the invariant, keeps   *)
(* the files, and changes nothing when it answers KO.                       *)
KoStep ==
  \A k \in Clients :
    client[k] = "sent" /\ client'[k] = "KO" =>
      db'.now = db.now \/ db'.open \/ db.open
Good == IInv' /\ Keeps(db, db') /\ KoStep

LEMMA replyWithType ==
  ASSUME TypeOK, NEW c \in Clients, NEW reply \in {"OK", "KO"},
         NEW lost \in BOOLEAN, replyWith(c, reply, lost)
  PROVE  /\ query' \in [Clients -> Queries \cup {NoQuery}]
         /\ client' \in [Clients -> {"idle", "sent", "OK", "KO", "blocked"}]
         /\ \A k \in Clients : client[k] = "sent" /\ client'[k] = "KO" =>
              reply = "KO"
<1>1. query' \in [Clients -> Queries \cup {NoQuery}]
  BY DEF replyWith, TypeOK
<1>2. client' \in [Clients -> {"idle", "sent", "OK", "KO", "blocked"}]
  BY DEF replyWith, TypeOK
<1>3. \A k \in Clients : client[k] = "sent" /\ client'[k] = "KO" => reply = "KO"
  BY DEF replyWith, TypeOK
<1>4. QED
  BY <1>1, <1>2, <1>3

LEMMA CountType ==
  ASSUME TypeOK, NEW fault, NEW end, NEW lost, Count(fault, end, lost)
  PROVE  faults' \in 0 .. MaxFaults
BY FaultsAssumption DEF Count, TypeOK

LEMMA SendGood ==
  ASSUME IInv, NEW c \in Clients, Send(c) PROVE Good
<1>1. query' \in [Clients -> Queries \cup {NoQuery}]
  BY DEF Send, IInv, TypeOK
<1>2. client' \in [Clients -> {"idle", "sent", "OK", "KO", "blocked"}]
  BY DEF Send, IInv, TypeOK
<1>3. UNCHANGED <<db, running, compiled, latest, faults>>
  BY DEF Send
<1>4. QED
  BY <1>1, <1>2, <1>3 DEF Good, IInv, TypeOK, Sound, Keeps, KoStep

(* What is left to show once the reply and the database are known.          *)
LEMMA AnswerGood ==
  ASSUME IInv, NEW c \in Clients, NEW ok \in BOOLEAN, NEW lost \in BOOLEAN,
         replyWith(c, Reply(ok), lost), Orderly(db, Result(db', ok)),
         NEW fault, NEW end, Count(fault, end, lost),
         running' \in BOOLEAN, compiled' \subseteq Paths \X Sources,
         latest' \in [Paths -> Sources \cup {None}]
  PROVE  Good
<1>1. Reply(ok) \in {"OK", "KO"} /\ (Reply(ok) = "KO" => ~ok)
  BY DEF Reply
<1>2. /\ query' \in [Clients -> Queries \cup {NoQuery}]
      /\ client' \in [Clients -> {"idle", "sent", "OK", "KO", "blocked"}]
      /\ \A k \in Clients : client[k] = "sent" /\ client'[k] = "KO" =>
           Reply(ok) = "KO"
  BY <1>1, replyWithType DEF IInv
<1>3. faults' \in 0 .. MaxFaults
  BY CountType DEF IInv
<1>4. /\ Sound(db') /\ Keeps(db, db')
      /\ ~ok => db'.now = db.now \/ db'.open \/ db.open
  BY DEF Orderly, Result
<1>5. KoStep
  BY <1>1, <1>2, <1>4 DEF KoStep
<1>6. IInv'
  BY <1>2, <1>3, <1>4 DEF IInv, TypeOK, Sound
<1>7. QED
  BY <1>4, <1>5, <1>6 DEF Good

LEMMA addFileGood ==
  ASSUME IInv, NEW c \in Clients, addFile(c) PROVE Good
<1> DEFINE p == query[c].path
           s == query[c].source
<1>1. p \in Paths /\ s \in Sources
  BY DEF addFile, Receive, IInv, TypeOK, Queries, NoQuery, None
<1>2. PICK fault \in Faults \ {"clean", "select"}, end \in Ends, lost \in BOOLEAN :
        LET r == AddResult(db, p, s, fault, end)
        IN  /\ Count(fault, end, lost)
            /\ db' = r.db
            /\ latest' = IF r.ok THEN [latest EXCEPT ![p] = s] ELSE latest
            /\ replyWith(c, Reply(r.ok), lost)
  BY DEF addFile
<1> DEFINE r == AddResult(db, p, s, fault, end)
           ok == IF r.ok THEN TRUE ELSE FALSE
<1>3. Orderly(db, r)
  BY <1>1, AddResultOrderly DEF IInv
<1> HIDE DEF p, s, r
<1>4. db' = r.db /\ replyWith(c, Reply(ok), lost) /\ Count(fault, end, lost)
  BY <1>2 DEF r, Reply
<1>5. Orderly(db, Result(db', ok))
  BY <1>3, <1>4 DEF Orderly, Result
<1>6. latest' \in [Paths -> Sources \cup {None}]
  BY <1>1, <1>2 DEF IInv, TypeOK
<1>7. running' = running /\ compiled' = compiled
  BY DEF addFile
<1>8. running' \in BOOLEAN /\ compiled' \subseteq Paths \X Sources
  BY <1>7 DEF IInv, TypeOK
<1>9. QED
  BY <1>4, <1>5, <1>6, <1>8, AnswerGood

LEMMA databaseCleanGood ==
  ASSUME IInv, NEW c \in Clients, databaseClean(c) PROVE Good
<1>1. PICK fault \in {None, "clean"}, end \in Ends, lost \in BOOLEAN :
        LET r == clean(db, fault, end)
        IN  /\ Count(fault, end, lost)
            /\ db' = r.db
            /\ replyWith(c, Reply(r.ok), lost)
  BY DEF databaseClean
<1> DEFINE r == clean(db, fault, end)
           ok == IF r.ok THEN TRUE ELSE FALSE
<1>2. Orderly(db, r)
  BY cleanOrderly DEF IInv
<1> HIDE DEF r
<1>3. db' = r.db /\ replyWith(c, Reply(ok), lost) /\ Count(fault, end, lost)
  BY <1>1 DEF r, Reply
<1>4. Orderly(db, Result(db', ok))
  BY <1>2, <1>3 DEF Orderly, Result
<1>5. running' = running /\ compiled' = compiled /\ latest' = latest
  BY DEF databaseClean
<1>6. /\ running' \in BOOLEAN /\ compiled' \subseteq Paths \X Sources
      /\ latest' \in [Paths -> Sources \cup {None}]
  BY <1>5 DEF IInv, TypeOK
<1>7. QED
  BY <1>3, <1>4, <1>6, AnswerGood

(* What a make selects is files with their units: all the files but the    *)
(* ones that dangle.                                                       *)
LEMMA SelectType ==
  ASSUME NEW d, Sound(d)
  PROVE  /\ selectUnitIdsPathsSources(d) \subseteq Paths \X Sources
         /\ selectUnitIdsPathsSources(d) =
              {<<p, d.now.files[p]>> : p \in Registered(d) \ Dangling(d.now)}
<1>1. {q \in Paths : d.now.files[q] \in d.now.units} =
        Registered(d) \ Dangling(d.now)
  BY SourcesAssumption DEF Registered, Dangling, hasFile, Sound, DatabaseType
<1>2. \A q \in Registered(d) : q \in Paths /\ d.now.files[q] \in Sources
  BY DEF Registered, hasFile, Sound, DatabaseType
<1>3. QED
  BY <1>1, <1>2 DEF selectUnitIdsPathsSources

LEMMA makeGood ==
  ASSUME IInv, NEW c \in Clients, make(c) PROVE Good
<1>1. latest' \in [Paths -> Sources \cup {None}]
  BY DEF make, IInv, TypeOK
<1>2. ASSUME NEW end \in Ends, NEW lost \in BOOLEAN,
             Count("select", end, lost), db' = Broken(db, end),
             replyWith(c, "KO", lost), UNCHANGED <<running, compiled>>
      PROVE  Good
  <2>1. Orderly(db, Result(db', FALSE))
    BY <1>2, BrokenOrderly DEF IInv
  <2>2. running' \in BOOLEAN /\ compiled' \subseteq Paths \X Sources
    BY <1>2 DEF IInv, TypeOK
  <2>3. replyWith(c, Reply(FALSE), lost)
    BY <1>2 DEF Reply
  <2>4. QED
    BY <1>1, <1>2, <2>1, <2>2, <2>3, AnswerGood
<1>3. ASSUME NEW lost \in BOOLEAN, Count(None, "kept", lost),
             compiled' = selectUnitIdsPathsSources(db),
             replyWith(c, "OK", lost), UNCHANGED <<db, running>>
      PROVE  Good
  <2>1. Orderly(db, Result(db', TRUE))
    BY <1>3, UnchangedOrderly DEF IInv
  <2>2. running' \in BOOLEAN /\ compiled' \subseteq Paths \X Sources
    BY <1>3, SelectType DEF IInv, TypeOK
  <2>3. replyWith(c, Reply(TRUE), lost)
    BY <1>3 DEF Reply
  <2>4. QED
    BY <1>1, <1>3, <2>1, <2>2, <2>3, AnswerGood
<1>4. ASSUME running' = FALSE, replyWith(c, "KO", TRUE),
             UNCHANGED <<db, compiled, faults>>
      PROVE  Good
  <2>1. /\ query' \in [Clients -> Queries \cup {NoQuery}]
        /\ client' \in [Clients -> {"idle", "sent", "OK", "KO", "blocked"}]
    BY <1>4, replyWithType DEF IInv
  <2>2. QED
    BY <1>1, <1>4, <2>1 DEF Good, IInv, TypeOK, Sound, Keeps, KoStep
<1>5. QED
  BY <1>2, <1>3, <1>4 DEF make

LEMMA databaseGetGood ==
  ASSUME IInv, NEW c \in Clients, databaseGet(c) PROVE Good
<1>1. PICK lost \in BOOLEAN : Count(None, "kept", lost) /\ replyWith(c, Reply(TRUE), lost)
  BY DEF databaseGet, Reply
<1>2. Orderly(db, Result(db', TRUE))
  BY UnchangedOrderly DEF databaseGet, IInv
<1>3. /\ running' \in BOOLEAN /\ compiled' \subseteq Paths \X Sources
      /\ latest' \in [Paths -> Sources \cup {None}]
  BY DEF databaseGet, IInv, TypeOK
<1>4. QED
  BY <1>1, <1>2, <1>3, AnswerGood

LEMMA stopGood ==
  ASSUME IInv, NEW c \in Clients, stop(c) PROVE Good
<1>1. PICK lost \in BOOLEAN : Count(None, "kept", lost) /\ replyWith(c, Reply(TRUE), lost)
  BY DEF stop, Reply
<1>2. Orderly(db, Result(db', TRUE))
  BY UnchangedOrderly DEF stop, IInv
<1>3. /\ running' \in BOOLEAN /\ compiled' \subseteq Paths \X Sources
      /\ latest' \in [Paths -> Sources \cup {None}]
  BY DEF stop, IInv, TypeOK
<1>4. QED
  BY <1>1, <1>2, <1>3, AnswerGood

LEMMA InitIInv == Init => IInv
<1> SUFFICES ASSUME Init PROVE IInv
  OBVIOUS
<1>1. Sound(db)
  BY EmptySound DEF Init
<1>2. TypeOK
  BY <1>1, FaultsAssumption DEF Init, TypeOK, Sound, NoFiles
<1>3. QED
  BY <1>1, <1>2 DEF IInv

LEMMA NextGood == IInv /\ Next => Good
<1> SUFFICES ASSUME IInv, NEW c \in Clients, Send(c) \/ Serve(c) PROVE Good
  BY DEF Next
<1>1. QED
  BY SendGood, addFileGood, databaseCleanGood, databaseGetGood, makeGood, stopGood
     DEF Serve

LEMMA StutterIInv == IInv /\ UNCHANGED vars => IInv'
BY DEF vars, IInv, TypeOK, Sound

LEMMA InductiveInvariant == Spec => []IInv
<1>1. IInv /\ [Next]_vars => IInv'
  BY NextGood, StutterIInv DEF Good
<1>2. QED
  BY InitIInv, <1>1, PTL DEF Spec

-----------------------------------------------------------------------------
(* What the runs check, for every value of the constants. *)

(* The variables of the server have their types. *)
THEOREM TypeCorrect == Spec => []TypeOK
<1>1. IInv => TypeOK
  BY DEF IInv
<1>2. QED
  BY <1>1, InductiveInvariant, PTL

(* A registered file has its unit, whatever statements fail, but for the    *)
(* one file of a transaction that could not be rolled back.                *)
THEOREM NoDanglingCorrect == Spec => []NoDanglingFile
<1>1. IInv => NoDanglingFile
  BY DEF IInv, Sound, Consistent, OneTorn, NoDanglingFile, Dangling
<1>2. QED
  BY <1>1, InductiveInvariant, PTL

(* A query answered KO changes nothing, outside a transaction left open. *)
THEOREM KoCorrect == Spec => KoChangesNothing
<1> DEFINE A == \A c \in Clients :
                  client[c] = "sent" /\ client'[c] = "KO" =>
                    db'.now = db.now \/ db'.open \/ db.open
<1>1. IInv /\ [Next]_vars => [A]_vars
  BY NextGood DEF Good, KoStep
<1>2. QED
  BY <1>1, InductiveInvariant, PTL DEF Spec, KoChangesNothing

(* A registered file stays registered, outside a transaction left open. *)
THEOREM AckedCorrect == Spec => AckedStays
<1> DEFINE A == \A p \in Paths :
                  latest[p] # None /\ p \in Registered(db) =>
                    p \in Registered(db') \/ db.open
<1>1. IInv /\ [Next]_vars => [A]_vars
  BY NextGood DEF Good, Keeps, Registered, hasFile
<1>2. QED
  BY <1>1, InductiveInvariant, PTL DEF Spec, AckedStays

(* A make that is served compiles every registered file with its unit, but *)
(* for the one a stuck transaction has left without.                       *)
THEOREM MakeCorrect == Spec => MakeSeesEveryFile
<1> DEFINE All == {<<p, db.now.files[p]>> : p \in Registered(db)}
           B == /\ compiled' \subseteq All
                /\ \A x, y \in All \ compiled' : x = y
                /\ ~db.open => compiled' = All
           A == \A c \in Clients : make(c) /\ client'[c] = "OK" => B
<1>1. ASSUME IInv, NEW c \in Clients, make(c), client'[c] = "OK"
      PROVE  B
  <2>1. \/ compiled' = selectUnitIdsPathsSources(db)
        \/ \E lost \in BOOLEAN : replyWith(c, "KO", lost)
    BY <1>1 DEF make
  <2>2. compiled' = selectUnitIdsPathsSources(db)
    BY <1>1, <2>1 DEF replyWith, IInv, TypeOK
  <2>3. compiled' = {<<p, db.now.files[p]>> : p \in Registered(db) \ Dangling(db.now)}
    BY <1>1, <2>2, SelectType DEF IInv
  <2>4. \A p, q \in Dangling(db.now) : p = q
    BY <1>1 DEF IInv, Sound, OneTorn, Dangling
  <2>5. ~db.open => Dangling(db.now) = {}
    BY <1>1 DEF IInv, Sound, Consistent, Dangling
  <2>6. compiled' \subseteq All
    BY <2>3
  <2>7. ASSUME NEW x \in All \ compiled', NEW y \in All \ compiled' PROVE x = y
    <3>1. PICK p \in Registered(db) : x = <<p, db.now.files[p]>>
      OBVIOUS
    <3>2. PICK q \in Registered(db) : y = <<q, db.now.files[q]>>
      OBVIOUS
    <3>3. p \in Dangling(db.now) /\ q \in Dangling(db.now)
      BY <2>3, <2>7, <3>1, <3>2
    <3>4. QED
      BY <2>4, <3>1, <3>2, <3>3
  <2>8. ~db.open => compiled' = All
    BY <2>3, <2>5
  <2>9. QED
    BY <2>6, <2>7, <2>8
<1>2. IInv /\ [Next]_vars => [A]_vars
  BY <1>1
<1>3. QED
  BY <1>2, InductiveInvariant, PTL DEF Spec, MakeSeesEveryFile

(* What the three operations that change a file do when they work. *)
LEMMA AddResultSets ==
  ASSUME NEW d \in DatabaseType, NEW p \in Paths, NEW s \in Sources,
         NEW fault, NEW end, AddResult(d, p, s, fault, end).ok
  PROVE  \/ AddResult(d, p, s, fault, end).db.now.files[p] = s
         \/ hasFile(d, p) /\ hasUnit(d, s)
<1> DEFINE r == AddResult(d, p, s, fault, end)
<1>1. CASE fault \in {"hasFile", "hasUnit"}
  BY <1>1 DEF AddResult, Result
<1>2. CASE fault \notin {"hasFile", "hasUnit"} /\ ~hasFile(d, p) /\ hasUnit(d, s)
  <2>1. r = insertFile(d, p, s, fault, end)
    BY <1>2 DEF AddResult
  <2>2. r.db = SetFile(d, p, s)
    BY <2>1 DEF insertFile, Result
  <2>3. QED
    BY <2>2, SetFileType
<1>3. CASE fault \notin {"hasFile", "hasUnit"} /\ ~hasUnit(d, s)
  <2> DEFINE filed == SetFile(transactionBegin(d), p, s)
             united == AddUnit(filed, s)
  <2>1. r = InTransaction(d, p, s, fault, end)
    BY <1>3 DEF AddResult, insertFileAndUnit, updateFileAndInsertUnit
  <2>2. ~d.open /\ fault \notin {"begin", "file", "unit", "commit"}
    BY <2>1 DEF InTransaction, Result
  <2>3. r.db = transactionCommit(united)
    BY <2>1, <2>2 DEF InTransaction, Result
  <2>4. transactionBegin(d) \in DatabaseType
    BY DEF transactionBegin, DatabaseType
  <2>5. filed \in DatabaseType /\ filed.now.files[p] = s
    BY <2>4, SetFileType
  <2>6. united \in DatabaseType /\ united.now.files[p] = s
    BY <2>5, AddUnitType
  <2>7. transactionCommit(united).now = united.now
    BY <2>6 DEF transactionCommit, DatabaseType
  <2>8. QED
    BY <2>3, <2>6, <2>7
<1>4. CASE hasFile(d, p) /\ hasUnit(d, s)
  BY <1>4
<1>5. QED
  BY <1>1, <1>2, <1>3, <1>4

(* A client told OK has its source registered, unless all was known. *)
THEOREM OkCorrect == Spec => OkIsRegistered
<1> DEFINE A == \A c \in Clients :
                  addFile(c) /\ client'[c] = "OK" =>
                    LET p == query[c].path
                        s == query[c].source
                    IN  db'.now.files[p] = s \/ (hasFile(db, p) /\ hasUnit(db, s))
<1>1. ASSUME IInv, NEW c \in Clients, addFile(c), client'[c] = "OK"
      PROVE  \/ db'.now.files[query[c].path] = query[c].source
             \/ hasFile(db, query[c].path) /\ hasUnit(db, query[c].source)
  <2> DEFINE p == query[c].path
             s == query[c].source
  <2>1. p \in Paths /\ s \in Sources /\ db \in DatabaseType
    BY <1>1 DEF addFile, Receive, IInv, TypeOK, Queries, NoQuery, None
  <2>2. PICK fault \in Faults \ {"clean", "select"}, end \in Ends, lost \in BOOLEAN :
          LET r == AddResult(db, p, s, fault, end)
          IN  db' = r.db /\ replyWith(c, Reply(r.ok), lost)
    BY <1>1 DEF addFile
  <2> DEFINE r == AddResult(db, p, s, fault, end)
  <2> HIDE DEF r
  <2>3. db' = r.db /\ replyWith(c, Reply(r.ok), lost)
    BY <2>2 DEF r
  <2>4. r.ok
    BY <1>1, <2>3 DEF replyWith, Reply, IInv, TypeOK
  <2>5. QED
    BY <2>1, <2>3, <2>4, AddResultSets DEF r
<1>2. IInv /\ [Next]_vars => [A]_vars
  BY <1>1
<1>3. QED
  BY <1>2, InductiveInvariant, PTL DEF Spec, OkIsRegistered

=============================================================================
