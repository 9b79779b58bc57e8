------------------------------- MODULE Server -------------------------------
(***************************************************************************)
(* dmit_server and the dmit_client processes that talk to it.  A client    *)
(* sends one query, blocks until the reply arrives and exits; it can be    *)
(* started again.  The server handles one query at a time, so a handler is *)
(* one step: it changes the database and sends the reply, or fails to.     *)
(***************************************************************************)
EXTENDS Naturals, Database

CONSTANTS
  Clients,      \* the client processes
  MaxFaults     \* bound: how many statements and replies fail in a behaviour

ASSUME FaultsAssumption == MaxFaults \in Nat
ASSUME SourcesAssumption == None \notin Sources

VARIABLES
  db,           \* the database
  query,        \* what each client sent
  client,       \* "idle", "sent", or how it ended: "OK", "KO"
  running,      \* the server is up: neither isStopping nor aborted
  compiled,     \* history: the paths and sources of the last make
  latest,       \* history: the last source each path was registered with
  faults        \* how many faults there were

vars == <<db, query, client, running, compiled, latest, faults>>

Queries ==
  [kind : {"ADD_FILE"}, path : Paths, source : Sources]
    \cup [kind : {"STOP", "DATABASE_GET", "DATABASE_CLEAN", "MAKE"}]
NoQuery == [kind |-> None]

Init ==
  /\ db = Empty
  /\ query = [c \in Clients |-> NoQuery]
  /\ client = [c \in Clients |-> "idle"]
  /\ running = TRUE
  /\ compiled = {}
  /\ latest = NoFiles
  /\ faults = 0

-----------------------------------------------------------------------------
(* A client is started with a query and sends it. *)
Send(c) ==
  /\ client[c] \in {"idle", "OK", "KO"}
  /\ \E q \in Queries :
       /\ query' = [query EXCEPT ![c] = q]
       /\ client' = [client EXCEPT ![c] = "sent"]
  /\ UNCHANGED <<db, running, compiled, latest, faults>>

(* The server received the query of c. *)
Receive(c, kind) ==
  /\ running
  /\ client[c] = "sent"
  /\ query[c].kind = kind

(* replyWith; when the reply cannot be crafted or sent, the client stays   *)
(* blocked in nng_recv: its query is gone.                                 *)
replyWith(c, reply, lost) ==
  /\ client' = [client EXCEPT ![c] = IF lost THEN "blocked" ELSE reply]
  /\ query' = [query EXCEPT ![c] = NoQuery]

(* What went wrong in a handler is within the bound. *)
Count(fault, end, lost) ==
  LET n == (CASE fault = None -> 0
              [] fault # None /\ end = "stuck" -> 2
              [] OTHER -> 1)
           + (IF lost THEN 1 ELSE 0)
  IN  faults + n <= MaxFaults /\ faults' = faults + n

Reply(ok) == IF ok THEN "OK" ELSE "KO"

(* Slip: a file that is known is left as it is. *)
AddResultOnce(d, p, s, fault, end) ==
  CASE fault \in {"hasFile", "hasUnit"} -> Result(Broken(d, end), FALSE)
    [] fault \notin {"hasFile", "hasUnit"} /\ hasFile(d, p) -> Result(d, TRUE)
    [] OTHER -> IF hasUnit(d, s) THEN insertFile(d, p, s, fault, end)
                ELSE insertFileAndUnit(d, p, s, fault, end)

(* A file that is known with a unit that is known is left as it is. *)
AddResult(d, p, s, fault, end) ==
  LET isFileInDb == hasFile(d, p)
      isUnitInDb == hasUnit(d, s)
  IN  CASE fault \in {"hasFile", "hasUnit"} -> Result(Broken(d, end), FALSE)
        [] fault \notin {"hasFile", "hasUnit"} /\ ~isFileInDb /\ isUnitInDb ->
             insertFile(d, p, s, fault, end)
        [] fault \notin {"hasFile", "hasUnit"} /\ ~isFileInDb /\ ~isUnitInDb ->
             insertFileAndUnit(d, p, s, fault, end)
        [] fault \notin {"hasFile", "hasUnit"} /\ isFileInDb /\ ~isUnitInDb ->
             updateFileAndInsertUnit(d, p, s, fault, end)
        [] OTHER -> Result(d, TRUE)

addFile(c) ==
  /\ Receive(c, "ADD_FILE")
  /\ \E fault \in Faults \ {"clean", "select"}, end \in Ends, lost \in BOOLEAN :
       LET p == query[c].path
           s == query[c].source
           r == AddResult(db, p, s, fault, end)
       IN  /\ Count(fault, end, lost)
           /\ db' = r.db
           /\ latest' = IF r.ok THEN [latest EXCEPT ![p] = s] ELSE latest
           /\ replyWith(c, Reply(r.ok), lost)
  /\ UNCHANGED <<running, compiled>>

databaseClean(c) ==
  /\ Receive(c, "DATABASE_CLEAN")
  /\ \E fault \in {None, "clean"}, end \in Ends, lost \in BOOLEAN :
       LET r == clean(db, fault, end)
       IN  /\ Count(fault, end, lost)
           /\ db' = r.db
           /\ replyWith(c, Reply(r.ok), lost)
  /\ UNCHANGED <<running, compiled, latest>>

(* A database that cannot be serialized is not replied to at all. *)
databaseGet(c) ==
  /\ Receive(c, "DATABASE_GET")
  /\ \E lost \in BOOLEAN : Count(None, "kept", lost) /\ replyWith(c, "OK", lost)
  /\ UNCHANGED <<db, running, compiled, latest>>

(* The query of the sources fails; or, whatever the compiler finds in them, *)
(* the reply is OK; or one of its assertions does not hold and the process  *)
(* of the server is gone, without a reply.                                  *)
make(c) ==
  /\ Receive(c, "MAKE")
  /\ \/ \E end \in Ends, lost \in BOOLEAN :
          /\ Count("select", end, lost)
          /\ db' = Broken(db, end)
          /\ replyWith(c, "KO", lost)
          /\ UNCHANGED <<running, compiled>>
     \/ \E lost \in BOOLEAN :
          /\ Count(None, "kept", lost)
          /\ compiled' = selectUnitIdsPathsSources(db)
          /\ replyWith(c, "OK", lost)
          /\ UNCHANGED <<db, running>>
     \/ /\ selectUnitIdsPathsSources(db) # {}
        /\ running' = FALSE
        /\ replyWith(c, "KO", TRUE)
        /\ UNCHANGED <<db, compiled, faults>>
  /\ UNCHANGED latest

(* The server stops even when its reply is lost. *)
stop(c) ==
  /\ Receive(c, "STOP")
  /\ running' = FALSE
  /\ \E lost \in BOOLEAN : Count(None, "kept", lost) /\ replyWith(c, "OK", lost)
  /\ UNCHANGED <<db, compiled, latest>>

Serve(c) ==
  addFile(c) \/ databaseClean(c) \/ databaseGet(c) \/ make(c) \/ stop(c)

Next == \E c \in Clients : Send(c) \/ Serve(c)

Spec == Init /\ [][Next]_vars

-----------------------------------------------------------------------------
TypeOK ==
  /\ db \in DatabaseType
  /\ query \in [Clients -> Queries \cup {NoQuery}]
  /\ client \in [Clients -> {"idle", "sent", "OK", "KO", "blocked"}]
  /\ running \in BOOLEAN
  /\ compiled \subseteq Paths \X Sources
  /\ latest \in [Paths -> Sources \cup {None}]
  /\ faults \in 0 .. MaxFaults

(* A registered file has its unit: neither a clean nor a statement that    *)
(* fails in the middle of an operation leaves a file make would skip.  The *)
(* file of a transaction that could not be rolled back is the exception,   *)
(* and the only one, and a later end of that transaction mends it          *)
(* (database.cpp:190-198, 239-247).                                        *)
NoDanglingFile ==
  /\ ~db.open => Dangling(db.now) = {}
  /\ \A p, q \in Dangling(db.now) : p = q
  /\ Dangling(db.before) = {}

(* A make that is served compiles every registered file with its unit; as  *)
(* long as a transaction is stuck it may miss one.                         *)
MakeSeesEveryFile ==
  [][\A c \in Clients :
       make(c) /\ client'[c] = "OK" =>
         LET all == {<<p, db.now.files[p]>> : p \in Registered(db)}
         IN  /\ compiled' \subseteq all
             /\ \A x, y \in all \ compiled' : x = y
             /\ ~db.open => compiled' = all]_vars

(* A query answered KO changed nothing, unless the commit or a rollback    *)
(* failed and the transaction is still open; or sqlite gave up the one     *)
(* that was.                                                               *)
KoChangesNothing ==
  [][\A c \in Clients :
       client[c] = "sent" /\ client'[c] = "KO" =>
         db'.now = db.now \/ db'.open \/ db.open]_vars

(* The client was told OK, so the file is registered; only the end of a    *)
(* transaction that was left open takes it away again.                     *)
AckedStays ==
  [][\A p \in Paths :
       latest[p] # None /\ p \in Registered(db) =>
         p \in Registered(db') \/ db.open]_vars

(* A client that is told OK has the source it sent registered for its      *)
(* path, but for a path and a source that were both known before: there,   *)
(* nothing is done (server_add_file.hpp:95-108).                           *)
OkIsRegistered ==
  [][\A c \in Clients :
       addFile(c) /\ client'[c] = "OK" =>
         LET p == query[c].path
             s == query[c].source
         IN  db'.now.files[p] = s \/ (hasFile(db, p) /\ hasUnit(db, s))]_vars

=============================================================================
