------------------------------- MODULE IDBOpen -------------------------------
(***************************************************************************)
(* Opening IndexedDB connections to one database (LibWeb IndexedDB,        *)
(* Internal/Algorithms.cpp): open_a_database_connection queues the request *)
(* on the connection queue of the storage key and name, spins the event    *)
(* loop until every earlier request is processed, resolves the version,    *)
(* creates the database if needed, fails with a VersionError when the      *)
(* database is newer, and when it is older queues versionchange and        *)
(* blocked events at the other connections, spins until they are all       *)
(* closed and runs upgrade_a_database, which queues upgradeneeded.         *)
(*                                                                         *)
(* Both waits are HTML::EventLoop::spin_until on the main thread, which    *)
(* pumps the event loop inside the waiting call: a task, and so an open() *)
(* its script makes, runs on top of the algorithm that is spinning, and an *)
(* algorithm can leave its spin only when every algorithm that started on  *)
(* top of it has returned.  The steps between two waits run atomically;    *)
(* the event loop runs the queued tasks one at a time in FIFO order.      *)
(* The page's scripts are the environment: a script holding a connection *)
(* (after success or upgradeneeded) may close it at any time, including    *)
(* from its versionchange handler, and may call open() from any task.      *)
(* The IDBFactory.open() caller (not part of this source) sets the         *)
(* request's processed flag when the algorithm returns and queues the      *)
(* success or error event, as the IndexedDB specification says.            *)
(***************************************************************************)
EXTENDS Naturals, Sequences, SequencesExt

CONSTANTS
    NumRequests,   \* open() calls made against the database
    Versions       \* versions a caller may pass to open(), all >= 1

Requests == 1 .. NumRequests   \* request r creates connection r
Undefined == 0                 \* open(name) without a version
AskedVersions == {Undefined} \cup Versions

ASSUME Versions \subseteq Nat \ {0}

VARIABLES
    pc,          \* request -> "idle" | "queued" | "waiting" | "done"
    asked,       \* request -> the maybe_version it was opened with
    queue,       \* the connection queue for the storage key and name
    processed,   \* request -> processed flag
    result,      \* request -> what the algorithm returned
    dbExists,    \* Database::for_key_and_name has a value
    dbVersion,   \* db->version()
    conn,        \* connection -> "none" | "open" | "closed"
    version,     \* connection -> its version (step 9)
    others,      \* request -> openConnections of step 10.1
    tx,          \* request -> "none" | "inactive": its upgrade transaction
    tasks,       \* the DatabaseAccess task queue of the event loop
    fired,       \* the events dispatched so far
    spins        \* the algorithms on the main thread's stack, innermost last

vars == <<pc, asked, queue, processed, result, dbExists, dbVersion, conn,
          version, others, tx, tasks, fired, spins>>

Results == {"none", "connection", "VersionError", "OperationError", "AbortError"}

\* A queued event task.  versionchange and blocked tasks capture db and
\* read db->version() when they run; upgradeneeded captures old_version.
Task(ev, at, old, new) == [ev |-> ev, at |-> at, old |-> old, new |-> new]

-----------------------------------------------------------------------------
\* Variant: the version is taken as given, without value_or.
ResolveVersionRaw(r) == asked[r]

\* Step 5: version defaults to 1 for a new database, else to db's version.
ResolveVersion(r) ==
    IF asked[r] # Undefined THEN asked[r]
    ELSE IF dbExists THEN dbVersion ELSE 1

\* ConnectionQueueHandler::all_previous_requests_processed.
AllPreviousProcessed(r) ==
    \A i, j \in DOMAIN queue : queue[j] = r /\ i < j => processed[queue[i]]

\* The condition request r's current spin_until waits for fails, so the
\* spin pumps the event loop: step 3's queue test, or step 10.5's test
\* that every connection of openConnections is closed.
SpinWaits(r) ==
    \/ pc[r] = "queued" /\ ~AllPreviousProcessed(r)
    \/ pc[r] = "waiting" /\ \E c \in others[r] : conn[c] # "closed"

\* Tasks and scripts run: at the top level, or inside the innermost spin
\* while its condition fails.  Once the condition holds, spin_until
\* returns before anything else runs.
EventLoopRuns == IF spins = <<>> THEN TRUE ELSE SpinWaits(Last(spins))

\* Request r's algorithm is the innermost one on the stack.
Innermost(r) == spins # <<>> /\ Last(spins) = r

\* Variant: the connection itself is not excluded.
AssociatedConnectionsAll(r, cs) == {c \in Requests : cs[c] # "none"}

\* db->associated_connections_except(connection), given the connections.
AssociatedConnectionsExcept(r, cs) == {c \in Requests \ {r} : cs[c] # "none"}

\* close_a_database_connection(connection, forced = false): close pending,
\* then closed (waiting for its transactions is not implemented).
CloseConn(c) == conn' = [conn EXCEPT ![c] = "closed"]

\* A script has the connection object once success or upgradeneeded fired.
Holds(c) == \E e \in fired : e.at = c /\ e.ev \in {"success", "upgradeneeded"}

\* The caller once the algorithm returns: the processed flag and the
\* result; the success or error event it queues is ReturnEvent.
Return(r, res) ==
    /\ pc' = [pc EXCEPT ![r] = "done"]
    /\ processed' = [processed EXCEPT ![r] = TRUE]
    /\ result' = [result EXCEPT ![r] = res]
    /\ spins' = Front(spins)

ReturnEvent(r, res) ==
    Task(IF res = "connection" THEN "success" ELSE "error", r, Undefined, Undefined)

-----------------------------------------------------------------------------
Init ==
    /\ pc = [r \in Requests |-> "idle"]
    /\ asked = [r \in Requests |-> Undefined]
    /\ queue = <<>>
    /\ processed = [r \in Requests |-> FALSE]
    /\ result = [r \in Requests |-> "none"]
    /\ dbExists = FALSE
    /\ dbVersion = 0
    /\ conn = [c \in Requests |-> "none"]
    /\ version = [c \in Requests |-> Undefined]
    /\ others = [r \in Requests |-> {}]
    /\ tx = [r \in Requests |-> "none"]
    /\ tasks = <<>>
    /\ fired = {}
    /\ spins = <<>>

\* Steps 1-2, from a task or the top level: add the request to the
\* connection queue; the algorithm runs on top of the stack.
Open(r, v) ==
    /\ pc[r] = "idle"
    /\ EventLoopRuns
    /\ spins' = Append(spins, r)
    /\ pc' = [pc EXCEPT ![r] = "queued"]
    /\ asked' = [asked EXCEPT ![r] = v]
    /\ queue' = Append(queue, r)
    /\ UNCHANGED <<processed, result, dbExists, dbVersion, conn, version,
                   others, tx, tasks, fired>>

\* Step 6 when Database::create_for_key_and_name fails.
CreateFails(r) ==
    /\ pc[r] = "queued" /\ Innermost(r) /\ AllPreviousProcessed(r) /\ ~dbExists
    /\ Return(r, "OperationError")
    /\ tasks' = Append(tasks, ReturnEvent(r, "OperationError"))
    /\ UNCHANGED <<asked, queue, dbExists, dbVersion, conn, version, others, tx, fired>>

\* Steps 4-10.4 once the spin of step 3 ends: VersionError if db is newer;
\* else a connection at the resolved version, returned at once if db has
\* that version, else versionchange tasks for the connections not close
\* pending, blocked tasks for those not closed, and the spin of 10.5.
Proceed(r) ==
    /\ pc[r] = "queued" /\ Innermost(r) /\ AllPreviousProcessed(r)
    /\ LET v   == ResolveVersion(r)
           cur == IF dbExists THEN dbVersion ELSE 0
           oc  == AssociatedConnectionsExcept(r, [conn EXCEPT ![r] = "open"])
           ord == SetToSortSeq(oc, <)
           vc  == [i \in 1 .. Len(ord) |-> Task("versionchange", ord[i], Undefined, v)]
           bl  == [i \in 1 .. Len(ord) |-> Task("blocked", ord[i], Undefined, v)]
       IN /\ dbExists' = TRUE
          /\ dbVersion' = cur
          /\ IF cur > v
             THEN /\ Return(r, "VersionError")
                  /\ tasks' = Append(tasks, ReturnEvent(r, "VersionError"))
                  /\ UNCHANGED <<conn, version, others>>
             ELSE /\ conn' = [conn EXCEPT ![r] = "open"]
                  /\ version' = [version EXCEPT ![r] = v]
                  /\ IF cur < v
                     THEN /\ others' = [others EXCEPT ![r] = oc]
                          \* close pending and closed are set together by
                          \* close_a_database_connection, so both loops
                          \* pick the open connections
                          /\ LET open == SelectSeq(vc, LAMBDA t : conn[t.at] = "open")
                             IN tasks' = tasks \o open \o
                                         SelectSeq(bl, LAMBDA t : conn[t.at] = "open")
                          /\ pc' = [pc EXCEPT ![r] = "waiting"]
                          /\ UNCHANGED <<processed, result, spins>>
                     ELSE /\ Return(r, "connection")
                          /\ tasks' = Append(tasks, ReturnEvent(r, "connection"))
                          /\ UNCHANGED others
    /\ UNCHANGED <<asked, queue, tx, fired>>

\* Variant: old version read after db's version is set.
UpgradeVersionFirst(r, after) ==
    /\ tx' = [tx EXCEPT ![r] = "inactive"]
    /\ dbVersion' = version[r]
    /\ tasks' = tasks \o <<Task("upgradeneeded", r, version[r], version[r])>> \o after

\* upgrade_a_database: an inactive upgrade transaction, db's version set
\* (the old one captured), and the upgradeneeded task queued; `after` is
\* what the caller queues once the algorithm has returned.
UpgradeADatabase(r, after) ==
    /\ tx' = [tx EXCEPT ![r] = "inactive"]
    /\ dbVersion' = version[r]
    /\ tasks' = tasks \o <<Task("upgradeneeded", r, dbVersion, version[r])>> \o after

\* Steps 10.6-11: upgrade (which sets the processed flag), then AbortError
\* if the connection was closed meanwhile, else the connection.
FinishUpgrade(r) ==
    LET res == IF conn[r] = "closed" THEN "AbortError" ELSE "connection"
    IN /\ UpgradeADatabase(r, <<ReturnEvent(r, res)>>)
       /\ Return(r, res)
       /\ UNCHANGED <<asked, queue, dbExists, conn, version, others, fired>>

\* Variant: upgrade without the spin of step 10.5.
ResumeWithoutWait(r) ==
    /\ pc[r] = "waiting" /\ Innermost(r)
    /\ FinishUpgrade(r)

\* Step 10.5: the spin ends when every connection of openConnections is
\* closed.
ResumeUpgrade(r) ==
    /\ pc[r] = "waiting" /\ Innermost(r)
    /\ \A c \in others[r] : conn[c] = "closed"
    /\ FinishUpgrade(r)

\* The event loop runs the oldest DatabaseAccess task.  versionchange and
\* blocked (fire_a_version_change_event) report db->version() as it is now;
\* upgradeneeded reports the captured old version, and also sets the
\* request's result, transaction and done flag and makes the transaction
\* active for the dispatch only.  A handler of the script holding the
\* connection may close it.
RunTask ==
    /\ tasks # <<>>
    /\ EventLoopRuns
    /\ LET t  == Head(tasks)
           ev == IF t.ev \in {"versionchange", "blocked"}
                 THEN [t EXCEPT !.old = dbVersion] ELSE t
       IN /\ tasks' = Tail(tasks)
          /\ fired' = fired \cup {ev}
          /\ \/ UNCHANGED conn
             \/ /\ t.ev \in {"versionchange", "upgradeneeded"}
                /\ t.ev = "versionchange" => Holds(t.at)
                /\ conn[t.at] = "open"
                /\ CloseConn(t.at)
    /\ UNCHANGED <<pc, asked, queue, processed, result, dbExists, dbVersion,
                   version, others, tx, spins>>

\* IDBDatabase.close() from a script that holds the connection.
Close(c) ==
    /\ conn[c] = "open"
    /\ Holds(c)
    /\ EventLoopRuns
    /\ CloseConn(c)
    /\ UNCHANGED <<pc, asked, queue, processed, result, dbExists, dbVersion,
                   version, others, tx, tasks, fired, spins>>

\* Every open() has returned and every event has been dispatched.
Finished ==
    /\ \A r \in Requests : pc[r] = "done"
    /\ tasks = <<>>
    /\ UNCHANGED vars

Next ==
    \/ \E r \in Requests, v \in AskedVersions : Open(r, v)
    \/ \E r \in Requests : CreateFails(r) \/ Proceed(r) \/ ResumeUpgrade(r)
    \/ RunTask
    \/ \E c \in Requests : Close(c)
    \/ Finished

\* The event loop keeps running tasks and re-checking the spin conditions;
\* a script told by versionchange that its connection blocks an upgrade
\* eventually closes it.  Nothing obliges a page to call open().
Fairness ==
    /\ WF_vars(RunTask)
    /\ \A r \in Requests : WF_vars(Proceed(r)) /\ WF_vars(ResumeUpgrade(r))
    /\ \A c \in Requests :
         WF_vars(Close(c) /\ \E e \in fired : e.ev = "versionchange" /\ e.at = c)

Spec == Init /\ [][Next]_vars /\ Fairness

-----------------------------------------------------------------------------
TypeOK ==
    /\ pc \in [Requests -> {"idle", "queued", "waiting", "done"}]
    /\ queue \in Seq(Requests)
    /\ result \in [Requests -> Results]
    /\ conn \in [Requests -> {"none", "open", "closed"}]
    /\ \A c \in Requests : conn[c] # "none" => version[c] \in Versions
    /\ dbVersion \in {0} \cup Versions
    /\ spins \in Seq(Requests)

\* However opens, closes and event dispatches interleave, every connection
\* a script holds open is at the database's current version: an upgrade
\* (open_a_database_connection step 10) never runs while an older
\* connection is still open.
OpenConnectionsCurrent ==
    \A c \in Requests : conn[c] = "open" /\ pc[c] = "done" => version[c] = dbVersion

\* The upgradeneeded event of upgrade_a_database reports the version the
\* database had before the upgrade, which is older than the new one.
UpgradeReportsOldVersion ==
    \A e \in fired : e.ev = "upgradeneeded" => e.old < e.new

\* versionchange and blocked events report, as oldVersion, the version the
\* database has before the upgrade they announce (step 10: "with db's
\* version and version"), which is older than the new one.
VersionChangeReportsOldVersion ==
    \A e \in fired : e.ev \in {"versionchange", "blocked"} => e.old < e.new

\* Every open() that entered the connection queue eventually returns,
\* provided scripts close connections on versionchange.  It does not hold
\* once spins nest: an open() made while another algorithm waits at step
\* 10.5 spins at step 3 on top of it, waiting for that request to be
\* processed, which needs the algorithm below it to return.
OpensComplete ==
    \A r \in Requests : pc[r] = "queued" ~> pc[r] = "done"
=============================================================================
