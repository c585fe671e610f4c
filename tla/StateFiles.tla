----------------------------- MODULE StateFiles -----------------------------
(* Where a profile keeps its state and how its database comes to have a     *)
(* schema: the path resolver (paths.rs), the process lock every command     *)
(* opens the store under, the migrator (migrations.rs), whose steps of      *)
(* several processes interleave when their locks differ or when they open   *)
(* again without it, and doctor's look at the result, which takes no lock.  *)
EXTENDS Naturals, Sequences, FiniteSets, SequencesExt

CONSTANTS
  Openers,       \* processes
  Profiles,
  Binaries,      \* builds: [n |-> embedded migrations, build |-> ...]
  Layouts,       \* environments with each profile's storage.database_path
  MaxStarts,     \* bound on the starts and unlocked opens
  Nobody

Kinds == {"default", "absolute", "home", "tilde", "relative"}

\* What is known of a machine: a variable is unset, absolute or neither; a
\* profile's name passed validate_profile_segment, and a configured path is
\* not empty.
ASSUME StateConstants ==
  /\ Nobody \notin Openers /\ MaxStarts \in Nat
  /\ Profiles \subseteq STRING /\ ".." \notin Profiles
  /\ Binaries \subseteq [n : Nat, build : STRING]
  /\ \A l \in Layouts : /\ l.database \in [Profiles -> [kind : Kinds, path : Seq(STRING)]]
                        /\ \A p \in Profiles : l.database[p].kind = "relative" => l.database[p].path # <<>>

VARIABLES
  layout,        \* the environment of this machine
  db,            \* database path -> [ledger, tables, version]
  holder,        \* profile's lock file -> the process that holds it
  opener,        \* what each process is doing
  opens,         \* process starts so far
  doctor         \* doctor's inspection

stateVars == <<layout, db, holder, opener, opens, doctor>>

----------------------------------------------------------------------------
(* Paths are sequences of components. *)

Error == <<"error">>

\* env_path: unset is fine, empty or relative is an error.
EnvPath(v, name, fallback) == CASE v = "unset" -> fallback [] v = "absolute" -> <<"/", name>> [] OTHER -> Error

HomeDir(l) == EnvPath(l.home, "home", Error)

\* resolve_roots, resolve_xdg_roots, resolve_macos_roots: the state root.
\* xdgOther stands for the data and cache variables: one that cannot be used
\* is an error too, and on macOS any of the three selects the XDG layout.
StateRoot(l) ==
  LET missive == EnvPath(l.missiveHome, "missive", <<>>)
      xdg     == IF HomeDir(l) = Error \/ EnvPath(l.xdgOther, "xdg", <<>>) = Error THEN Error
                 ELSE EnvPath(l.xdgState, "xdg", HomeDir(l) \o <<".local", "state">>)
  IN IF missive = Error THEN Error
     ELSE IF missive # <<>> THEN missive \o <<"state">>
     ELSE IF l.platform = "linux" \/ {l.xdgState, l.xdgOther} # {"unset"} THEN IF xdg = Error THEN Error ELSE xdg \o <<"missive">>
     ELSE IF HomeDir(l) = Error THEN Error ELSE HomeDir(l) \o <<"Library", "Application Support", "missive", "state">>

StateDir(l, profile) == StateRoot(l) \o <<"profiles", profile>>

\* validate_relative_database_path.
RelativeOk(path) == \A i \in DOMAIN path : path[i] # ".."

\* What a path names once its ".." are followed.
Followed(path) ==
  IF RelativeOk(path) THEN path
  ELSE FoldLeft(LAMBDA acc, c : IF c = ".." THEN Front(acc) ELSE Append(acc, c), <<>>, path)

\* resolve_storage, resolve_database_path. validate_profile_segment holds of
\* every profile the configuration accepts.
DatabasePath(l, profile) ==
  LET given == l.database[profile]
  IN IF StateRoot(l) = Error THEN Error
     ELSE CASE given.kind = "default"  -> StateDir(l, profile) \o <<"missive.sqlite3">>
            [] given.kind = "absolute" -> given.path
            [] given.kind = "home"     -> IF HomeDir(l) = Error THEN Error ELSE HomeDir(l) \o given.path
            [] given.kind = "tilde"    -> Error
            [] given.kind = "relative" -> IF RelativeOk(given.path) THEN Followed(StateDir(l, profile) \o given.path)
                                          ELSE Error

----------------------------------------------------------------------------
(* The migrator. A ledger maps each applied version to its checksum. *)

NoDatabase == [ledger |-> <<>>, tables |-> {}, version |-> 0]
Off == [step |-> "off", profile |-> Nobody, binary |-> Nobody, at |-> <<>>, existing |-> {}, next |-> 1,
        born |-> {}, end |-> "none"]

\* Only the second migration of another build differs.
Checksum(b, v) == IF v = 2 THEN b.build ELSE "a"

StateInit ==
  /\ layout \in Layouts
  /\ db = [path \in {DatabasePath(layout, p) : p \in Profiles} |-> NoDatabase]
  /\ holder = [p \in Profiles |-> Nobody]
  /\ opener = [o \in Openers |-> Off] /\ opens = 0
  /\ doctor = [step |-> "off", binary |-> Nobody, at |-> <<>>, version |-> 0]

\* Seeded fault of Released: a failed process leaves the lock behind.
ReleasedOnSuccess(o) == IF opener'[o].end = "opened" /\ holder[opener[o].profile] = o
                        THEN [holder EXCEPT ![opener[o].profile] = Nobody] ELSE holder

\* The guard is dropped when the process is done, however it ends.
Released(o) == IF holder[opener[o].profile] = o THEN [holder EXCEPT ![opener[o].profile] = Nobody] ELSE holder

End(o, how) ==
  /\ opener' = [opener EXCEPT ![o] = [Off EXCEPT !.step = "ended", !.profile = opener[o].profile, !.end = how]]
  /\ holder' = Released(o)

\* A command starts: it loads its configuration and resolves its paths.
StartOpener(o, p, b) ==
  /\ opener[o].step \in {"off", "ended"} /\ opens < MaxStarts
  /\ opens' = opens + 1
  /\ LET path == DatabasePath(layout, p)
     IN opener' = [opener EXCEPT ![o] = IF path = Error
                     THEN [Off EXCEPT !.step = "ended", !.profile = p, !.end = "paths"]
                     ELSE [Off EXCEPT !.step = "lock", !.profile = p, !.binary = b, !.at = path]]
  /\ UNCHANGED <<layout, db, holder, doctor>>

LockFree(p) == holder[p] = Nobody

\* ensure_directories, ProcessLock::acquire.
TakeLock(o) ==
  /\ opener[o].step = "lock" /\ LockFree(opener[o].profile)
  /\ holder' = [holder EXCEPT ![opener[o].profile] = o]
  /\ opener' = [opener EXCEPT ![o].step = "verify", ![o].born = DOMAIN db[opener[o].at].ledger]
  /\ UNCHANGED <<layout, db, opens, doctor>>

\* verify_existing_migrations: every applied migration is embedded, by name
\* and checksum.
Verdict(o) ==
  LET ledger == db[opener[o].at].ledger
      b == opener[o].binary
  IN IF \E v \in DOMAIN ledger : v > b.n THEN "future"
     ELSE IF \E v \in DOMAIN ledger : ledger[v] # Checksum(b, v) THEN "edited" ELSE "known"

VerifyLedger(o) ==
  /\ opener[o].step = "verify"
  /\ IF Verdict(o) = "known" THEN opener' = [opener EXCEPT ![o].step = "read"] /\ UNCHANGED holder ELSE End(o, Verdict(o))
  /\ UNCHANGED <<layout, db, opens, doctor>>

\* applied_migration_map, read once before the loop.
ReadLedger(o) ==
  /\ opener[o].step = "read"
  /\ opener' = [opener EXCEPT ![o].step = "apply", ![o].existing = DOMAIN db[opener[o].at].ledger, ![o].next = 1]
  /\ UNCHANGED <<layout, db, holder, opens, doctor>>

\* apply_migration's transaction: the tables and the row of the ledger.
Applied(d, v, checksum) ==
  [d EXCEPT !.tables = @ \cup {v}, !.ledger = [w \in DOMAIN @ \cup {v} |-> IF w = v THEN checksum ELSE @[w]]]

\* One turn of migrate_connection's loop. A migration somebody else applied
\* since the ledger was read fails on the tables it finds.
ApplyNext(o) ==
  LET me == opener[o]
      v  == me.next
  IN /\ me.step = "apply" /\ v <= me.binary.n
     /\ IF v \in me.existing THEN opener' = [opener EXCEPT ![o].next = v + 1] /\ UNCHANGED <<db, holder>>
        ELSE IF v \in db[me.at].tables THEN End(o, "collision") /\ UNCHANGED db
        ELSE /\ db' = [db EXCEPT ![me.at] = Applied(@, v, Checksum(me.binary, v))]
             /\ opener' = [opener EXCEPT ![o].next = v + 1] /\ UNCHANGED holder
     /\ UNCHANGED <<layout, opens, doctor>>

MayStamp(o) == opener[o].step = "apply" /\ opener[o].next > opener[o].binary.n

\* set_user_version, and the store is open; the command does its work.
StampVersion(o) ==
  /\ MayStamp(o)
  /\ db' = [db EXCEPT ![opener[o].at].version = opener[o].binary.n]
  /\ opener' = [opener EXCEPT ![o].step = "using"]
  /\ UNCHANGED <<layout, holder, opens, doctor>>

CloseStore(o) ==
  /\ opener[o].step = "using" /\ End(o, "opened")
  /\ UNCHANGED <<layout, db, opens, doctor>>

\* Some commands let go of the lock once the store is open (events.rs).
ReleaseLock(o) ==
  /\ opener[o].step = "using" /\ holder[opener[o].profile] = o
  /\ UNCHANGED <<layout, db, opener, opens, doctor>>
  /\ holder' = Released(o)

\* The gateway and an attached command open the store again without the lock
\* (read_task_record, job_cancelled, wait_for_job_terminal): the migrator runs
\* once more.
OpenUnlocked(o) ==
  /\ opener[o].step = "using" /\ holder[opener[o].profile] # o /\ opens < MaxStarts
  /\ opens' = opens + 1
  /\ opener' = [opener EXCEPT ![o].step = "verify", ![o].born = DOMAIN db[opener[o].at].ledger]
  /\ UNCHANGED <<layout, db, holder, doctor>>

\* A process may die, or SQLite refuse (busy, disk), at any step.
BreakOff(o) ==
  /\ opener[o].step \notin {"off", "ended"} /\ End(o, "broken")
  /\ UNCHANGED <<layout, db, opens, doctor>>

----------------------------------------------------------------------------
(* doctor: inspect_existing_database reads the version, then the ledger. *)

StartDoctor(p, b) ==
  /\ doctor.step = "off" /\ DatabasePath(layout, p) # Error
  /\ doctor' = [step |-> "ledger", binary |-> b, at |-> DatabasePath(layout, p),
                version |-> db[DatabasePath(layout, p)].version]
  /\ UNCHANGED <<layout, db, holder, opener, opens>>

\* Seeded fault of Inspection: the version alone decides.
InspectionByVersion(d, b, version) == IF version = b.n THEN "pass" ELSE "fail"

\* sqlite_migration_check: current means this version and exactly these
\* migrations, unedited. A database that does not exist yet is skipped; here
\* it is as one without migrations.
Inspection(d, b, version) ==
  IF version = b.n /\ DOMAIN d.ledger = 1..b.n /\ (\A v \in 1..b.n : d.ledger[v] = Checksum(b, v))
  THEN "pass" ELSE "fail"

ReportDoctor ==
  /\ doctor.step = "ledger"
  /\ doctor' = [doctor EXCEPT !.step = Inspection(db[doctor.at], doctor.binary, doctor.version)]
  /\ UNCHANGED <<layout, db, holder, opener, opens>>

OpenerSteps(o) == TakeLock(o) \/ VerifyLedger(o) \/ ReadLedger(o) \/ ApplyNext(o) \/ StampVersion(o) \/ CloseStore(o)

StateNext ==
  \/ \E o \in Openers : \/ \E p \in Profiles, b \in Binaries : StartOpener(o, p, b)
                        \/ OpenerSteps(o)
                        \/ ReleaseLock(o) \/ OpenUnlocked(o)
                        \/ BreakOff(o)
  \/ \E p \in Profiles, b \in Binaries : StartDoctor(p, b)
  \/ ReportDoctor

StateSpec == StateInit /\ [][StateNext]_stateVars

\* A process that can take a step takes it: nothing in an open waits for
\* anything but the lock.
StateFairness == \A o \in Openers : WF_stateVars(OpenerSteps(o))

----------------------------------------------------------------------------
(* Properties. *)

StateTypeOK ==
  /\ layout \in Layouts /\ opens \in 0..MaxStarts
  /\ \A path \in DOMAIN db : DOMAIN db[path].ledger \subseteq Nat /\ db[path].version \in Nat
  /\ holder \in [Profiles -> Openers \cup {Nobody}]
  /\ \A o \in Openers : opener[o].step \in {"off", "lock", "verify", "read", "apply", "using", "ended"}
  /\ doctor.step \in {"off", "ledger", "pass", "fail"}

\* Whatever died or raced in between, a database has exactly the tables its
\* ledger records, and they are the first migrations without a gap.
LedgerMatchesTables ==
  \A path \in DOMAIN db : /\ DOMAIN db[path].ledger = db[path].tables
                          /\ db[path].tables = 1..Cardinality(db[path].tables)

\* user_version never claims a migration the database does not have.
VersionNeverAhead == \A path \in DOMAIN db : db[path].version \in {0} \cup db[path].tables

\* A process that uses the store has the whole schema of its own build, and a
\* database that was newer, or differently built, when it took the lock, or
\* opened the store again without it, is never used
\* (verify_existing_migrations).
UsedIsUnderstood ==
  \A o \in Openers : opener[o].step = "using" =>
    LET d == db[opener[o].at]
        b == opener[o].binary
    IN /\ 1..b.n \subseteq d.tables /\ opener[o].born \subseteq 1..b.n
       /\ \A v \in opener[o].born : d.ledger[v] = Checksum(b, v)

Shares(p) == \E q \in Profiles \ {p} : DatabasePath(layout, p) = DatabasePath(layout, q)

\* Processes of one profile never trip over each other's migration: an open
\* fails on tables already there only when two profiles, each with its own
\* lock file, were given one database.
OnlySharedCollide == \A o \in Openers : opener[o].end = "collision" => Shares(opener[o].profile)

\* A database named relative to its profile, or not named at all, lies in that
\* profile's own state directory, so two such profiles never share one.
DatabasesApart ==
  \A p \in Profiles : LET given == layout.database[p].kind
                          path  == DatabasePath(layout, p)
                      IN given \in {"default", "relative"} /\ path # Error =>
                           /\ IsStrictPrefix(StateDir(layout, p), path)
                           /\ \A q \in Profiles \ {p} : layout.database[q].kind \in {"default", "relative"} =>
                                DatabasePath(layout, q) # path

\* When doctor says the database is current it has every migration of this
\* build, unedited, although doctor looked without the lock and in two reads.
DoctorPassIsTrue ==
  doctor.step = "pass" =>
    \A v \in 1..doctor.binary.n :
      v \in db[doctor.at].tables /\ db[doctor.at].ledger[v] = Checksum(doctor.binary, v)

\* Every process that started gets its store or an error: no lock outlives the
\* process that took it.
OpensEnd == \A o \in Openers : opener[o].step \notin {"off", "ended"} ~> opener[o].step = "ended"

\* Opening, migrating and inspecting a store, with crashes and other builds in
\* between, leaves a schema that is what its ledger says and that its users
\* understand.
SchemaIsUnderstood ==
  /\ StateTypeOK /\ LedgerMatchesTables /\ VersionNeverAhead /\ UsedIsUnderstood
  /\ OnlySharedCollide /\ DatabasesApart /\ DoctorPassIsTrue
=============================================================================
