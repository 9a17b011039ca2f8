----------------------------- MODULE ConfigMigration -----------------------------
(***************************************************************************)
(* The migration of configuration files of src/faith_pa/config/migration.py.*)
(* A file is backed up beside itself, rewritten, and restored from the     *)
(* backup if that fails.  The process may stop within the rewriting.  The  *)
(* backup of a tool's file matches the pattern tool files are found by.    *)
(***************************************************************************)
EXTENDS Naturals, FiniteSets

CONSTANTS ConfigNames,
          ToolNames,        \* those under tools/
          MaxBackups,       \* bound on the migrations
          MaxTears          \* bound on stops within a rewriting

ASSUME MigrationConstants == ToolNames \subseteq ConfigNames /\ MaxBackups \in Nat /\ MaxTears \in Nat

Old == "old"                \* schema versions
Current == "current"        \* CURRENT_SCHEMA_VERSION
Invalid == "invalid"

\* What a file may hold: the user's settings, nothing, or half a text.
Settings == "settings"
Nothing == "nothing"
Torn == "torn"

VARIABLES onDisk,    \* the files, by name and number: 0 is the file itself
          backups,   \* number of backups so far
          tears      \* number of stops so far

migrationVars == <<onDisk, backups, tears>>

MigrationInit ==
  /\ onDisk = [f \in ConfigNames \X {0} |-> [version |-> Old, body |-> Settings]]
  /\ backups = 0 /\ tears = 0

\* iter_config_files and check_all
ConfigFilesFound == {f \in DOMAIN onDisk : f[2] = 0 \/ f[1] \in ToolNames}
Pending == {f \in ConfigFilesFound : onDisk[f].version # Current}

\* The text a rewriting leaves: read_schema_version finds no version in a torn one.
Written(body) == [version |-> Current, body |-> body]
Remains == {[version |-> Invalid, body |-> b] : b \in {Nothing, Torn}}

\* create_backup
Backup(f) == <<f[1], backups + 1>>

\* A bug the runs must notice: the backup is made of the new text.
BackupAfterwards(f, new) ==
  [g \in DOMAIN onDisk \cup {Backup(f)} |-> IF g \in {f, Backup(f)} THEN new ELSE onDisk[g]]

WithBackup(f, new) ==
  [g \in DOMAIN onDisk \cup {Backup(f)} |->
     IF g = Backup(f) THEN onDisk[f] ELSE IF g = f THEN new ELSE onDisk[g]]

\* migrate_file: an empty file becomes one with nothing but a version, an
\* unreadable one, or a script that raises, is a failure and the backup is
\* copied back.
MigrateFile(f) ==
  /\ backups < MaxBackups /\ f \in Pending
  /\ backups' = backups + 1
  /\ \/ onDisk[f].body # Torn /\ onDisk' = WithBackup(f, Written(onDisk[f].body)) /\ UNCHANGED tears
     \/ onDisk' = WithBackup(f, onDisk[f]) /\ UNCHANGED tears
     \/ /\ tears < MaxTears /\ tears' = tears + 1
        /\ \E r \in Remains : onDisk' = WithBackup(f, r)

\* The user mends the file, or writes a new one.
Mend(n) ==
  /\ onDisk[<<n, 0>>].body # Settings
  /\ onDisk' = [onDisk EXCEPT ![<<n, 0>>] = Written(Settings)]
  /\ UNCHANGED <<backups, tears>>

MigrationNext ==
  \/ \E f \in Pending : MigrateFile(f)
  \/ \E n \in ConfigNames : Mend(n)

(***************************************************************************)
(* Whatever stops and fails, the settings of a file are in the file or in  *)
(* one of its backups.                                                     *)
(***************************************************************************)
SettingsAreKept ==
  \A n \in ConfigNames : \E f \in DOMAIN onDisk : f[1] = n /\ onDisk[f].body = Settings

(***************************************************************************)
(* A backup is never rewritten.  It does not hold of tools' files, whose   *)
(* backups are found as files of tools and migrated themselves.            *)
(***************************************************************************)
BackupsStay ==
  [][\A f \in DOMAIN onDisk : f[2] # 0 => onDisk'[f] = onDisk[f]]_migrationVars
=============================================================================
