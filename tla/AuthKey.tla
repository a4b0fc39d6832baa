---------------------------------- MODULE AuthKey --------------------------------
(***************************************************************************)
(* The key the app and the bridge sign with (util/auth.rs): who makes it,  *)
(* the migration of an older one, the rotation, which takes no lock, and   *)
(* the consent log that is signed with it (util/consent_audit.rs).         *)
(***************************************************************************)
EXTENDS Integers

CONSTANTS
  KeyUsers,      \* processes: the app, its helper, the bridge
  MaxKeys,       \* bound on keys made
  MaxDisturbed   \* bound on rotations and access lists that cannot be set

ASSUME AuthKeyAssumption ==
  "app" \in KeyUsers /\ {MaxKeys, MaxDisturbed} \subseteq Nat

Legacy == 0                       \* the key of an older version, in its own place
NoKeyFile == -1
Torn == -2                        \* a file that is there with less than 32 bytes
FileKeys == 0..MaxKeys

VARIABLES
  keyFile, oldKey,  \* elev_key.bin and elev_key.bin.old
  legacyKey,        \* the old place has a key; it is never removed
  keyLock,          \* who has locked elev_key.bin
  keyUser,          \* per process: where it is, whether it makes a missing key
  held,             \* per process: the key it got last
  rotator,          \* rotate_key: idle, saved, truncated
  auditLog,         \* consent_audit.log: the keys its entries bear
  keysMade, rotations, keyFaults

keyFileVars == <<keyFile, oldKey, legacyKey, keyLock>>
keyVars == <<keyFileVars, keyUser, held, rotator, auditLog, keysMade, rotations, keyFaults>>

KeyUserStates == [at : {"idle", "migrate", "migrating", "open", "locked", "acl"}, create : BOOLEAN]
AuthKeyTypeOK ==
  /\ keyFile \in FileKeys \cup {NoKeyFile, Torn} /\ oldKey \in FileKeys \cup {NoKeyFile, Torn}
  /\ legacyKey \in {Legacy, NoKeyFile} /\ keyLock \in KeyUsers \cup {"nobody"}
  /\ keyUser \in [KeyUsers -> KeyUserStates]
  /\ held \in [KeyUsers -> FileKeys \cup {NoKeyFile}]
  /\ rotator \in {"idle", "saved", "truncated"}
  /\ auditLog \subseteq FileKeys
  /\ keysMade \in 0..MaxKeys /\ rotations \in 0..MaxDisturbed /\ keyFaults \in 0..MaxDisturbed

AuthKeyInit ==
  /\ keyFile = NoKeyFile /\ oldKey = NoKeyFile /\ legacyKey \in {Legacy, NoKeyFile}
  /\ keyLock = "nobody"
  /\ keyUser = [u \in KeyUsers |-> [at |-> "idle", create |-> FALSE]]
  /\ held = [u \in KeyUsers |-> NoKeyFile] /\ rotator = "idle"
  /\ auditLog = {}
  /\ keysMade = 0 /\ rotations = 0 /\ keyFaults = 0

KeyAt(u, at) == keyUser[u].at = at
KeyGoes(u, at) == keyUser' = [keyUser EXCEPT ![u].at = at]
Takes(u, key) == held' = [held EXCEPT ![u] = key]
Unlocked(u) == keyLock \in {"nobody", u}
NewKey == keysMade < MaxKeys /\ keysMade' = keysMade + 1
Elsewhere == <<rotator, auditLog, rotations>>

\* get_or_create_key and read_key both begin with the migration.
WantsKey(u, create) ==
  /\ KeyAt(u, "idle") /\ Takes(u, NoKeyFile)
  /\ keyUser' = [keyUser EXCEPT ![u] =
       [at |-> IF keyFile = NoKeyFile /\ legacyKey # NoKeyFile THEN "migrate" ELSE "open",
        create |-> create]]
  /\ UNCHANGED <<keyFileVars, Elsewhere, keysMade, keyFaults>>

\* migrate_legacy_key, without a lock: the file is emptied or made, then written. A lock
\* of another process refuses the write and may refuse the truncation.
MigrateOpens(u) ==
  /\ KeyAt(u, "migrate") /\ KeyGoes(u, "migrating")
  /\ keyFile' \in IF Unlocked(u) THEN {Torn} ELSE {keyFile, Torn}
  /\ UNCHANGED <<oldKey, legacyKey, keyLock, held, Elsewhere, keysMade, keyFaults>>
MigrateWrites(u) ==
  /\ KeyAt(u, "migrating") /\ KeyGoes(u, "open")
  /\ keyFile' = IF Unlocked(u) THEN legacyKey ELSE keyFile
  /\ UNCHANGED <<oldKey, legacyKey, keyLock, held, Elsewhere, keysMade, keyFaults>>

\* read_key: what is there now, or an error.
ReadsKey(u) ==
  /\ KeyAt(u, "open") /\ ~keyUser[u].create /\ KeyGoes(u, "idle")
  /\ Takes(u, IF keyFile \in FileKeys /\ Unlocked(u) THEN keyFile ELSE NoKeyFile)
  /\ UNCHANGED <<keyFileVars, Elsewhere, keysMade, keyFaults>>

\* get_or_create_key: the file is made if need be and locked, within 5 s.
LocksKey(u) ==
  /\ KeyAt(u, "open") /\ keyUser[u].create /\ keyLock = "nobody"
  /\ keyLock' = u /\ KeyGoes(u, "locked")
  /\ keyFile' = IF keyFile = NoKeyFile THEN Torn ELSE keyFile
  /\ UNCHANGED <<oldKey, legacyKey, held, Elsewhere, keysMade, keyFaults>>
LockTimesOut(u) ==
  /\ KeyAt(u, "open") /\ keyUser[u].create /\ ~Unlocked(u) /\ KeyGoes(u, "idle")
  /\ UNCHANGED <<keyFileVars, held, Elsewhere, keysMade, keyFaults>>
FindsKey(u) ==
  /\ KeyAt(u, "locked") /\ keyFile \in FileKeys
  /\ Takes(u, keyFile) /\ keyLock' = "nobody" /\ KeyGoes(u, "idle")
  /\ UNCHANGED <<keyFile, oldKey, legacyKey, Elsewhere, keysMade, keyFaults>>

\* Mutant: a key is made though another process made one before the lock was had.
MakesKeyUnread(u) == KeyAt(u, "locked") /\ NewKey
MakesWhenTorn(u) == KeyAt(u, "locked") /\ keyFile \notin FileKeys /\ NewKey
MakesKey(u) ==
  /\ MakesWhenTorn(u)
  /\ keyFile' = keysMade' /\ Takes(u, keysMade') /\ keyLock' = "nobody" /\ KeyGoes(u, "acl")
  /\ UNCHANGED <<oldKey, legacyKey, Elsewhere, keyFaults>>

\* A key whose access list cannot be set is removed again.
RestrictsAcl(u) ==
  /\ KeyAt(u, "acl") /\ KeyGoes(u, "idle")
  /\ \/ UNCHANGED <<keyFile, held, keyFaults>>
     \/ /\ rotations + keyFaults < MaxDisturbed /\ keyFaults' = keyFaults + 1
        /\ keyFile' = NoKeyFile /\ Takes(u, NoKeyFile)
  /\ UNCHANGED <<oldKey, legacyKey, keyLock, Elsewhere, keysMade>>

\* rotate_key, at the start of the app or by hand: the copy, the truncation, the write.
RotateSaves ==
  /\ rotator = "idle" /\ rotator' = "saved"
  /\ rotations + keyFaults < MaxDisturbed /\ rotations' = rotations + 1
  /\ oldKey' = IF keyFile # NoKeyFile THEN keyFile ELSE oldKey
  /\ UNCHANGED <<keyFile, legacyKey, keyLock, keyUser, held, auditLog, keysMade, keyFaults>>
RotateTruncates ==
  /\ rotator = "saved" /\ rotator' = "truncated"
  /\ keyFile' \in IF keyLock = "nobody" THEN {Torn} ELSE {keyFile, Torn}
  /\ UNCHANGED <<oldKey, legacyKey, keyLock, keyUser, held, auditLog, keysMade, rotations,
                 keyFaults>>
RotateWrites ==
  /\ rotator = "truncated" /\ rotator' = "idle"
  /\ \/ keyLock = "nobody" /\ NewKey /\ keyFile' = keysMade'
     \/ keyLock # "nobody" /\ UNCHANGED <<keyFile, keysMade>>
  /\ UNCHANGED <<oldKey, legacyKey, keyLock, keyUser, held, auditLog, rotations, keyFaults>>
\* read_old_key: a copy older than 7 days is removed.
OldKeyExpires ==
  /\ oldKey # NoKeyFile /\ oldKey' = NoKeyFile
  /\ UNCHANGED <<keyFile, legacyKey, keyLock, keyUser, held, Elsewhere, keysMade, keyFaults>>

\* verify_payload: the key of the moment, or the one before it.
AcceptedKeys == FileKeys \cap {keyFile, oldKey}

\* log_consent_event, in the app: an entry signed with a key that was asked for; a log that is too
\* long is moved away first, to where nobody verifies it.
RotateAudit == {auditLog, {}}
LogConsent(u) ==
  /\ KeyAt(u, "idle") /\ held[u] # NoKeyFile
  /\ \E log \in RotateAudit : auditLog' = log \cup {held[u]}
  /\ UNCHANGED <<keyFileVars, keyUser, held, rotator, keysMade, rotations, keyFaults>>
\* verify_audit_log: every entry of the live log, by the key the process has got.
AuditVerifies(u) == auditLog \subseteq {held[u]}

AuthKeyNext ==
  \/ \E u \in KeyUsers :
       \/ \E create \in BOOLEAN : WantsKey(u, create)
       \/ MigrateOpens(u) \/ MigrateWrites(u) \/ ReadsKey(u) \/ LocksKey(u) \/ LockTimesOut(u)
       \/ FindsKey(u) \/ MakesKey(u) \/ RestrictsAcl(u)
  \/ LogConsent("app") \/ RotateSaves \/ RotateTruncates \/ RotateWrites \/ OldKeyExpires

AuthKeySpec == AuthKeyInit /\ [][AuthKeyNext]_keyVars

-----------------------------------------------------------------------------
(* Properties.                                                             *)

\* Processes that start together agree on one key, which is still accepted, and the log
\* they sign verifies; as long as no key is migrated or rotated beside them and the access
\* list can be set (get_or_create_key's lock).
Undisturbed == legacyKey = NoKeyFile /\ rotations = 0 /\ keyFaults = 0
OneKey ==
  Undisturbed =>
    \A u \in KeyUsers : held[u] # NoKeyFile => held[u] \in AcceptedKeys /\ AuditVerifies(u)
==================================================================================
