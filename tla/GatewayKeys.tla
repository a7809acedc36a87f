---------------------------- MODULE GatewayKeys ----------------------------
(***************************************************************************)
(* Gateway keys: the config watcher that reloads the file and brings the   *)
(* seeded keys of the database in line with it, the admin calls that       *)
(* create and revoke keys, and a restart in the middle of any of it        *)
(* (gateway-api/src/{reload,seed_keys}.rs, routes/admin/keys.rs,           *)
(* gateway-storage/src/sqlite/metadata.rs).                                *)
(***************************************************************************)
EXTENDS Integers, Sequences, FiniteSets

CONSTANTS
  Files,        \* contents the config file may have; see FileType
  FirstFile,
  Ids, Secrets,
  AdminIds,     \* ids of keys that POST /admin/keys generates
  Projects,     \* rows of the projects table
  DefaultProject,
  Admins,       \* concurrent revoke calls
  MayRestart,   \* whether the process may die and be started again
  None          \* Option::None

\* A file loads or not (parse and validate); its gateway_keys name an id, a
\* project, a secret, and whether the secret resolves (env:// may not).
KeyType == [id : Ids, project : STRING, secret : Secrets, resolves : BOOLEAN]
FileType(f) ==
  /\ f.valid \in BOOLEAN
  /\ f.keys \in Seq(KeyType)
  /\ \A i, j \in 1..Len(f.keys) : f.keys[i].id = f.keys[j].id => i = j

\* A row of the gateway_keys table; the secret stands for its hash.
RowType == [project : STRING, secret : Secrets, status : {"active", "revoked"},
            origin : {"admin", "config"}]

ASSUME KeysAssumption ==
  /\ FirstFile \in Files
  /\ \A f \in Files : FileType(f)
  /\ FirstFile.valid
  /\ AdminIds \subseteq Ids
  /\ DefaultProject \in Projects /\ Projects \subseteq STRING
  /\ MayRestart \in BOOLEAN
  /\ None \notin Files /\ None \notin Ids /\ None \notin RowType

VARIABLES
  file,      \* contents of the config file
  config,    \* the published configuration; None while the process starts
  rows,      \* gateway_keys table, by id
  event,     \* a file event waits in the watcher's channel
  pc,        \* "idle", "debounce", "upsert", "prune", "publish", "stopped"
  booting,   \* main runs apply, not the watcher
  loading,   \* the configuration being applied
  next,      \* index of its next key to upsert
  unpruned,  \* projects still to be pruned
  revoking,  \* id a revoke call has checked and not yet written
  applied    \* history: the last apply to end succeeded

vars == <<file, config, rows, event, pc, booting, loading, next, unpruned, revoking,
          applied>>

Row(project, secret, origin) ==
  [project |-> project, secret |-> secret, status |-> "active", origin |-> origin]

IsConfig(id) == rows[id] # None /\ rows[id].origin = "config"
IsAdmin(id) == rows[id] # None /\ rows[id].origin = "admin"

Init ==
  /\ file = FirstFile
  /\ config = None
  /\ rows = [id \in Ids |-> None]
  /\ event = FALSE
  /\ pc = "upsert"
  /\ booting = TRUE
  /\ loading = FirstFile
  /\ next = 1
  /\ unpruned = {}
  /\ revoking = [a \in Admins |-> None]
  /\ applied = FALSE

----------------------------------------------------------------------------
(* The watcher.                                                            *)

\* The operator writes the file; once main has started the watcher, its callback
\* queues an event.
Edit(f) ==
  /\ f # file
  /\ file' = f
  /\ event' = (event \/ ~booting)
  /\ UNCHANGED <<config, rows, pc, booting, loading, next, unpruned, revoking, applied>>

\* rx.recv, then the debounce loop swallows further events.
Wake ==
  /\ pc \in {"idle", "debounce"} /\ event
  /\ event' = FALSE
  /\ pc' = "debounce"
  /\ UNCHANGED <<file, config, rows, booting, loading, next, unpruned, revoking, applied>>

\* try_reload: a file that does not load leaves everything as it is.
Load ==
  /\ pc = "debounce"
  /\ \/ /\ file.valid
        /\ loading' = file /\ next' = 1
        /\ pc' = "upsert"
     \/ /\ ~file.valid
        /\ pc' = "idle"
        /\ UNCHANGED <<loading, next>>
  /\ UNCHANGED <<file, config, rows, event, booting, unpruned, revoking, applied>>

----------------------------------------------------------------------------
(* seed_keys::apply.                                                       *)

DeclaredIn(f, p) == {f.keys[i].id : i \in {j \in 1..Len(f.keys) : f.keys[j].project = p}}
ProjectsOf(f) == {f.keys[i].project : i \in 1..Len(f.keys)}

\* Mutant: only the projects the file mentions.
PruneMentioned(f) == ProjectsOf(f)

\* The projects that are pruned: those the file mentions, and the default one.
ToPrune(f) == ProjectsOf(f) \cup {DefaultProject}

\* apply failed: main gives up, the watcher logs it and goes on to publish.
ApplyFails ==
  /\ pc' = IF booting THEN "stopped" ELSE "publish"
  /\ applied' = FALSE
  /\ unpruned' = {}
  /\ UNCHANGED <<rows, next>>

\* Mutant: an admin's key is overwritten.
RefusedByProject(k) == k.project \notin Projects

\* upsert_seeded_key fails: the id belongs to an admin's key, or the project
\* does not exist.
Refused(k) == IsAdmin(k.id) \/ k.project \notin Projects

\* One secret does not resolve: nothing is written at all.
Unresolved ==
  /\ pc = "upsert" /\ next = 1
  /\ \E i \in 1..Len(loading.keys) : ~loading.keys[i].resolves
  /\ ApplyFails
  /\ UNCHANGED <<file, config, event, booting, loading, revoking>>

Resolves == \A i \in 1..Len(loading.keys) : loading.keys[i].resolves

Upsert ==
  /\ pc = "upsert" /\ Resolves /\ next <= Len(loading.keys)
  /\ LET k == loading.keys[next]
     IN \/ /\ Refused(k)
           /\ ApplyFails
        \/ /\ ~Refused(k)
           /\ rows' = [rows EXCEPT ![k.id] = Row(k.project, k.secret, "config")]
           /\ next' = next + 1
           /\ UNCHANGED <<pc, applied, unpruned>>
  /\ UNCHANGED <<file, config, event, booting, loading, revoking>>

StartPrune ==
  /\ pc = "upsert" /\ Resolves /\ next > Len(loading.keys)
  /\ pc' = "prune"
  /\ unpruned' = ToPrune(loading)
  /\ UNCHANGED <<file, config, rows, event, booting, loading, next, revoking, applied>>

\* prune_seeded_keys_not_in for one project; a default project the file does not
\* mention comes last.
Prune(p) ==
  /\ pc = "prune" /\ p \in unpruned
  /\ p \in ProjectsOf(loading) \/ unpruned = {p}
  /\ rows' = [id \in Ids |->
       IF IsConfig(id) /\ rows[id].project = p /\ id \notin DeclaredIn(loading, p)
       THEN None ELSE rows[id]]
  /\ unpruned' = unpruned \ {p}
  /\ UNCHANGED <<file, config, event, pc, booting, loading, next, revoking, applied>>

\* An upsert or a prune fails in the database; those before it stay.
StoreFails ==
  /\ \/ pc = "upsert" /\ Resolves /\ next <= Len(loading.keys)
     \/ pc = "prune" /\ unpruned # {}
  /\ ApplyFails
  /\ UNCHANGED <<file, config, event, booting, loading, revoking>>

Applied ==
  /\ pc = "prune" /\ unpruned = {}
  /\ pc' = "publish"
  /\ applied' = TRUE
  /\ UNCHANGED <<file, config, rows, event, booting, loading, next, unpruned, revoking>>

\* Mutant: events that arrived during the reload are taken as done.
PublishDropsEvents ==
  /\ pc = "publish"
  /\ config' = loading
  /\ booting' = FALSE
  /\ event' = FALSE
  /\ pc' = "idle"
  /\ UNCHANGED <<file, rows, loading, next, unpruned, revoking, applied>>

\* target.store: the new configuration is visible to new requests.
Publish ==
  /\ pc = "publish"
  /\ config' = loading
  /\ booting' = FALSE
  /\ pc' = "idle"
  /\ UNCHANGED <<file, rows, event, loading, next, unpruned, revoking, applied>>

----------------------------------------------------------------------------
(* Admin calls, and restarts.                                              *)

Serving == config # None

CreateKey(id, s) ==
  /\ Serving /\ id \in AdminIds /\ rows[id] = None
  /\ rows' = [rows EXCEPT ![id] = Row(DefaultProject, s, "admin")]
  /\ UNCHANGED <<file, config, event, pc, booting, loading, next, unpruned, revoking,
                 applied>>

\* revoke_key reads the row and refuses a config key...
RevokeCheck(a, id) ==
  /\ Serving /\ revoking[a] = None
  /\ ~IsConfig(id)
  /\ revoking' = [revoking EXCEPT ![a] = id]
  /\ UNCHANGED <<file, config, rows, event, pc, booting, loading, next, unpruned,
                 applied>>

\* ... and then revokes whatever has that id now; no row is NotFound.
Revoke(a) ==
  LET id == revoking[a]
  IN /\ Serving /\ id # None
     /\ rows' = IF rows[id] = None THEN rows
                ELSE [rows EXCEPT ![id].status = "revoked"]
     /\ revoking' = [revoking EXCEPT ![a] = None]
     /\ UNCHANGED <<file, config, event, pc, booting, loading, next, unpruned, applied>>

\* The process dies, at any point, and is started again; it starts only with a
\* file that loads.
Restart ==
  /\ MayRestart /\ file.valid
  /\ config' = None
  /\ event' = FALSE
  /\ pc' = "upsert"
  /\ booting' = TRUE
  /\ loading' = file /\ next' = 1
  /\ unpruned' = {}
  /\ revoking' = [a \in Admins |-> None]
  /\ UNCHANGED <<file, rows, applied>>

Watcher ==
  \/ Wake \/ Load \/ Unresolved \/ Upsert \/ StartPrune
  \/ (\E p \in unpruned : Prune(p)) \/ StoreFails \/ Applied \/ Publish

Next ==
  \/ Watcher
  \/ \E f \in Files : Edit(f)
  \/ \E id \in Ids : \E s \in Secrets : CreateKey(id, s)
  \/ \E a \in Admins : (\E id \in Ids : RevokeCheck(a, id)) \/ Revoke(a)
  \/ Restart

Spec == Init /\ [][Next]_vars

\* The watcher is a task of its own; the debounce ends although events may keep
\* coming, because its deadline is fixed when it starts.
FairSpec == Spec /\ WF_vars(Watcher) /\ SF_vars(Load)

----------------------------------------------------------------------------
(***************************************************************************)
(* Properties                                                              *)
(***************************************************************************)
\* The table, the watcher and the admin calls keep their types.
TypeOK ==
  /\ file \in Files /\ config \in Files \cup {None} /\ loading \in Files
  /\ DOMAIN rows = Ids
  /\ \A id \in Ids : rows[id] \in RowType \cup {None}
  /\ event \in BOOLEAN /\ booting \in BOOLEAN /\ applied \in BOOLEAN
  /\ pc \in {"idle", "debounce", "upsert", "prune", "publish", "stopped"}
  /\ next \in 1..(Len(loading.keys) + 1)
  /\ unpruned \subseteq ToPrune(loading)
  /\ revoking \in [Admins -> Ids \cup {None}]

\* No reload, restart or failing apply ever touches an admin's key: the row
\* stays, with its project and secret, and once revoked it is not revived.
AdminRowsKept ==
  [][\A id \in Ids :
       IsAdmin(id) =>
         /\ rows'[id] # None
         /\ rows'[id] \in {rows[id], [rows[id] EXCEPT !.status = "revoked"]}]_vars

\* While the watcher rests after a successful apply, every key the published
\* configuration declares is there with its project and secret, and no other
\* seeded key is left in the default project or in a project that is declared.
InSync ==
  (pc = "idle" /\ applied) =>
    /\ \A i \in 1..Len(config.keys) :
         LET k == config.keys[i]
         IN IsConfig(k.id) /\ rows[k.id].project = k.project /\ rows[k.id].secret = k.secret
    /\ \A id \in Ids :
         (IsConfig(id) /\ rows[id].project \in ProjectsOf(config) \cup {DefaultProject})
           => id \in DeclaredIn(config, rows[id].project)

\* An edit the watcher was told of is published, unless the file does not load
\* or changes again, or the process dies: no event is lost between reading the
\* file and publishing it.
Overtaken(f) == file # f \/ pc = "stopped" \/ booting
WatchedEditPublished ==
  \A f \in Files : (event /\ file = f /\ f.valid) ~> (config = f \/ Overtaken(f))
=============================================================================
