------------------------- MODULE GatewayKeysProofs -------------------------
(***************************************************************************)
(* Proofs about GatewayKeys, for any files, ids, admins and restarts.      *)
(***************************************************************************)
EXTENDS GatewayKeys, TLAPS

\* A file declares keys of KeyType.
LEMMA FileFacts ==
  ASSUME NEW f \in Files
  PROVE  /\ f.valid \in BOOLEAN
         /\ f.keys \in Seq(KeyType)
         /\ Len(f.keys) \in Nat
         /\ \A i \in 1..Len(f.keys) : f.keys[i] \in KeyType
<1>1. f.valid \in BOOLEAN /\ f.keys \in Seq(KeyType)
  BY KeysAssumption DEF FileType
<1>2. QED
  <2> HIDE DEF KeyType
  <2> QED BY <1>1

\* A row as the table stores it for a seeded or a created key.
LEMMA RowFacts ==
  ASSUME NEW p \in STRING, NEW s \in Secrets, NEW o \in {"admin", "config"}
  PROVE  Row(p, s, o) \in RowType
BY DEF Row, RowType

\* A row that changes its status only.
LEMMA RevokedRow ==
  ASSUME NEW row \in RowType
  PROVE  [row EXCEPT !.status = "revoked"] \in RowType
BY DEF RowType

\* TypeOK alone is not inductive: the projects left to prune belong to the file
\* being applied, so none may be left when the next file is loaded.
KeysInv == TypeOK /\ (pc # "prune" => unpruned = {})

\* The invariant holds at the start: main applies the first file.
LEMMA InitInv == Init => KeysInv
<1> SUFFICES ASSUME Init PROVE KeysInv
  OBVIOUS
<1>1. FirstFile \in Files /\ Len(FirstFile.keys) \in Nat
  BY KeysAssumption, FileFacts
<1>2. DOMAIN rows = Ids /\ \A id \in Ids : rows[id] = None
  BY DEF Init
<1>3. revoking \in [Admins -> Ids \cup {None}]
  BY DEF Init
<1>4. next \in 1..(Len(loading.keys) + 1)
  BY <1>1 DEF Init
<1>5. QED
  BY <1>1, <1>2, <1>3, <1>4 DEF Init, KeysInv, TypeOK

\* An upsert writes a row of the declared key, or fails and writes nothing.
LEMMA UpsertInv == KeysInv /\ Upsert => KeysInv'
<1> SUFFICES ASSUME KeysInv, Upsert PROVE KeysInv'
  OBVIOUS
<1> USE DEF KeysInv, TypeOK
<1> DEFINE k == loading.keys[next]
<1>0. /\ Len(loading.keys) \in Nat
      /\ \A i \in 1..Len(loading.keys) : loading.keys[i] \in KeyType
  BY FileFacts
<1>1. /\ pc = "upsert" /\ next \in 1..Len(loading.keys)
      /\ UNCHANGED <<file, config, event, booting, loading, revoking>>
  BY <1>0 DEF Upsert
<1>2. k \in KeyType
  BY <1>0, <1>1
<1>3. CASE Refused(k)
  <2>1. ApplyFails
    BY <1>3 DEF Upsert
  <2>2. QED
    BY <1>1, <2>1 DEF ApplyFails
<1>4. CASE ~Refused(k)
  <2>1. /\ rows' = [rows EXCEPT ![k.id] = Row(k.project, k.secret, "config")]
        /\ next' = next + 1
        /\ UNCHANGED <<pc, applied, unpruned>>
    BY <1>4 DEF Upsert
  <2>2. Row(k.project, k.secret, "config") \in RowType
    BY <1>2, RowFacts DEF KeyType
  <2>3. DOMAIN rows' = Ids /\ \A id \in Ids : rows'[id] \in RowType \cup {None}
    <3> HIDE DEF k
    <3> QED BY <2>1, <2>2
  <2>4. next' \in 1..(Len(loading'.keys) + 1)
    BY <1>0, <1>1, <2>1
  <2>5. QED
    BY <1>1, <2>1, <2>3, <2>4
<1>5. QED
  BY <1>3, <1>4

\* A file that loads is applied from its first key on, with nothing to prune yet.
LEMMA LoadInv == KeysInv /\ Load => KeysInv'
<1> SUFFICES ASSUME KeysInv, Load PROVE KeysInv'
  OBVIOUS
<1> USE DEF KeysInv, TypeOK
<1>1. /\ pc = "debounce" /\ unpruned = {}
      /\ UNCHANGED <<file, config, rows, event, booting, unpruned, revoking, applied>>
  BY DEF Load
<1>2. Len(file.keys) \in Nat /\ Len(loading.keys) \in Nat
  BY FileFacts
<1>3. CASE file.valid
  <2>1. loading' = file /\ next' = 1 /\ pc' = "upsert"
    BY <1>3 DEF Load
  <2>2. QED
    BY <1>1, <1>2, <2>1
<1>4. CASE ~file.valid
  BY <1>1, <1>4 DEF Load
<1>5. QED
  BY <1>3, <1>4

\* A restart applies the file as it is, whatever was under way.
LEMMA RestartInv == KeysInv /\ Restart => KeysInv'
<1> SUFFICES ASSUME KeysInv, Restart PROVE KeysInv'
  OBVIOUS
<1> USE DEF KeysInv, TypeOK
<1>1. Len(file.keys) \in Nat
  BY FileFacts
<1>2. revoking' \in [Admins -> Ids \cup {None}]
  BY DEF Restart
<1>3. next' \in 1..(Len(loading'.keys) + 1)
  BY <1>1 DEF Restart
<1>4. QED
  BY <1>2, <1>3 DEF Restart

\* An admin's calls write rows of the table's type.
LEMMA AdminInv ==
  ASSUME KeysInv,
         \/ \E id \in Ids : \E s \in Secrets : CreateKey(id, s)
         \/ \E a \in Admins : (\E id \in Ids : RevokeCheck(a, id)) \/ Revoke(a)
  PROVE  KeysInv'
<1> USE DEF KeysInv, TypeOK, ToPrune, ProjectsOf
<1>1. ASSUME NEW id \in Ids, NEW s \in Secrets, CreateKey(id, s) PROVE KeysInv'
  <2>1. Row(DefaultProject, s, "admin") \in RowType
    BY KeysAssumption, RowFacts
  <2>2. QED
    BY <1>1, <2>1 DEF CreateKey
<1>2. ASSUME NEW a \in Admins, NEW id \in Ids, RevokeCheck(a, id) PROVE KeysInv'
  BY <1>2 DEF RevokeCheck
<1>3. ASSUME NEW a \in Admins, Revoke(a) PROVE KeysInv'
  <2> DEFINE id == revoking[a]
  <2>1. id \in Ids
    BY <1>3 DEF Revoke
  <2>2. DOMAIN rows' = Ids /\ \A x \in Ids : rows'[x] \in RowType \cup {None}
    <3>1. CASE rows[id] = None
      BY <1>3, <3>1 DEF Revoke
    <3>2. CASE rows[id] # None
      <4>1. rows' = [rows EXCEPT ![id] = [rows[id] EXCEPT !.status = "revoked"]]
        BY <1>3, <3>2 DEF Revoke
      <4>2. [rows[id] EXCEPT !.status = "revoked"] \in RowType
        BY <2>1, <3>2, RevokedRow
      <4>3. QED
        BY <4>1, <4>2
    <3>3. QED
      BY <3>1, <3>2
  <2>3. revoking' \in [Admins -> Ids \cup {None}]
    BY <1>3 DEF Revoke
  <2>4. QED
    BY <1>3, <2>2, <2>3 DEF Revoke
<1>4. QED
  BY <1>1, <1>2, <1>3

\* Every step keeps the invariant.
LEMMA StepInv == KeysInv /\ [Next]_vars => KeysInv'
<1> SUFFICES ASSUME KeysInv, [Next]_vars PROVE KeysInv'
  OBVIOUS
<1> USE DEF KeysInv, TypeOK, ToPrune, ProjectsOf
<1>1. ASSUME NEW f \in Files, Edit(f) PROVE KeysInv'
  BY <1>1 DEF Edit
<1>2. CASE Wake
  BY <1>2 DEF Wake
<1>3. CASE Unresolved \/ StoreFails
  BY <1>3 DEF Unresolved, StoreFails, ApplyFails
<1>4. CASE StartPrune
  BY <1>4 DEF StartPrune
<1>5. ASSUME NEW p \in unpruned, Prune(p) PROVE KeysInv'
  BY <1>5 DEF Prune
<1>6. CASE Applied
  BY <1>6 DEF Applied
<1>7. CASE Publish
  BY <1>7 DEF Publish
<1>8. CASE UNCHANGED vars
  BY <1>8 DEF vars
<1>9. CASE \/ \E id \in Ids : \E s \in Secrets : CreateKey(id, s)
           \/ \E a \in Admins : (\E id \in Ids : RevokeCheck(a, id)) \/ Revoke(a)
  BY <1>9, AdminInv
<1>10. QED
  BY <1>1, <1>2, <1>3, <1>4, <1>5, <1>6, <1>7, <1>8, <1>9, LoadInv, UpsertInv,
     RestartInv DEF Next, Watcher

\* The table, the watcher and the admin calls keep their types.
THEOREM TypeCorrect == Spec => []TypeOK
<1>1. KeysInv => TypeOK
  BY DEF KeysInv
<1>2. QED
  BY <1>1, InitInv, StepInv, PTL DEF Spec

\* What AdminRowsKept says of one step.
RowsKeptStep ==
  \A id \in Ids :
    IsAdmin(id) =>
      /\ rows'[id] # None
      /\ rows'[id] \in {rows[id], [rows[id] EXCEPT !.status = "revoked"]}

\* No step takes an admin's row away or gives it other contents.
LEMMA RowsKept == KeysInv /\ [Next]_vars => RowsKeptStep
<1> SUFFICES ASSUME KeysInv, [Next]_vars, NEW id \in Ids, IsAdmin(id)
             PROVE  /\ rows'[id] # None
                    /\ rows'[id] \in {rows[id], [rows[id] EXCEPT !.status = "revoked"]}
  BY DEF RowsKeptStep
<1>0. rows[id] # None /\ rows[id].origin = "admin" /\ ~IsConfig(id) /\ DOMAIN rows = Ids
  BY DEF IsAdmin, IsConfig, KeysInv, TypeOK
<1>1. CASE UNCHANGED rows
  BY <1>0, <1>1
<1>2. CASE Upsert
  <2>1. loading.keys[next].id # id \/ Refused(loading.keys[next])
    BY DEF Refused
  <2>2. CASE Refused(loading.keys[next])
    BY <1>1, <1>2, <2>2 DEF Upsert, ApplyFails
  <2>3. CASE ~Refused(loading.keys[next])
    BY <1>0, <1>2, <2>1, <2>3 DEF Upsert
  <2>4. QED
    BY <2>2, <2>3
<1>3. ASSUME NEW p \in unpruned, Prune(p) PROVE rows'[id] = rows[id]
  BY <1>0, <1>3 DEF Prune
<1>4. ASSUME NEW x \in Ids, NEW s \in Secrets, CreateKey(x, s) PROVE rows'[id] = rows[id]
  BY <1>0, <1>4 DEF CreateKey
<1>5. ASSUME NEW a \in Admins, Revoke(a)
      PROVE  /\ rows'[id] # None
             /\ rows'[id] \in {rows[id], [rows[id] EXCEPT !.status = "revoked"]}
  <2>1. CASE rows[revoking[a]] = None
    BY <1>0, <1>5, <2>1 DEF Revoke
  <2>2. CASE rows[revoking[a]] # None /\ revoking[a] # id
    BY <1>0, <1>5, <2>2 DEF Revoke
  <2>3. CASE rows[revoking[a]] # None /\ revoking[a] = id
    <3>1. rows'[id] = [rows[id] EXCEPT !.status = "revoked"]
      BY <1>0, <1>5, <2>3 DEF Revoke
    <3>2. rows[id] \in RowType
      BY <1>0 DEF KeysInv, TypeOK
    <3>3. rows'[id] \in RowType
      BY <3>1, <3>2, RevokedRow
    <3>4. QED
      BY <3>1, <3>3, KeysAssumption
  <2>4. QED
    BY <2>1, <2>2, <2>3
<1>6. QED
  <2>1. CASE \/ Wake \/ Load \/ Unresolved \/ StoreFails \/ StartPrune \/ Applied
             \/ Publish \/ Restart \/ UNCHANGED vars
    <3>1. UNCHANGED rows
      BY <2>1 DEF Wake, Load, Unresolved, StoreFails, ApplyFails, StartPrune, Applied,
                  Publish, Restart, vars
    <3>2. QED
      BY <1>1, <3>1
  <2>2. ASSUME NEW f \in Files, Edit(f) PROVE UNCHANGED rows
    BY <2>2 DEF Edit
  <2>3. ASSUME NEW a \in Admins, NEW x \in Ids, RevokeCheck(a, x) PROVE UNCHANGED rows
    BY <2>3 DEF RevokeCheck
  <2>4. QED
    BY <1>0, <1>1, <1>2, <1>3, <1>4, <1>5, <2>1, <2>2, <2>3 DEF Next, Watcher

\* No reload, restart or failing apply touches an admin's key, for any files and
\* any interleaving with the admin calls.
THEOREM AdminKeysKept == Spec => AdminRowsKept
<1>1. KeysInv /\ [Next]_vars => [RowsKeptStep]_vars
  BY RowsKept
<1>2. Spec => [][RowsKeptStep]_vars
  BY <1>1, InitInv, StepInv, PTL DEF Spec
<1>3. QED
  BY <1>2 DEF AdminRowsKept, RowsKeptStep

----------------------------------------------------------------------------
(***************************************************************************)
(* The table against the configuration.  InSync is about the rest after an *)
(* apply; SyncInv says how far an apply has come at each of its steps.     *)
(***************************************************************************)
\* The row of key i of file f is as the file declares it.
Stored(f, i) ==
  LET k == f.keys[i]
  IN IsConfig(k.id) /\ rows[k.id].project = k.project /\ rows[k.id].secret = k.secret

\* Project p has no seeded row that file f does not declare.
Clean(f, p) ==
  \A id \in Ids : (IsConfig(id) /\ rows[id].project = p) => id \in DeclaredIn(f, p)

Synced(f) ==
  /\ \A i \in 1..Len(f.keys) : Stored(f, i)
  /\ \A p \in ToPrune(f) : Clean(f, p)

SyncInv ==
  /\ pc = "upsert" => \A i \in 1..(next - 1) : Stored(loading, i)
  /\ pc = "prune" =>
       /\ \A i \in 1..Len(loading.keys) : Stored(loading, i)
       /\ \A p \in ToPrune(loading) \ unpruned : Clean(loading, p)
  /\ (pc = "publish" /\ applied) => Synced(loading)
  /\ pc \in {"idle", "debounce"} => config # None /\ (applied => Synced(config))

\* Rows that a step leaves as they are, or whose status only it changes, or that
\* it creates for an admin.
SameSeeded ==
  /\ \A id \in Ids : IsConfig(id)' <=> IsConfig(id)
  /\ \A id \in Ids : IsConfig(id) =>
       rows'[id].project = rows[id].project /\ rows'[id].secret = rows[id].secret

\* Such a step keeps what is stored and what is clean.
LEMMA SeededKept ==
  ASSUME SameSeeded, NEW f \in Files
  PROVE  /\ \A i \in 1..Len(f.keys) : Stored(f, i) => Stored(f, i)'
         /\ \A p : Clean(f, p) => Clean(f, p)'
         /\ Synced(f) => Synced(f)'
<1>1. \A i \in 1..Len(f.keys) : f.keys[i].id \in Ids
  BY FileFacts DEF KeyType
<1>2. \A i \in 1..Len(f.keys) : Stored(f, i) => Stored(f, i)'
  BY <1>1 DEF SameSeeded, Stored
<1>3. \A p : Clean(f, p) => Clean(f, p)'
  BY DEF SameSeeded, Clean, DeclaredIn
<1>4. QED
  BY <1>2, <1>3 DEF Synced, ToPrune, ProjectsOf

\* The files of the apply under way and of the published configuration, when a
\* step leaves both in place.
LEMMA SyncSame ==
  ASSUME KeysInv, SyncInv, SameSeeded, UNCHANGED <<loading, config>>
  PROVE  /\ \A i \in 1..Len(loading.keys) : Stored(loading, i) => Stored(loading, i)'
         /\ \A p : Clean(loading, p) => Clean(loading, p)'
         /\ Synced(loading) => Synced(loading)'
         /\ (config # None /\ Synced(config)) => Synced(config)'
<1>1. PICK f \in Files : f = loading
  BY DEF KeysInv, TypeOK
<1>2. /\ \A i \in 1..Len(f.keys) : Stored(f, i) => Stored(f, i)'
      /\ \A p : Clean(f, p) => Clean(f, p)'
      /\ Synced(f) => Synced(f)'
  BY SeededKept
<1>3. /\ \A i : Stored(loading, i) <=> Stored(f, i)
      /\ \A i : Stored(loading, i)' <=> Stored(f, i)'
      /\ \A p : Clean(loading, p) <=> Clean(f, p)
      /\ \A p : Clean(loading, p)' <=> Clean(f, p)'
      /\ Synced(loading) <=> Synced(f)
      /\ Synced(loading)' <=> Synced(f)'
  BY <1>1 DEF Stored, Clean, Synced, DeclaredIn, ToPrune, ProjectsOf
<1>4. ASSUME config # None, Synced(config) PROVE Synced(config)'
  <2>1. PICK g \in Files : g = config
    BY <1>4 DEF KeysInv, TypeOK
  <2>2. Synced(g) => Synced(g)'
    BY SeededKept
  <2>3. (Synced(config) <=> Synced(g)) /\ (Synced(config)' <=> Synced(g)')
    BY <2>1 DEF Stored, Clean, Synced, DeclaredIn, ToPrune, ProjectsOf
  <2>4. QED
    BY <1>4, <2>2, <2>3
<1>5. QED
  BY <1>1, <1>2, <1>3, <1>4

\* Admin calls leave the seeded rows as they were, but for their status.
LEMMA AdminSeeded ==
  ASSUME KeysInv,
         \/ \E id \in Ids : \E s \in Secrets : CreateKey(id, s)
         \/ \E a \in Admins : (\E id \in Ids : RevokeCheck(a, id)) \/ Revoke(a)
  PROVE  SameSeeded /\ UNCHANGED <<config, pc, loading, next, unpruned, applied>>
<1> USE DEF KeysInv, TypeOK
<1>1. ASSUME NEW id \in Ids, NEW s \in Secrets, CreateKey(id, s)
      PROVE  SameSeeded /\ UNCHANGED <<config, pc, loading, next, unpruned, applied>>
  BY <1>1 DEF CreateKey, SameSeeded, IsConfig, Row
<1>2. ASSUME NEW a \in Admins, NEW id \in Ids, RevokeCheck(a, id)
      PROVE  SameSeeded /\ UNCHANGED <<config, pc, loading, next, unpruned, applied>>
  BY <1>2 DEF RevokeCheck, SameSeeded, IsConfig
<1>3. ASSUME NEW a \in Admins, Revoke(a)
      PROVE  SameSeeded /\ UNCHANGED <<config, pc, loading, next, unpruned, applied>>
  <2> DEFINE id == revoking[a]
  <2>1. UNCHANGED <<config, pc, loading, next, unpruned, applied>>
    BY <1>3 DEF Revoke
  <2>2. id \in Ids
    BY <1>3 DEF Revoke
  <2>3. CASE rows[id] = None
    BY <1>3, <2>1, <2>3 DEF Revoke, SameSeeded, IsConfig
  <2>4. CASE rows[id] # None
    <3>1. rows[id] \in RowType /\ rows' = [rows EXCEPT ![id] = [rows[id] EXCEPT !.status = "revoked"]]
      BY <1>3, <2>2, <2>4 DEF Revoke
    <3>2. PICK row \in RowType : row = [rows[id] EXCEPT !.status = "revoked"]
      BY <3>1, RevokedRow
    <3>3. /\ row # None /\ row.origin = rows[id].origin
          /\ row.project = rows[id].project /\ row.secret = rows[id].secret
      BY <3>1, <3>2, KeysAssumption DEF RowType
    <3>4. rows'[id] = row /\ \A x \in Ids : x # id => rows'[x] = rows[x]
      BY <2>2, <3>1, <3>2
    <3>5. QED
      BY <2>1, <2>2, <2>4, <3>3, <3>4 DEF SameSeeded, IsConfig
  <2>5. QED
    BY <2>3, <2>4
<1>4. QED
  BY <1>1, <1>2, <1>3

\* An upsert stores its key, and keeps the ones before it: ids are distinct.
LEMMA SyncUpsert == KeysInv /\ SyncInv /\ Upsert => SyncInv'
<1> SUFFICES ASSUME KeysInv, SyncInv, Upsert PROVE SyncInv'
  OBVIOUS
<1> DEFINE k == loading.keys[next]
<1>0. /\ Len(loading.keys) \in Nat
      /\ \A i \in 1..Len(loading.keys) : loading.keys[i] \in KeyType
      /\ \A i, j \in 1..Len(loading.keys) : loading.keys[i].id = loading.keys[j].id => i = j
      /\ DOMAIN rows = Ids
  BY FileFacts, KeysAssumption DEF KeysInv, TypeOK, FileType
<1>1. pc = "upsert" /\ next \in 1..Len(loading.keys) /\ UNCHANGED loading
  BY <1>0 DEF Upsert, KeysInv, TypeOK
<1>2. CASE Refused(k)
  BY <1>2 DEF Upsert, ApplyFails, SyncInv
<1>3. CASE ~Refused(k)
  <2>1. /\ rows' = [rows EXCEPT ![k.id] = Row(k.project, k.secret, "config")]
        /\ next' = next + 1 /\ UNCHANGED pc
    BY <1>3 DEF Upsert
  <2>2. k \in KeyType /\ k.id \in Ids
    BY <1>0, <1>1 DEF KeyType
  <2>3. Row(k.project, k.secret, "config") \in RowType
    BY <2>2, RowFacts DEF KeyType
  <2>4. ASSUME NEW i \in 1..(next' - 1) PROVE Stored(loading, i)'
    <3>1. i \in 1..Len(loading.keys)
      BY <1>0, <1>1, <2>1
    <3>2. loading.keys[i].id \in Ids
      BY <1>0, <3>1 DEF KeyType
    <3>3. CASE i = next
      <4>1. rows'[k.id] = Row(k.project, k.secret, "config")
        BY <1>0, <2>1, <2>2
      <4>2. QED
        BY <1>1, <2>3, <3>3, <4>1, KeysAssumption DEF Stored, IsConfig, Row
    <3>4. CASE i # next
      <4>1. i \in 1..(next - 1)
        BY <1>1, <2>1, <3>4
      <4>2. Stored(loading, i)
        BY <1>1, <4>1 DEF SyncInv
      <4>3. loading.keys[i].id # k.id
        BY <1>0, <1>1, <3>1, <3>4
      <4>4. rows'[loading.keys[i].id] = rows[loading.keys[i].id]
        BY <1>0, <2>1, <2>2, <3>2, <4>3
      <4>5. QED
        BY <1>1, <4>2, <4>4 DEF Stored, IsConfig
    <3>5. QED
      BY <3>3, <3>4
  <2>5. QED
    BY <1>1, <2>1, <2>4 DEF SyncInv
<1>4. QED
  BY <1>2, <1>3

\* Pruning a project takes away what the file does not declare there, and no
\* row that it does declare.
LEMMA SyncPrune ==
  ASSUME KeysInv, SyncInv, NEW p \in unpruned, Prune(p)
  PROVE  SyncInv'
<1>0. /\ pc = "prune" /\ UNCHANGED <<pc, loading>>
      /\ unpruned' = unpruned \ {p}
      /\ \A i \in 1..Len(loading.keys) : loading.keys[i] \in KeyType /\ Stored(loading, i)
      /\ \A q \in ToPrune(loading) \ unpruned : Clean(loading, q)
  BY FileFacts DEF Prune, SyncInv, KeysInv, TypeOK
<1>1. \A id \in Ids :
        rows'[id] = IF IsConfig(id) /\ rows[id].project = p /\ id \notin DeclaredIn(loading, p)
                    THEN None ELSE rows[id]
  BY DEF Prune
<1>2. ASSUME NEW i \in 1..Len(loading.keys) PROVE Stored(loading, i)'
  <2> DEFINE id == loading.keys[i].id
  <2>1. id \in Ids /\ Stored(loading, i)
    BY <1>0 DEF KeyType
  <2>2. rows[id].project = p => id \in DeclaredIn(loading, p)
    BY <2>1 DEF Stored, DeclaredIn
  <2>3. rows'[id] = rows[id]
    BY <1>1, <2>1, <2>2
  <2>4. QED
    BY <1>0, <2>1, <2>3 DEF Stored, IsConfig
<1>3. ASSUME NEW q \in ToPrune(loading) \ unpruned' PROVE Clean(loading, q)'
  <2>1. DeclaredIn(loading, q)' = DeclaredIn(loading, q)
    BY <1>0 DEF DeclaredIn
  <2>2. SUFFICES ASSUME NEW id \in Ids, IsConfig(id)', rows'[id].project = q
                 PROVE  id \in DeclaredIn(loading, q)
    BY <2>1 DEF Clean
  <2>3. rows'[id] = rows[id] /\ IsConfig(id)
    BY <1>1, <2>2 DEF IsConfig
  <2>4. CASE q = p
    BY <1>1, <2>2, <2>3, <2>4 DEF IsConfig
  <2>5. CASE q # p
    BY <1>0, <2>2, <2>3, <2>5 DEF Clean
  <2>6. QED
    BY <2>4, <2>5
<1>4. QED
  BY <1>0, <1>2, <1>3 DEF SyncInv, ToPrune, ProjectsOf

\* How far an apply has come, at every step.
LEMMA SyncKept == KeysInv /\ SyncInv /\ [Next]_vars => SyncInv'
<1> SUFFICES ASSUME KeysInv, SyncInv, [Next]_vars PROVE SyncInv'
  OBVIOUS
<1>0. /\ loading \in Files /\ Len(loading.keys) \in Nat
      /\ next \in 1..(Len(loading.keys) + 1)
  BY FileFacts DEF KeysInv, TypeOK
<1>1. ASSUME SameSeeded, UNCHANGED <<config, pc, loading, next, unpruned, applied>>
      PROVE  SyncInv'
  <2>1. /\ \A i \in 1..Len(loading.keys) : Stored(loading, i) => Stored(loading, i)'
        /\ \A p : Clean(loading, p) => Clean(loading, p)'
        /\ Synced(loading) => Synced(loading)'
        /\ (config # None /\ Synced(config)) => Synced(config)'
    BY <1>1, SyncSame
  <2>2. ToPrune(loading)' = ToPrune(loading)
    BY <1>1 DEF ToPrune, ProjectsOf
  <2>3. \A i \in 1..(next - 1) : i \in 1..Len(loading.keys)
    BY <1>0
  <2>4. QED
    BY <1>0, <1>1, <2>1, <2>2, <2>3 DEF SyncInv
<1>2. ASSUME UNCHANGED rows PROVE SameSeeded
  BY <1>2 DEF SameSeeded, IsConfig
<1>3. CASE \/ UNCHANGED vars \/ \E f \in Files : Edit(f)
  BY <1>1, <1>2, <1>3 DEF Edit, vars
<1>4. CASE \/ \E id \in Ids : \E s \in Secrets : CreateKey(id, s)
           \/ \E a \in Admins : (\E id \in Ids : RevokeCheck(a, id)) \/ Revoke(a)
  BY <1>1, <1>4, AdminSeeded
<1>5. CASE Wake \/ Load
  <2>1. /\ UNCHANGED <<rows, config, applied>> /\ pc \in {"idle", "debounce"}
        /\ pc' \in {"idle", "debounce"} \/ (pc' = "upsert" /\ next' = 1)
    BY <1>5 DEF Wake, Load
  <2>2. config # None /\ (applied => Synced(config))
    BY <2>1 DEF SyncInv
  <2>3. Synced(config)' <=> Synced(config)
    BY <2>1 DEF Synced, Stored, Clean, IsConfig, ToPrune, ProjectsOf, DeclaredIn
  <2>4. QED
    BY <2>1, <2>2, <2>3 DEF SyncInv
<1>6. CASE Unresolved \/ StoreFails
  BY <1>6 DEF Unresolved, StoreFails, ApplyFails, SyncInv
<1>7. CASE StartPrune
  <2>1. /\ pc = "upsert" /\ pc' = "prune" /\ next > Len(loading.keys)
        /\ unpruned' = ToPrune(loading) /\ UNCHANGED <<rows, loading>>
    BY <1>7 DEF StartPrune
  <2>2. \A i \in 1..Len(loading.keys) : Stored(loading, i)
    BY <1>0, <2>1 DEF SyncInv
  <2>3. \A i \in 1..Len(loading.keys) : Stored(loading, i)'
    BY <2>1, <2>2 DEF Stored, IsConfig
  <2>4. QED
    BY <2>1, <2>3 DEF SyncInv, ToPrune, ProjectsOf
<1>8. CASE Applied
  <2>1. pc = "prune" /\ unpruned = {} /\ pc' = "publish" /\ UNCHANGED <<rows, loading>>
    BY <1>8 DEF Applied
  <2>2. Synced(loading)
    BY <2>1 DEF SyncInv, Synced
  <2>3. Synced(loading)'
    BY <2>1, <2>2 DEF Synced, Stored, Clean, IsConfig, ToPrune, ProjectsOf, DeclaredIn
  <2>4. QED
    BY <2>1, <2>3 DEF SyncInv
<1>9. CASE Publish
  <2>1. /\ pc = "publish" /\ pc' = "idle" /\ config' = loading
        /\ UNCHANGED <<rows, loading, applied>>
    BY <1>9 DEF Publish
  <2>2. config' # None
    BY <1>0, <2>1, KeysAssumption
  <2>3. applied => Synced(loading)
    BY <2>1 DEF SyncInv
  <2>4. Synced(loading) => Synced(config)'
    BY <2>1 DEF Synced, Stored, Clean, IsConfig, ToPrune, ProjectsOf, DeclaredIn
  <2>5. QED
    BY <2>1, <2>2, <2>3, <2>4 DEF SyncInv
<1>10. CASE Restart
  BY <1>10 DEF Restart, SyncInv
<1>11. QED
  BY <1>3, <1>4, <1>5, <1>6, <1>7, <1>8, <1>9, <1>10, SyncUpsert, SyncPrune
     DEF Next, Watcher

\* While the watcher rests after a successful apply, the seeded keys in the table
\* are those of the published configuration (seed_keys.rs, reload.rs), for any
\* files, applies that fail at any step, restarts and admin calls in between.
THEOREM TableInSync == Spec => []InSync
<1>1. Init => SyncInv
  BY DEF Init, SyncInv
<1>2. SyncInv => InSync
  BY DEF SyncInv, InSync, Synced, Stored, Clean, ToPrune
<1>3. QED
  BY <1>1, <1>2, InitInv, StepInv, SyncKept, PTL DEF Spec
=============================================================================
