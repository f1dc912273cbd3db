--------------------------- MODULE TemplateLibrary ---------------------------
(***************************************************************************)
(* The shared template libraries of the admin (admin/template,             *)
(* admin/httpapi/templates.go): the action, the listen and the flow        *)
(* templates, one MySQL table each, with create, update, delete, the       *)
(* snapshot a client exports and the restore that replaces a whole library *)
(* if its content is still the one the client has checked.                 *)
(*                                                                         *)
(* The three stores differ in what they validate, in the uniqueness of     *)
(* names and in how Update finds its row; the library the run works on is  *)
(* chosen by `kind`.  Every operation runs under the lock of its store and *)
(* is one step; the validation it does before it takes the lock reads only *)
(* its own request.  The revision of a library is the digest of its rows,  *)
(* sorted by ID: it is modelled by the rows themselves.  Without a         *)
(* database every route answers LIBRARY_DISABLED; like a request that is   *)
(* refused, or whose statement fails and is rolled back, it changes        *)
(* nothing and is no step.                                                 *)
(*                                                                         *)
(* Time is counted in half milliseconds, and a DATETIME(3) column rounds   *)
(* what is written to it to a whole one.                                   *)
(***************************************************************************)
EXTENDS Integers, Sequences, FiniteSets, Functions, SequencesExt

CONSTANTS
    Clients,
    Names,       \* the names of requests, as the users type them
    Trimmed,     \* the same without the blanks around them; it fixes every stored name
    TooLong,     \* trimmed names of more than NameMax characters
    Bodies,      \* the contents users save, by kind
    MaxIDs,      \* bound: IDs given out
    MaxTime      \* bound: the clock

VARIABLES
    kind,      \* the library under test: "action", "listen" or "flow"
    rows,      \* the table: [name, body, created, updated] by ID
    ids,       \* IDs the generator has given out
    time,
    seen,      \* by client: the rows whose revision it holds
    touched,   \* history: clients after whose last look somebody wrote
    lost       \* history: rows a restore dropped though its author never saw them

vars == <<kind, rows, ids, time, seen, touched, lost>>

NoID == 0
NoTime == 0
NoRows == <<>>
Unseen == [i \in {-1} |-> NoRows]    \* no revision: the client has not looked yet

-----------------------------------------------------------------------------
(* What may be saved.                                                      *)

(* NormalizeName, validateFlowTemplateName: "" is the error.               *)
NormalizeName(name) == IF Trimmed[name] \in TooLong THEN "" ELSE Trimmed[name]

RequireService == {"tcpSend", "tcpRequest", "tcpConnect", "tcpClose", "tcpListen",
                   "udpSend", "udpRequest", "udpConnect", "udpClose", "udpListen"}
RequireRoute == {"tcpSend", "tcpRequest", "tcpListen", "udpSend", "udpRequest", "udpListen"}
Patterns == RequireService \cup {"httpRequest", "setState", "clearState", "lua"}

(* The fields of data that must not be blank, by pattern.                  *)
Required(pattern) ==
    {f \in {"service", "route", "address", "c2sProto", "s2cProto", "script", "keys", "url"} :
        \/ f = "service"  /\ pattern \in RequireService
        \/ f = "route"    /\ pattern \in RequireRoute
        \/ f = "address"  /\ pattern \in {"tcpConnect", "udpConnect"}
        \/ f = "c2sProto" /\ pattern \in {"tcpSend", "udpSend"}
        \/ f = "s2cProto" /\ pattern \in {"tcpRequest", "udpRequest"}
        \/ f = "script"   /\ pattern = "lua"
        \/ f = "keys"     /\ pattern = "clearState"
        \/ f = "url"      /\ pattern = "httpRequest"}

(* validateActionTemplateSave.  body.has are the fields that are not       *)
(* blank, body.own the pattern data carries itself.                        *)
ValidAction(body) ==
    /\ body.pattern \in Patterns
    /\ body.own = body.pattern
    /\ Required(body.pattern) \subseteq body.has
    /\ body.pattern = "httpRequest" => /\ body.method \in {"", "GET", "POST"}
                                       /\ body.contentType \in {"", "json", "form"}

(* The form of a listen template, from the keys its data has.              *)
DerivedKind(keys) ==
    CASE "script" \in keys -> "lua"
      [] "script" \notin keys /\ keys \cap {"s2cProto", "store"} # {} -> "declarative"
      [] OTHER -> "silent"

(* validateListenTemplateSave.  body.ref is what defaultRef has, {} when   *)
(* it is absent.                                                           *)
ValidListen(body) ==
    /\ body.kind = DerivedKind(body.keys)
    /\ body.kind = "lua" => ~body.blank
    /\ body.ref # {} => {"server", "route"} \subseteq body.ref /\ "queueSize<=0" \notin body.ref

(* countFlowNodesActions: ValidateFlow first, then the two counts, which   *)
(* the row keeps beside the flow.                                          *)
ValidFlow(body) == body.valid

ValidBody(body) == CASE kind = "action" -> ValidAction(body)
                     [] kind = "listen" -> ValidListen(body)
                     [] kind = "flow"   -> ValidFlow(body)

ValidSave(name, body) == NormalizeName(name) # "" /\ ValidBody(body)

-----------------------------------------------------------------------------
(* The table.                                                              *)

(* A DATETIME(3) column.                                                   *)
Stored(t) == ((t + 1) \div 2) * 2

(* uq_action_template_name and uq_listen_template_name; flow_template has  *)
(* no such index.                                                          *)
NameTaken(name, except) ==
    kind # "flow" /\ \E i \in DOMAIN rows \ {except} : rows[i].name = name

(* ComputeRevision: independent of the order of the items.                 *)
Revision(table) == table

Row(name, body, created, updated) ==
    [name |-> name, body |-> body, created |-> created, updated |-> updated]
StoredRow(row) == Row(row.name, row.body, Stored(row.created), Stored(row.updated))

(* A single-row write: whoever holds a revision no longer knows the rows.  *)
Write(table) ==
    /\ rows' = table
    /\ touched' = touched \cup Clients
    /\ UNCHANGED <<kind, time, seen, lost>>

Create(name, body) ==
    /\ ids < MaxIDs
    /\ ValidSave(name, body)
    /\ ~NameTaken(NormalizeName(name), NoID)
    /\ ids' = ids + 1
    /\ Write([i \in DOMAIN rows \cup {ids + 1} |->
                IF i \in DOMAIN rows THEN rows[i]
                ELSE StoredRow(Row(NormalizeName(name), body, time, time))])

(* The row an UPDATE leaves; one that changes nothing changes no row.      *)
Updated(id, name, body) ==
    Row(NormalizeName(name), body, rows[id].created, Stored(time))

Update(id, name, body) ==
    /\ kind # "flow"
    /\ ValidSave(name, body)
    /\ ~NameTaken(NormalizeName(name), id)
    /\ Write([rows EXCEPT ![id] = Updated(id, name, body)])
    /\ UNCHANGED ids

(* FlowTemplateStore.Update: a request without a flow only renames.        *)
UpdateFlow(id, name, body) ==
    /\ kind = "flow"
    /\ NormalizeName(name) # ""
    /\ body.empty \/ ValidFlow(body)
    /\ Write([rows EXCEPT ![id] = Updated(id, name, IF body.empty THEN rows[id].body ELSE body)])
    /\ UNCHANGED ids

Delete(id) ==
    /\ Write(Restrict(rows, DOMAIN rows \ {id}))
    /\ UNCHANGED ids

-----------------------------------------------------------------------------
(* Snapshots.                                                              *)

Snapshot(c) ==
    /\ seen' = [seen EXCEPT ![c] = Revision(rows)]
    /\ touched' = touched \ {c}
    /\ UNCHANGED <<kind, rows, ids, time, lost>>

(* ValidateIdentity: a full restore needs the ID and both times.           *)
ValidIdentity(item, policy) ==
    policy = "preserve" => item.id # NoID /\ item.created # NoTime /\ item.updated # NoTime

(* The checks of prepareActionSnapshotItems that do not depend on the      *)
(* library: valid contents, no ID and no name twice.                       *)
ValidItems(items, policy) ==
    /\ \A i \in DOMAIN items :
         ValidSave(items[i].name, items[i].body) /\ ValidIdentity(items[i], policy)
    /\ \A i, j \in DOMAIN items :
         i # j => /\ items[i].id # NoID => items[i].id # items[j].id
                  /\ NormalizeName(items[i].name) # NormalizeName(items[j].name)

(* validateFlowSnapshotItems: flows may share a name.                      *)
ValidFlowItems(items) ==
    /\ \A i \in DOMAIN items :
         ValidSave(items[i].name, items[i].body) /\ ValidIdentity(items[i], "preserve")
    /\ \A i, j \in DOMAIN items : i # j => items[i].id # items[j].id

\* Mutant: the expected revision is not compared.
MutantExpected(c) == TRUE

(* An item as it is written: restored as it is, or merged, which gives a   *)
(* new item an ID (the k-th given out by this request) and keeps the times *)
(* of an item nobody edited.                                               *)
NewIDs(items, i) == Cardinality({j \in 1..i : items[j].id = NoID})
PreparedID(items, i) == IF items[i].id = NoID THEN ids + NewIDs(items, i) ELSE items[i].id
Prepared(item, policy) ==
    LET name == NormalizeName(item.name)
        old  == rows[item.id]
    IN  CASE policy = "preserve" -> Row(name, item.body, item.created, item.updated)
          [] policy = "merge" /\ item.id = NoID -> Row(name, item.body, time, time)
          [] policy = "merge" /\ item.id # NoID ->
               Row(name, item.body, old.created,
                   IF old.name = name /\ old.body = item.body THEN old.updated ELSE time)

PreparedItems(items, policy) ==
    [id \in {PreparedID(items, i) : i \in DOMAIN items} |->
        Prepared(items[CHOOSE i \in DOMAIN items : PreparedID(items, i) = id], policy)]

(* What the library holds after the transaction, and the revision the      *)
(* answer carries: that of the rows read back, not of the prepared ones.   *)
Persisted(prepared) == [i \in DOMAIN prepared |-> StoredRow(prepared[i])]
AnsweredRevision(prepared) == Revision(Persisted(prepared))

(* The revision check of ReplaceSnapshot.                                  *)
Expected(c) == seen[c] = Revision(rows)

(* The items a client sends back: the rows it has exported, edited, under  *)
(* an ID of another server or without a time, and new ones.                *)
Foreign == MaxIDs + 1
Item(id, row) ==
    [id |-> id, name |-> row.name, body |-> row.body, created |-> row.created, updated |-> row.updated]
Items(c) ==
    LET known == IF seen[c] = Unseen THEN NoRows ELSE seen[c]
        old   == {Item(i, known[i]) : i \in DOMAIN known}
        fresh == {Item(NoID, Row(n, b, NoTime, NoTime)) : n \in Names, b \in Bodies[kind]}
    IN  old \cup fresh \cup {[x EXCEPT !.body = b] : x \in old, b \in Bodies[kind]}
            \cup {[x EXCEPT !.id = Foreign] : x \in old} \cup {[x EXCEPT !.updated = NoTime] : x \in old}

Created(items) == Cardinality({i \in DOMAIN items : items[i].id = NoID})

(* The transaction of a restore: the whole table is replaced.              *)
Restore(c, items, policy) ==
    /\ rows' = Persisted(PreparedItems(items, policy))
    /\ seen' = [seen EXCEPT ![c] = AnsweredRevision(PreparedItems(items, policy))]
    /\ ids' = ids + Created(items)
    /\ lost' = lost \cup {i \in DOMAIN rows :
                           c \in touched /\ (i \in DOMAIN seen[c] => seen[c][i] # rows[i])}
    /\ touched' = IF rows' = rows THEN touched \ {c} ELSE (touched \cup Clients) \ {c}
    /\ UNCHANGED <<kind, time>>

ReplaceSnapshot(c, policy) ==
    /\ kind # "flow" /\ Expected(c)
    /\ \E n \in 0..2 : \E items \in [1..n -> Items(c)] :
         /\ ids + Created(items) =< MaxIDs
         /\ ValidItems(items, policy)
         /\ policy = "merge" => \A i \in DOMAIN items : items[i].id \in DOMAIN rows \cup {NoID}
         /\ Restore(c, items, policy)

(* Flows know only the full restore.                                       *)
ReplaceFlowSnapshot(c) ==
    /\ kind = "flow" /\ Expected(c)
    /\ \E n \in 0..2 : \E items \in [1..n -> Items(c)] :
         ValidFlowItems(items) /\ Restore(c, items, "preserve")

Tick ==
    /\ time < MaxTime
    /\ time' = time + 1
    /\ UNCHANGED <<kind, rows, ids, seen, touched, lost>>

-----------------------------------------------------------------------------
Init ==
    /\ kind \in {"action", "listen", "flow"}
    /\ rows = NoRows /\ ids = 0 /\ time = 1
    /\ seen = [c \in Clients |-> Unseen]
    /\ touched = {} /\ lost = {}

Next ==
    \/ Tick
    \/ \E name \in Names, body \in Bodies[kind] : Create(name, body)
    \/ \E id \in DOMAIN rows, name \in Names, body \in Bodies[kind] :
         Update(id, name, body) \/ UpdateFlow(id, name, body)
    \/ \E id \in DOMAIN rows : Delete(id)
    \/ \E c \in Clients : Snapshot(c) \/ ReplaceFlowSnapshot(c)
    \/ \E c \in Clients : \E policy \in {"preserve", "merge"} : ReplaceSnapshot(c, policy)

Spec == Init /\ [][Next]_vars

-----------------------------------------------------------------------------
(* A restore never discards a template its author has not looked at: what  *)
(* other users saved after the export makes the restore fail instead       *)
(* (ReplaceSnapshot, ExpectedRevision).                                    *)
NothingLostUnseen == lost = {}

(* The revision a client got from an export or from its own restore stays  *)
(* good until somebody writes: two restores in a row by one user never     *)
(* conflict with each other, though the columns round the times that the   *)
(* first one wrote (the revision is that of the rows read back).           *)
FreshUntilTouched ==
    \A c \in Clients : seen[c] # Unseen /\ c \notin touched => seen[c] = Revision(rows)

(* Whatever mixture of saves and restores built it, a library holds only   *)
(* templates that could be saved as they are, under names that are trimmed *)
(* and, for actions and listens, distinct.                                 *)
LibraryIsSound ==
    \A i \in DOMAIN rows :
        /\ rows[i].name # "" /\ rows[i].name \notin TooLong /\ ValidBody(rows[i].body)
        /\ rows[i].name \in {Trimmed[n] : n \in Names}
        /\ rows[i].created # NoTime /\ rows[i].updated # NoTime
        /\ ~NameTaken(rows[i].name, i)

(* Users who save, export and restore at the same time lose nothing they   *)
(* have not seen, meet no conflict without a cause, and leave a library    *)
(* every flow can be built from.                                           *)
RestoresAreSafe == NothingLostUnseen /\ FreshUntilTouched /\ LibraryIsSound
=============================================================================
