--------------------------- MODULE SQLRepository ---------------------------
(* The table gateway_services and the statements SQLRepository runs on it      *)
(* (internal/registry/sqlrepo.go). A table is a set of rows and every          *)
(* statement is an operator from a table to a table or to the rows it reads:   *)
(* PostgreSQL executes each of them atomically, in autocommit mode, and no     *)
(* method of the repository runs two statements in one transaction.            *)
(*                                                                             *)
(* A row keeps the columns apart that different statements treat apart:        *)
(*   id, prefix (public_prefix), enabled     as in the table                   *)
(*   conf      name, description, base_url, swagger_url, protocol and          *)
(*             grpc_target, which every statement reads and writes together    *)
(*   doc       swagger_json, read by Get only                                  *)
(*   status    last_status and last_health_at, written by no statement         *)
CONSTANTS
  Ids,              \* the uuids a run can hand out
  Prefixes,         \* the public prefixes clients send and rows hold
  NormalizePrefix,  \* what normalizePrefix makes of each prefix
  Confs,            \* the configurations of a backend
  HttpConfs,        \* those whose protocol is not grpc-json
  BasedConfs,       \* those with a base_url, the ones the checker probes
  InferBase,        \* base_url filled in from the document, where it is empty
  NoDoc             \* swagger_json is NULL or {}

ASSUME PrefixesAssumption ==
  /\ NormalizePrefix \in [Prefixes -> Prefixes]
  /\ \A x \in Prefixes : NormalizePrefix[NormalizePrefix[x]] = NormalizePrefix[x]

ASSUME ConfsAssumption ==
  /\ HttpConfs \subseteq Confs
  /\ BasedConfs \subseteq Confs
  /\ InferBase \in [Confs -> Confs]
  /\ \A c \in BasedConfs : InferBase[c] = c
  /\ NoDoc \notin Confs

(* "none" stands for NULL.                                                     *)
Statuses == {"none", "Healthy", "Unhealthy"}

(* A document is named by the configuration it was fetched for.                *)
Docs == Confs \cup {NoDoc}

Service == [id : Ids, prefix : Prefixes, conf : Confs, enabled : BOOLEAN,
            doc : Docs, status : Statuses]

(* What the keys of the table allow it to hold.                                *)
IsTable(table) ==
  /\ table \subseteq Service
  /\ \A s, t \in table : s.id = t.id \/ s.prefix = t.prefix => s = t

RowsOf(table, id) == {s \in table : s.id = id}

IdsIn(table) == {s.id : s \in table}

(* INSERT: the primary key and UNIQUE (public_prefix) refuse it or it is done. *)
(* last_status is not among the columns it names.                              *)
(* Mutation of CanInsert: the table without its UNIQUE (public_prefix).        *)
CanInsertById(table, s) == s.id \notin IdsIn(table)

CanInsert(table, s) == \A t \in table : t.id # s.id /\ t.prefix # s.prefix

Insert(table, s) == table \cup {[s EXCEPT !.status = "none"]}

(* UPDATE ... WHERE id = $1 names every column except the health ones; a row   *)
(* that is not there is no error and nothing is inserted.                      *)
Written(t, s) == [s EXCEPT !.status = t.status]

CanUpdate(table, s) ==
  s.id \in IdsIn(table) => \A t \in table : t.id # s.id => t.prefix # s.prefix

(* Mutation of Update: INSERT ... ON CONFLICT (id) DO UPDATE.                   *)
Upsert(table, s) == {t \in table : t.id # s.id} \cup {[s EXCEPT !.status = "none"]}

Update(table, s) ==
  {t \in table : t.id # s.id} \cup {Written(t, s) : t \in RowsOf(table, s.id)}

Delete(table, id) == {t \in table : t.id # id}

(* The columns the three queries return.                                       *)
EnabledView(table) ==
  {[s EXCEPT !.doc = NoDoc, !.status = "none"] : s \in {t \in table : t.enabled}}

ListView(table) == {[s EXCEPT !.doc = NoDoc] : s \in table}

GetView(table, id) == RowsOf(table, id)

=============================================================================
