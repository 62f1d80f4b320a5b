------------------------------ MODULE EditForm ------------------------------
(* What the form on the page of a service holds (src/components/ServiceForm.jsx*)
(* and pages/services/[id].js of apps/api-gateway-ui), what Save sends of it,  *)
(* and what the gateway stores (UpdateService and RefreshService of            *)
(* internal/admin/handlers.go), while other admins change the same services.   *)
(* AdminUI has the requests of all pages, without contents; here the contents  *)
(* are three fields and the stored document, and the requests those that the   *)
(* form has to do with. The name, the description, the prefix and enabled are  *)
(* sent always, as the protocol is, and swagger_url goes with base_url. No     *)
(* service is deleted, and other admins use a form like this one.              *)
EXTENDS Naturals, FiniteSets

CONSTANTS
  Ids,       \* of services
  Bases,     \* base URLs
  Targets,   \* gRPC targets
  Document,  \* what fetchSwagger gets
  Empty,     \* the column left empty, or NULL
  Inferred,  \* the base URL that the services' documents name
  None,      \* no page of a service, no row read yet, no form
  MaxSaves,  \* bound: saves under way at once
  MaxTyped,  \* bound: fields of a form that are typed into
  MaxWrites  \* bound: rows written

ASSUME EditFormAssumption ==
  /\ Inferred \in Bases
  /\ Empty \notin Bases \cup Targets \cup {"http", "grpc-json", Document}
  /\ None \notin Ids
  /\ MaxSaves \in Nat /\ MaxTyped \in Nat /\ MaxWrites \in Nat

VARIABLES
  table,  \* gateway_services: the row of each service
  past,   \* the rows each service has had: a reader that selected one of them may
          \* have put it into the cache after the DEL, or puts it there yet
  writes, \* rows written so far
  page,   \* the id the address bar names
  reads,  \* the GETs of the page's effect whose answer will be looked at
  form,   \* the state of the form
  saves   \* the PUTs under way

vars == <<table, past, writes, page, reads, form, saves>>

(* What a form holds of a service, and what the table holds.                   *)
Fields == {"protocol", "base_url", "grpc_target"}
Columns == Fields \cup {"swagger_json"}

Choices(c) ==
  CASE c = "protocol"     -> {"http", "grpc-json"}
    [] c = "base_url"     -> Bases \cup {Empty}
    [] c = "grpc_target"  -> Targets \cup {Empty}
    [] c = "swagger_json" -> {Document, Empty}

Filled(columns) ==
  {row \in [columns -> UNION {Choices(c) : c \in columns}] :
     \A c \in columns : row[c] \in Choices(c)}

Rows == Filled(Columns)
Values == Filled(Fields)

(* isValid, as far as these fields go.                                         *)
Valid(value) == value["protocol"] = "grpc-json" => value["grpc_target"] # Empty

(* The fields of the payload.                                                  *)
Payload(value) ==
  {"protocol"} \cup
  (IF value["protocol"] = "http" THEN {"base_url"} ELSE {"grpc_target"})

(* The row that the UPDATE of UpdateService leaves: the body is decoded into an*)
(* empty Service, and every column is written.                                 *)
Stored(value) ==
  [c \in Columns |-> IF c \in Payload(value) THEN value[c] ELSE Empty]

Slots == 1..MaxSaves

(* A form: its values, and, which the code does not keep, the service and the  *)
(* values it was mounted with or has stored since, and the fields typed into.  *)
NoForm == [value |-> None, of |-> None, base |-> None, typed |-> {}]

NoSave == [id |-> None, sent |-> NoForm, here |-> FALSE]

(* A row with the document that was fetched, and a base URL inferred from it.  *)
Fetched(row) ==
  [row EXCEPT !["base_url"] = IF @ = Empty THEN Inferred ELSE @,
              !["swagger_json"] = Document]

(* What CreateService makes of the same form.                                  *)
Created ==
  {IF value["protocol"] = "http" THEN Fetched(Stored(value)) ELSE Stored(value) :
     value \in {v \in Values : Valid(v)}}

Init ==
  /\ table \in [Ids -> Created]
  /\ past = [i \in Ids |-> {table[i]}] /\ writes = 0
  /\ page = None /\ reads = {}
  /\ form = NoForm
  /\ saves = [s \in Slots |-> NoSave]

-----------------------------------------------------------------------------
(* The page.                                                                   *)

Get(i) == [id |-> i, row |-> None]

(* Mutation of Visit: the effect has no cleanup.                               *)
VisitUnguarded(i) ==
  /\ i # page
  /\ page' = i
  /\ reads' = reads \cup {Get(i)}
  /\ UNCHANGED <<table, past, writes, form, saves>>

(* A link, or the browser's history, which goes from one service to another in *)
(* the same component: the form stays, and mounted = false silences the GET.   *)
Visit(i) ==
  /\ i # page
  /\ page' = i
  /\ reads' = {Get(i)}
  /\ UNCHANGED <<table, past, writes, form, saves>>

(* Another page: what its requests answer is not looked at any more.           *)
Leave ==
  /\ page # None
  /\ page' = None /\ reads' = {} /\ form' = NoForm
  /\ saves' = [s \in Slots |-> [saves[s] EXCEPT !.here = FALSE]]
  /\ UNCHANGED <<table, past, writes>>

(* GetService: from the table, or an older row from the cache.                 *)
ServeGet(get) ==
  /\ get \in reads /\ get.row = None
  /\ \E row \in past[get.id] :
       reads' = (reads \ {get}) \cup {[get EXCEPT !.row = row]}
  /\ UNCHANGED <<table, past, writes, page, form, saves>>

GetFails(get) ==
  /\ get \in reads
  /\ reads' = reads \ {get}
  /\ UNCHANGED <<table, past, writes, page, form, saves>>

(* Mutation of Initial: the page does not hand the protocol on.                *)
InitialHttp(row) == [f \in Fields |-> IF f = "protocol" THEN "http" ELSE row[f]]

(* useState(initial).                                                          *)
Initial(row) == [f \in Fields |-> row[f]]

Mounted(get) ==
  [value |-> Initial(get.row), of |-> get.id, base |-> [f \in Fields |-> get.row[f]],
   typed |-> {}]

(* Mutation of Show: an effect sets the form to every answer.                  *)
ShowAndReset(get) ==
  /\ get \in reads /\ get.row # None
  /\ reads' = reads \ {get}
  /\ form' = Mounted(get)
  /\ UNCHANGED <<table, past, writes, page, saves>>

(* setSvc, and the first time the form is mounted. It keeps its state after.   *)
Show(get) ==
  /\ get \in reads /\ get.row # None
  /\ reads' = reads \ {get}
  /\ form' = IF form = NoForm THEN Mounted(get) ELSE form
  /\ UNCHANGED <<table, past, writes, page, saves>>

Type(f, v) ==
  /\ form # NoForm
  /\ v \in Choices(f) \ {form.value[f]}
  /\ Cardinality(form.typed \cup {f}) <= MaxTyped
  /\ form' = [form EXCEPT !.value[f] = v, !.typed = @ \cup {f}]
  /\ UNCHANGED <<table, past, writes, page, reads, saves>>

(* handleSubmit and onUpdate, while no save of this component is under way.    *)
Save(s) ==
  /\ form # NoForm /\ Valid(form.value)
  /\ saves[s] = NoSave
  /\ \A t \in Slots : saves[t] # NoSave => ~saves[t].here
  /\ saves' = [saves EXCEPT ![s] = [id |-> page, sent |-> form, here |-> TRUE]]
  /\ UNCHANGED <<table, past, writes, page, reads, form>>

-----------------------------------------------------------------------------
(* The gateway.                                                                *)

(* The UPDATE of a service.                                                    *)
Write(i, row) ==
  /\ writes < MaxWrites /\ writes' = writes + 1
  /\ table' = [table EXCEPT ![i] = row]
  /\ past' = [past EXCEPT ![i] = @ \cup {row}]

(* What the service of a form is known to hold after a save of it: the fields  *)
(* that were left out stay in the form as they were.                           *)
Since(base, value) == [f \in Fields |-> IF f \in Payload(value) THEN value[f] ELSE base[f]]

(* UpdateService. The GET after it, for which the button stays locked (AdminUI)*)
(* sets svc, which the form does not look at.                                  *)
Store(s) ==
  LET save == saves[s]
  IN  /\ save # NoSave
      /\ Write(save.id, Stored(save.sent.value))
      /\ form' = IF save.here /\ save.id = form.of
                   THEN [form EXCEPT !.base = Since(@, save.sent.value)]
                   ELSE form
      /\ saves' = [saves EXCEPT ![s] = NoSave]
      /\ UNCHANGED <<page, reads>>

SaveFails(s) ==
  /\ saves[s] # NoSave
  /\ saves' = [saves EXCEPT ![s] = NoSave]
  /\ UNCHANGED <<table, past, writes, page, reads, form>>

(* RefreshService, of this tab or another: the row that was read is written    *)
(* back with the document, and an empty base URL is inferred.                  *)
Refresh(i) ==
  /\ \E row \in past[i] :
       /\ row["protocol"] # "grpc-json"
       /\ Write(i, Fetched(row))
  /\ UNCHANGED <<page, reads, form, saves>>

(* UpdateService, with the form of another admin.                              *)
Other(i) ==
  /\ \E value \in Values : Valid(value) /\ Write(i, Stored(value))
  /\ UNCHANGED <<page, reads, form, saves>>

Next ==
  \/ Leave
  \/ \E i \in Ids : Visit(i) \/ Refresh(i) \/ Other(i)
  \/ \E get \in reads : ServeGet(get) \/ GetFails(get) \/ Show(get)
  \/ \E f \in Fields : \E v \in Choices(f) : Type(f, v)
  \/ \E s \in Slots : Save(s) \/ Store(s) \/ SaveFails(s)

Spec == Init /\ [][Next]_vars

-----------------------------------------------------------------------------

(* A save from the form of the service that it is sent to changes a column     *)
(* nobody typed into in two ways only: the payload leaves it out, and the      *)
(* UPDATE empties it, as it does the document on every save; or the column was *)
(* not any more what the form was mounted with or has stored since             *)
(* (ServiceForm, UpdateService). Each column is judged by itself: a row that   *)
(* others have changed elsewhere, or whose document was refreshed, excuses none*)
(* of the others.                                                              *)
OverwritesStaleOrLeftOut ==
  [][\A s \in Slots :
       LET save == saves[s]
           changed == {c \in Columns \ save.sent.typed : table'[save.id][c] # table[save.id][c]}
       IN  Store(s) /\ save.sent.of = save.id =>
             \A c \in changed :
               IF c \in Payload(save.sent.value)
                 THEN table[save.id][c] # save.sent.base[c]
                 ELSE table'[save.id][c] = Empty]_vars

(* The form is mounted with the service whose page is open, never with a late  *)
(* answer for the one before (the effect of ServiceDetail).                    *)
MountedWithOwn ==
  [][form = NoForm /\ form' # NoForm => form'.of = page /\ page' = page]_vars

(* No answer takes away what was typed: while the component is there a field   *)
(* that was typed into changes by typing only (ServiceForm).                   *)
TypedStays ==
  [][\A f \in form.typed :
       form' # NoForm /\ form'.value[f] # form.value[f] => Type(f, form'.value[f])]_vars

=============================================================================
