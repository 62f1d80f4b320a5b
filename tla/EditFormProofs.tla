--------------------------- MODULE EditFormProofs ---------------------------
(* EditForm for any number of services, URLs, targets and saves under way.      *)
EXTENDS EditForm, TLAPS

(* The forms that are mounted at some time, and the saves under way.           *)
Forms == [value : Values, of : Ids, base : Values, typed : SUBSET Fields]

SavesUnderWay == [id : Ids, sent : Forms, here : BOOLEAN]

FormTypes ==
  /\ table \in [Ids -> Rows]
  /\ past \in [Ids -> SUBSET Rows]
  /\ page \in Ids \cup {None}
  /\ reads \subseteq [id : Ids, row : Rows \cup {None}]
  /\ form \in Forms \cup {NoForm}
  /\ saves \in [Slots -> SavesUnderWay \cup {NoSave}]

(* A field that was not typed into is as it was in the row the form was mounted*)
(* with or has stored since.                                                   *)
Untouched(shown) == \A f \in Fields \ shown.typed : shown.value[f] = shown.base[f]

(* What a save of the open component sent is behind the form only in fields    *)
(* that were typed into.                                                       *)
Behind(sent) ==
  /\ form # NoForm
  /\ sent.of = form.of
  /\ \A f \in Fields \ form.typed : sent.value[f] = form.value[f]

SavesBehind ==
  \A s \in Slots : saves[s] # NoSave =>
    Untouched(saves[s].sent) /\ (saves[s].here => Behind(saves[s].sent))

(* Answers are looked at for the service whose page is open only, and a form   *)
(* is there on such a page only.                                               *)
FormInv ==
  /\ FormTypes
  /\ \A get \in reads : get.id = page
  /\ form # NoForm => page # None /\ Untouched(form)
  /\ SavesBehind

(* What a row, or what a form holds, consists of.                              *)
LEMMA FilledIn ==
  ASSUME NEW columns, NEW row, row = [c \in columns |-> row[c]],
         \A c \in columns : row[c] \in Choices(c)
  PROVE  row \in Filled(columns)
BY DEF Filled

LEMMA FilledHas ==
  ASSUME NEW columns, NEW row \in Filled(columns)
  PROVE  /\ row = [c \in columns |-> row[c]]
         /\ DOMAIN row = columns
         /\ \A c \in columns : row[c] \in Choices(c)
BY DEF Filled

(* A row written by the form of someone has values of the columns.             *)
LEMMA StoredRow ==
  ASSUME NEW value \in Values
  PROVE  /\ Stored(value) \in Rows
         /\ \A c \in Payload(value) : Stored(value)[c] = value[c]
         /\ \A c \in Columns \ Payload(value) : Stored(value)[c] = Empty
<1>1. Payload(value) \subseteq Fields /\ "protocol" \in Payload(value) /\ Fields \subseteq Columns
  BY DEF Payload, Fields, Columns
<1>2. \A c \in Columns \ {"protocol"} : Empty \in Choices(c)
  BY DEF Columns, Fields, Choices
<1>3. \A c \in Fields : value[c] \in Choices(c)
  BY FilledHas DEF Values
<1>4. \A c \in Columns : Stored(value)[c] \in Choices(c)
  BY <1>1, <1>2, <1>3 DEF Stored
<1>5. Stored(value) = [c \in Columns |-> Stored(value)[c]]
  BY DEF Stored
<1>6. Stored(value) \in Rows
  BY <1>4, <1>5, FilledIn DEF Rows
<1> QED BY <1>1, <1>6 DEF Stored

(* So has a row that was fetched.                                              *)
LEMMA FetchedRow ==
  ASSUME NEW row \in Rows
  PROVE  Fetched(row) \in Rows
<1>1. /\ row = [c \in Columns |-> row[c]] /\ DOMAIN row = Columns
      /\ \A c \in Columns : row[c] \in Choices(c)
  BY FilledHas DEF Rows
<1>2. Inferred \in Choices("base_url") /\ Document \in Choices("swagger_json")
  BY EditFormAssumption DEF Choices
<1>3. /\ Fetched(row) = [c \in Columns |-> Fetched(row)[c]]
      /\ \A c \in Columns : Fetched(row)[c] \in Choices(c)
  BY <1>1, <1>2 DEF Fetched
<1> QED BY <1>3, FilledIn DEF Rows

(* The fields of a row, which a form is mounted with, and what they are known  *)
(* to be after a save.                                                         *)
LEMMA InitialValues ==
  ASSUME NEW row \in Rows
  PROVE  /\ [f \in Fields |-> row[f]] \in Values
         /\ Initial(row) = [f \in Fields |-> row[f]]
<1>1. \A c \in Fields : row[c] \in Choices(c)
  BY FilledHas DEF Rows, Columns
<1> DEFINE shown == [f \in Fields |-> row[f]]
<1>2. shown = [f \in Fields |-> shown[f]] /\ \A f \in Fields : shown[f] \in Choices(f)
  BY <1>1
<1>3. shown \in Values
  <2> HIDE DEF shown
  <2> QED BY <1>2, FilledIn DEF Values
<1> QED BY <1>3 DEF Initial

LEMMA SinceValues ==
  ASSUME NEW base \in Values, NEW value \in Values
  PROVE  /\ Since(base, value) \in Values
         /\ \A f \in Fields : Since(base, value)[f] \in {value[f], base[f]}
<1>1. \A f \in Fields : base[f] \in Choices(f) /\ value[f] \in Choices(f)
  BY FilledHas DEF Values
<1>2. /\ Since(base, value) = [f \in Fields |-> Since(base, value)[f]]
      /\ \A f \in Fields : /\ Since(base, value)[f] \in {value[f], base[f]}
                           /\ Since(base, value)[f] \in Choices(f)
  BY <1>1 DEF Since
<1> QED BY <1>2, FilledIn DEF Values

LEMMA TypedValues ==
  ASSUME NEW value \in Values, NEW f \in Fields, NEW v \in Choices(f)
  PROVE  /\ [value EXCEPT ![f] = v] \in Values
         /\ [value EXCEPT ![f] = v][f] = v
         /\ \A g \in Fields \ {f} : [value EXCEPT ![f] = v][g] = value[g]
<1>1. value = [c \in Fields |-> value[c]] /\ \A c \in Fields : value[c] \in Choices(c)
  BY FilledHas DEF Values
<1> DEFINE typed == [value EXCEPT ![f] = v]
<1>2. /\ typed = [c \in Fields |-> typed[c]]
      /\ \A c \in Fields : typed[c] \in Choices(c)
      /\ typed[f] = v /\ \A g \in Fields \ {f} : typed[g] = value[g]
  BY <1>1
<1>3. typed \in Values
  <2> HIDE DEF typed
  <2> QED BY <1>2, FilledIn DEF Values
<1> QED BY <1>2, <1>3

(* An UPDATE with a row of the service.                                        *)
LEMMA WriteStep ==
  ASSUME FormTypes, NEW i \in Ids, NEW row \in Rows, Write(i, row)
  PROVE  /\ table' \in [Ids -> Rows] /\ past' \in [Ids -> SUBSET Rows]
         /\ table'[i] = row
BY DEF FormTypes, Write

(* None stands apart from every form and save.                                 *)
LEMMA FormsApart == NoForm \notin Forms /\ NoSave \notin SavesUnderWay
BY EditFormAssumption DEF Forms, SavesUnderWay, NoForm, NoSave

(* The invariant holds at the start.                                           *)
LEMMA InitForm == Init => FormInv
<1> SUFFICES ASSUME Init PROVE FormInv
  OBVIOUS
<1>1. \A s \in Slots : saves[s] = NoSave
  BY DEF Init
<1>2. Created \subseteq Rows
  BY StoredRow, FetchedRow DEF Created
<1>3. FormTypes
  BY <1>2 DEF Init, FormTypes
<1> QED BY <1>1, <1>3 DEF Init, FormInv, SavesBehind

(* Typing changes one field, and marks it.                                     *)
LEMMA TypeStep ==
  ASSUME FormInv, NEW f \in Fields, NEW v, Type(f, v)
  PROVE  /\ form \in Forms /\ form' \in Forms
         /\ form'.of = form.of /\ form'.base = form.base
         /\ form'.typed = form.typed \cup {f}
         /\ form'.value[f] = v
         /\ \A g \in Fields \ {f} : form'.value[g] = form.value[g]
<1>1. form \in Forms /\ form.value \in Values /\ v \in Choices(f)
  BY DEF FormInv, FormTypes, Forms, Type
<1>2. /\ [form.value EXCEPT ![f] = v] \in Values
      /\ [form.value EXCEPT ![f] = v][f] = v
      /\ \A g \in Fields \ {f} : [form.value EXCEPT ![f] = v][g] = form.value[g]
  BY <1>1, TypedValues
<1>3. form' = [form EXCEPT !.value = [form.value EXCEPT ![f] = v],
                           !.typed = form.typed \cup {f}]
  BY <1>1 DEF Type, Forms
<1> QED BY <1>1, <1>2, <1>3 DEF Forms

(* A step that leaves the form and the saves alone.                            *)
LEMMA ElsewhereStep ==
  ASSUME FormInv, UNCHANGED <<form, saves>>, FormTypes',
         \A get \in reads' : get.id = page',
         form # NoForm => page' # None
  PROVE  FormInv'
BY DEF FormInv, SavesBehind, Untouched, Behind

(* A save that ends takes nothing with it.                                     *)
LEMMA SaveEnds ==
  ASSUME FormInv, NEW s \in Slots, saves' = [saves EXCEPT ![s] = NoSave]
  PROVE  /\ saves' \in [Slots -> SavesUnderWay \cup {NoSave}]
         /\ \A t \in Slots : saves'[t] # NoSave => saves'[t] = saves[t] /\ t # s
BY DEF FormInv, FormTypes

(* A PUT that is done.                                                         *)
LEMMA StoreStep ==
  ASSUME FormInv, NEW s \in Slots, Store(s)
  PROVE  FormInv'
<1> DEFINE save == saves[s]
<1>1. /\ save \in SavesUnderWay /\ save.id \in Ids /\ save.sent \in Forms
      /\ save.sent.value \in Values
  BY DEF FormInv, FormTypes, Store, SavesUnderWay, Forms
<1>2. table' \in [Ids -> Rows] /\ past' \in [Ids -> SUBSET Rows]
  BY <1>1, StoredRow, WriteStep DEF FormInv, Store
<1>3. CASE save.here /\ save.id = form.of
  <2>1. Behind(save.sent)
    BY <1>3 DEF FormInv, SavesBehind, Store
  <2>2. form \in Forms
    BY <2>1 DEF FormInv, FormTypes, Behind
  <2>3. /\ form' \in Forms /\ form' # NoForm
        /\ form'.value = form.value /\ form'.of = form.of
        /\ form'.base = Since(form.base, save.sent.value) /\ form'.typed = form.typed
    BY <1>1, <1>3, <2>2, SinceValues, FormsApart DEF Store, Forms
  <2>4. Untouched(form)'
    <3>1. form.base \in Values
      BY <2>2 DEF Forms
    <3>2. \A f \in Fields : form'.base[f] \in {save.sent.value[f], form.base[f]}
      BY <1>1, <2>3, <3>1, SinceValues
    <3>3. Untouched(form)
      BY <2>1 DEF FormInv, Behind
    <3> QED BY <2>1, <2>3, <3>2, <3>3 DEF Untouched, Behind
  <2>5. SavesBehind'
    BY <2>3, SaveEnds DEF FormInv, SavesBehind, Store, Behind, Untouched
  <2>6. FormTypes'
    BY <1>2, <2>3, SaveEnds DEF FormInv, FormTypes, Store
  <2> QED BY <2>2, <2>3, <2>4, <2>5, <2>6, FormsApart DEF FormInv, Store, Untouched
<1>4. CASE ~(save.here /\ save.id = form.of)
  <2>1. form' = form /\ UNCHANGED <<page, reads>> /\ saves' = [saves EXCEPT ![s] = NoSave]
    BY <1>4 DEF Store
  <2>2. FormTypes'
    BY <1>2, <2>1, SaveEnds DEF FormInv, FormTypes
  <2> QED BY <2>1, <2>2, SaveEnds DEF FormInv, SavesBehind, Untouched, Behind
<1> QED BY <1>3, <1>4

(* Every step keeps the invariant.                                             *)
LEMMA NextForm == FormInv /\ [Next]_vars => FormInv'
<1> SUFFICES ASSUME FormInv, [Next]_vars PROVE FormInv'
  OBVIOUS
<1> USE EditFormAssumption
<1>1. CASE Leave
  <2>1. \A s \in Slots : saves[s] \in SavesUnderWay \cup {NoSave}
    BY DEF FormInv, FormTypes
  <2>2. \A s \in Slots : saves'[s] = [saves[s] EXCEPT !.here = FALSE]
    BY <1>1 DEF Leave
  <2>3. ASSUME NEW s \in Slots
        PROVE  /\ saves'[s] \in SavesUnderWay \cup {NoSave}
               /\ saves'[s] # NoSave => /\ saves[s] # NoSave /\ saves'[s].here = FALSE
                                        /\ saves'[s].sent = saves[s].sent
    <3>1. CASE saves[s] = NoSave
      BY <2>2, <3>1 DEF NoSave
    <3>2. CASE saves[s] \in SavesUnderWay /\ saves[s] # NoSave
      BY <2>2, <3>2 DEF SavesUnderWay
    <3> QED BY <2>1, <3>1, <3>2
  <2>4. FormTypes'
    BY <1>1, <2>3 DEF FormInv, FormTypes, Leave
  <2>5. SavesBehind'
    <3>1. \A s \in Slots : saves[s] # NoSave => Untouched(saves[s].sent)
      BY DEF FormInv, SavesBehind
    <3>2. ASSUME NEW s \in Slots, saves'[s] # NoSave
          PROVE  ~saves'[s].here /\ Untouched(saves'[s].sent)
      BY <2>3, <3>1, <3>2
    <3> QED BY <3>2 DEF SavesBehind, Untouched
  <2> QED BY <1>1, <2>4, <2>5 DEF FormInv, Leave
<1>2. ASSUME NEW i \in Ids, Visit(i)
      PROVE  FormInv'
  <2>1. FormTypes' /\ \A get \in reads' : get.id = page'
    BY <1>2 DEF FormInv, FormTypes, Visit, Get
  <2> QED BY <1>2, <2>1, ElsewhereStep DEF Visit
<1>3. ASSUME NEW i \in Ids, Refresh(i) \/ Other(i)
      PROVE  FormInv'
  <2>1. table' \in [Ids -> Rows] /\ past' \in [Ids -> SUBSET Rows]
    <3>1. CASE Refresh(i)
      <4>1. PICK row \in past[i] : Write(i, Fetched(row))
        BY <3>1 DEF Refresh
      <4>2. row \in Rows
        BY <4>1 DEF FormInv, FormTypes
      <4> QED BY <4>1, <4>2, FetchedRow, WriteStep DEF FormInv
    <3>2. CASE Other(i)
      BY <3>2, StoredRow, WriteStep DEF Other, FormInv
    <3> QED BY <1>3, <3>1, <3>2
  <2>2. FormTypes'
    BY <1>3, <2>1 DEF FormInv, FormTypes, Refresh, Other
  <2> QED BY <1>3, <2>2, ElsewhereStep DEF FormInv, Refresh, Other
<1>4. ASSUME NEW get \in reads, ServeGet(get) \/ GetFails(get)
      PROVE  FormInv'
  <2>1. get \in [id : Ids, row : Rows \cup {None}] /\ past[get.id] \subseteq Rows
    BY DEF FormInv, FormTypes
  <2>2. \A other \in reads' : /\ other \in [id : Ids, row : Rows \cup {None}]
                              /\ other.id = page'
    BY <1>4, <2>1 DEF FormInv, FormTypes, ServeGet, GetFails
  <2>3. FormTypes'
    BY <1>4, <2>2 DEF FormInv, FormTypes, ServeGet, GetFails
  <2> QED BY <1>4, <2>2, <2>3, ElsewhereStep DEF FormInv, ServeGet, GetFails
<1>5. ASSUME NEW get \in reads, Show(get)
      PROVE  FormInv'
  <2>1. /\ get.id \in Ids /\ get.row \in Rows /\ get.id = page
    BY <1>5 DEF FormInv, FormTypes, Show
  <2>2. CASE form = NoForm
    <3>1. /\ form' = Mounted(get) /\ reads' \subseteq reads
          /\ UNCHANGED <<table, past, page, saves>>
      BY <1>5, <2>2 DEF Show
    <3>2. Mounted(get) \in Forms /\ Untouched(Mounted(get))
      BY <2>1, InitialValues DEF Mounted, Forms, Untouched
    <3>3. \A s \in Slots : saves[s] # NoSave => ~saves[s].here
      BY <2>2 DEF FormInv, SavesBehind, FormTypes, Behind, SavesUnderWay
    <3>4. FormTypes'
      BY <3>1, <3>2 DEF FormInv, FormTypes
    <3> QED BY <2>1, <3>1, <3>2, <3>3, <3>4 DEF FormInv, SavesBehind, Untouched
  <2>3. CASE form # NoForm
    <3>1. reads' \subseteq reads /\ UNCHANGED <<table, past, page, form, saves>>
      BY <1>5, <2>3 DEF Show
    <3>2. FormTypes'
      BY <3>1 DEF FormInv, FormTypes
    <3> QED BY <3>1, <3>2, ElsewhereStep DEF FormInv
  <2> QED BY <2>2, <2>3
<1>6. ASSUME NEW f \in Fields, NEW v, Type(f, v)
      PROVE  FormInv'
  <2>1. UNCHANGED <<table, past, page, reads, saves>> /\ form # NoForm
    BY <1>6 DEF Type
  <2>2. FormTypes'
    BY <1>6, <2>1, TypeStep DEF FormInv, FormTypes
  <2>3. Untouched(form)'
    BY <1>6, <2>1, TypeStep DEF FormInv, Untouched
  <2>4. \A sent \in Forms : Behind(sent) => Behind(sent)'
    BY <1>6, <2>1, TypeStep, FormsApart DEF Behind
  <2>5. \A s \in Slots : saves[s] # NoSave => saves[s].sent \in Forms
    BY DEF FormInv, FormTypes, SavesUnderWay
  <2> QED BY <2>1, <2>2, <2>3, <2>4, <2>5 DEF FormInv, SavesBehind, Untouched
<1>7. ASSUME NEW s \in Slots, Save(s)
      PROVE  FormInv'
  <2>1. form \in Forms /\ page \in Ids
    BY <1>7 DEF FormInv, FormTypes, Save
  <2> DEFINE save == [id |-> page, sent |-> form, here |-> TRUE]
  <2>2. save \in SavesUnderWay /\ save.sent = form
    BY <2>1 DEF SavesUnderWay
  <2> HIDE DEF save
  <2>3. /\ saves' = [saves EXCEPT ![s] = save]
        /\ UNCHANGED <<table, past, page, reads, form>> /\ form # NoForm
    BY <1>7 DEF Save, save
  <2>4. FormTypes'
    BY <2>2, <2>3 DEF FormInv, FormTypes
  <2>5. Untouched(form) /\ Behind(form)
    BY <2>3 DEF FormInv, Behind
  <2>6. SavesBehind'
    BY <2>2, <2>3, <2>5 DEF FormInv, FormTypes, SavesBehind, Untouched, Behind
  <2> QED BY <2>3, <2>4, <2>6 DEF FormInv, Untouched, Behind
<1>8. ASSUME NEW s \in Slots, Store(s)
      PROVE  FormInv'
  BY <1>8, StoreStep
<1>9. ASSUME NEW s \in Slots, SaveFails(s)
      PROVE  FormInv'
  <2>1. saves' = [saves EXCEPT ![s] = NoSave] /\ UNCHANGED <<table, past, page, reads, form>>
    BY <1>9 DEF SaveFails
  <2>2. FormTypes'
    BY <2>1, SaveEnds DEF FormInv, FormTypes
  <2> QED BY <2>1, <2>2, SaveEnds DEF FormInv, SavesBehind, Untouched, Behind
<1>10. CASE UNCHANGED vars
  BY <1>10 DEF vars, FormInv, SavesBehind, FormTypes, Untouched, Behind
<1> QED BY <1>1, <1>2, <1>3, <1>4, <1>5, <1>6, <1>7, <1>8, <1>9, <1>10 DEF Next

(* Types, and where a form and its saves come from, whatever is typed, saved,  *)
(* visited and changed by others meanwhile.                                    *)
THEOREM FormCorrect == Spec => []FormInv
BY InitForm, NextForm, PTL DEF Spec

-----------------------------------------------------------------------------

(* A save changes what nobody typed only where the form is stale, or empties   *)
(* what its payload leaves out.                                                *)
THEOREM StaleOverwrites == Spec => OverwritesStaleOrLeftOut
<1>1. ASSUME FormInv, NEW s \in Slots, Store(s),
             NEW c \in Columns \ saves[s].sent.typed,
             table'[saves[s].id][c] # table[saves[s].id][c]
      PROVE  IF c \in Payload(saves[s].sent.value)
               THEN table[saves[s].id][c] # saves[s].sent.base[c]
               ELSE table'[saves[s].id][c] = Empty
  <2>1. /\ saves[s].id \in Ids /\ saves[s].sent.value \in Values
        /\ Untouched(saves[s].sent)
    BY <1>1 DEF FormInv, SavesBehind, FormTypes, SavesUnderWay, Forms, Store
  <2>2. table'[saves[s].id] = Stored(saves[s].sent.value)
    BY <1>1, <2>1, StoredRow, WriteStep DEF Store, FormInv
  <2>3. Payload(saves[s].sent.value) \subseteq Fields
    BY DEF Payload, Fields
  <2> QED BY <1>1, <2>1, <2>2, <2>3, StoredRow DEF Untouched
<1>2. FormInv =>
        [\A s \in Slots :
           LET save == saves[s]
               changed == {c \in Columns \ save.sent.typed : table'[save.id][c] # table[save.id][c]}
           IN  Store(s) /\ save.sent.of = save.id =>
                 \A c \in changed :
                   IF c \in Payload(save.sent.value)
                     THEN table[save.id][c] # save.sent.base[c]
                     ELSE table'[save.id][c] = Empty]_vars
  BY <1>1
<1> QED BY <1>2, FormCorrect, PTL DEF OverwritesStaleOrLeftOut

(* The form is mounted with the service whose page is open.                    *)
THEOREM FormIsOwn == Spec => MountedWithOwn
<1>1. ASSUME FormInv, Next, form = NoForm, form' # NoForm
      PROVE  form'.of = page /\ page' = page
  <2>1. \A s \in Slots : ~Save(s) /\ (Store(s) => form' = form)
    <3>1. ASSUME NEW s \in Slots, Store(s)
          PROVE  saves[s].id # form.of
      BY <1>1, <3>1, EditFormAssumption
      DEF FormInv, FormTypes, Store, SavesUnderWay, NoForm
    <3> QED BY <1>1, <3>1 DEF Save, Store
  <2>2. PICK get \in reads : Show(get)
    BY <1>1, <2>1 DEF Next, Leave, Visit, Refresh, Other, ServeGet, GetFails, Type, SaveFails
  <2>3. get.id = page
    BY <1>1 DEF FormInv
  <2> QED BY <1>1, <2>2, <2>3 DEF Show, Mounted
<1>2. FormInv /\ [Next]_vars =>
        [form = NoForm /\ form' # NoForm => form'.of = page /\ page' = page]_vars
  BY <1>1
<1> QED BY <1>2, FormCorrect, PTL DEF Spec, MountedWithOwn

(* No answer takes away what was typed.                                        *)
THEOREM TypingStays == Spec => TypedStays
<1>1. ASSUME FormInv, Next, NEW f \in form.typed, form' # NoForm,
             form'.value[f] # form.value[f]
      PROVE  Type(f, form'.value[f])
  <2>1. form # NoForm /\ f \in Fields
    <3>1. NoForm.typed = {}
      BY DEF NoForm
    <3> QED BY <1>1, <3>1 DEF FormInv, FormTypes, Forms
  <2>2. \A s \in Slots : ~Store(s)
    <3>1. ASSUME NEW s \in Slots, Store(s)
          PROVE  form'.value = form.value
      BY <1>1, <2>1, <3>1 DEF Store, FormInv, FormTypes, Forms
    <3> QED BY <1>1, <3>1
  <2>3. PICK g \in Fields : \E v \in Choices(g) : Type(g, v)
    BY <1>1, <2>1, <2>2
    DEF Next, Leave, Visit, Refresh, Other, ServeGet, GetFails, Show, Save, SaveFails
  <2>4. PICK v \in Choices(g) : Type(g, v)
    BY <2>3
  <2>5. g = f /\ form'.value[f] = v
    BY <1>1, <2>1, <2>4, TypeStep
  <2> QED BY <2>4, <2>5
<1>2. FormInv /\ [Next]_vars =>
        [\A f \in form.typed :
           form' # NoForm /\ form'.value[f] # form.value[f] => Type(f, form'.value[f])]_vars
  BY <1>1
<1> QED BY <1>2, FormCorrect, PTL DEF Spec, TypedStays

=============================================================================
