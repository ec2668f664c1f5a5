--------------------------- MODULE TemplatesProofs ---------------------------
(***************************************************************************)
(* What holds of Templates for every set of rows, slots and requests.      *)
(* For a row that has not strayed, one request at a time is at work, with  *)
(* the slot the row still has, and how far it is tells what is registered. *)
(***************************************************************************)
EXTENDS Templates, TLAPS

Claimed(i) == IsStored(i) /\ template[i].external
Held(i) == \E s \in Slots : i \in registered[s]

Alone(i) == \A c, d \in Clients :
              i \in client[c].of /\ i \in client[d].of => c = d

\* What the stage of a request says of its row.
Fits(c, i) ==
  /\ IsStored(i) /\ client[c].slot = {template[i].slot}
  /\ client[c].at # "idle"
  /\ client[c].at = "create" => (Held(i) => Claimed(i))
  /\ client[c].at = "write" =>
       (Held(i) <=> Claimed(i) \/ client[c].result = "created")
  /\ client[c].at = "delete" => ~Held(i)

Kept(i) ==
  /\ Alone(i)
  /\ \A c \in Clients : i \in client[c].of => Fits(c, i)
  /\ \A s \in Slots : i \in registered[s] =>
       IsStored(i) /\ s = template[i].slot
  /\ Held(i) /\ ~Claimed(i) => Busy(i, {"write"})
  /\ Claimed(i) /\ ~Held(i) => Busy(i, {"delete"})

\* Without the provider nothing is ever registered.
Uncalled ==
  ~served => /\ \A i \in Ids : ~template[i].external
             /\ \A c \in Clients : /\ client[c].at \notin {"create", "remove"}
                                   /\ client[c].result # "created"

TemplateInv ==
  /\ TemplateTypeOK
  /\ \A i \in Ids : ~IsStored(i) => ~template[i].external
  /\ Uncalled
  /\ \A i \in Ids \ strayed : Kept(i)

-----------------------------------------------------------------------------

LEMMA NoRowType ==
  ASSUME NEW life \in {"new", "stored", "gone"}
  PROVE  NoRow(life) \in Template
<1>1. (CHOOSE s \in Slots : TRUE) \in Slots
  BY TemplateAssumption
<1>. QED
  BY <1>1 DEF NoRow, Template

LEMMA TemplateInitially == TemplateInit => TemplateInv
<1>. SUFFICES ASSUME TemplateInit PROVE TemplateInv
  OBVIOUS
<1>1. TemplateTypeOK
  BY NoRowType, TemplateAssumption
  DEF TemplateInit, TemplateTypeOK, Unserved, Client
<1>2. \A i \in Ids : ~template[i].external /\ ~IsStored(i)
  BY DEF TemplateInit, NoRow, IsStored
<1>3. \A c \in Clients : client[c] = [at |-> "idle", of |-> {}, slot |-> {},
                                      result |-> "none"]
  BY DEF TemplateInit, Unserved
<1>4. \A s \in Slots : registered[s] = {}
  BY DEF TemplateInit
<1>5. Uncalled
  BY <1>2, <1>3 DEF Uncalled
<1>6. ASSUME NEW i \in Ids PROVE Kept(i)
  BY <1>2, <1>3, <1>4 DEF Kept, Alone, Claimed, Held
<1>. QED
  BY <1>1, <1>2, <1>5, <1>6 DEF TemplateInv

\* A request's stage changes or it ends.
LEMMA ClientType ==
  ASSUME TemplateTypeOK, NEW c \in Clients, NEW q \in Client
  PROVE  [client EXCEPT ![c] = q] \in [Clients -> Client]
BY DEF TemplateTypeOK

LEMMA TemplateTypeStep ==
  ASSUME TemplateTypeOK, [TemplateNext]_templateVars
  PROVE  TemplateTypeOK'
<1>. USE DEF TemplateTypeOK
<1>1. ASSUME NEW i \in Ids, NEW slot \in Slots,
             CreateTemplate(i, slot) \/ UpdateTemplate(i, slot)
      PROVE  TemplateTypeOK'
  BY <1>1, TemplateAssumption
  DEF CreateTemplate, UpdateTemplate, Upheaval, Template
<1>2. ASSUME NEW c \in Clients, ClientStep(c)
      PROVE  TemplateTypeOK'
  <2>1. Unserved \in Client
    BY DEF Unserved, Client
  <2>2. ASSUME NEW i \in Ids, BeginSubmit(c, i) \/ BeginRemove(c, i)
        PROVE  TemplateTypeOK'
    <3>1. PICK at \in {"create", "write", "remove", "delete"} :
            Begins(c, i, at)
      BY <2>2 DEF BeginSubmit, BeginRemove, RemovalBegins
    <3>2. [at |-> at, of |-> {i}, slot |-> {template[i].slot},
           result |-> "none"] \in Client
      BY DEF Client, Template
    <3>3. client' \in [Clients -> Client] /\ strayed' \subseteq Ids
      BY <3>1, <3>2, ClientType DEF Begins
    <3>. QED
      BY <2>2, <3>3 DEF BeginSubmit, BeginRemove
  <2>3. CASE CallCreate(c)
    BY <2>3 DEF CallCreate, Takes, CreateReturns, Client
  <2>4. CASE WriteSubmission(c)
    <3>1. template' \in [Ids -> Template]
      BY <2>4 DEF WriteSubmission, Template
    <3>. QED
      BY <2>4, <2>1, <3>1 DEF WriteSubmission, Leaves
  <2>5. CASE CallDelete(c)
    <3>1. strayed' \subseteq Ids /\ registered' \in [Slots -> SUBSET Ids]
      BY <2>5 DEF CallDelete
    <3>2. client' \in [Clients -> Client]
      BY <2>5 DEF CallDelete, Client
    <3>. QED
      BY <2>5, <3>1, <3>2 DEF CallDelete
  <2>6. CASE DeleteTemplate(c)
    BY <2>6, <2>1, NoRowType DEF DeleteTemplate, Leaves
  <2>7. CASE CreateIsLost(c)
    <3>1. client[c].of \subseteq Ids
      BY DEF Client
    <3>2. registered' \in [Slots -> SUBSET Ids]
      BY <2>7, <3>1 DEF CreateIsLost, Takes
    <3>3. client' \in [Clients -> Client]
      BY <2>7 DEF CreateIsLost, CreateReturns, Client
    <3>4. strayed' \subseteq Ids /\ upheavals' \in 0 .. MaxUpheavals
      BY <2>7, <3>1, TemplateAssumption DEF CreateIsLost, Loses, Upheaval
    <3>. QED
      BY <2>7, <3>2, <3>3, <3>4 DEF CreateIsLost
  <2>8. CASE DeleteIsRefused(c)
    <3>1. client[c].of \subseteq Ids
      BY DEF Client
    <3>2. client' \in [Clients -> Client]
      BY <2>8 DEF DeleteIsRefused, Client
    <3>3. strayed' \subseteq Ids /\ upheavals' \in 0 .. MaxUpheavals
      BY <2>8, <3>1, TemplateAssumption DEF DeleteIsRefused, Loses, Upheaval
    <3>. QED
      BY <2>8, <3>2, <3>3 DEF DeleteIsRefused
  <2>9. CASE TemplateFails(c)
    <3>1. client[c].of \subseteq Ids
      BY DEF Client
    <3>. QED
      BY <2>9, <2>1, <3>1, TemplateAssumption
      DEF TemplateFails, Loses, Upheaval, Leaves
  <2>. QED
    BY <1>2, <2>2, <2>3, <2>4, <2>5, <2>6, <2>7, <2>8, <2>9 DEF ClientStep
<1>3. CASE TemplatesCrash
  BY <1>3, TemplateAssumption
  DEF TemplatesCrash, Loses, Upheaval, Unserved, Client
<1>4. CASE UNCHANGED templateVars
  BY <1>4 DEF templateVars
<1>. QED
  BY <1>1, <1>2, <1>3, <1>4 DEF TemplateNext

-----------------------------------------------------------------------------

\* What a row's claims rest on, other than the requests at work on it.
SameRow(i) == template'[i] = template[i]
SameHold(i) == \A s \in Slots : i \in registered'[s] <=> i \in registered[s]
SameWork(i) ==
  \A c \in Clients : i \in client[c].of \/ i \in client'[c].of =>
                       client'[c] = client[c]

\* A row nobody touches stays kept.
LEMMA UntouchedIsKept ==
  ASSUME NEW i \in Ids, Kept(i), SameRow(i), SameHold(i), SameWork(i)
  PROVE  Kept(i)'
<1>1. Claimed(i)' = Claimed(i) /\ IsStored(i)' = IsStored(i)
  BY DEF SameRow, Claimed, IsStored
<1>2. Held(i)' = Held(i)
  BY DEF SameHold, Held
<1>3. Alone(i)'
  BY DEF Kept, Alone, SameWork
<1>4. \A c \in Clients : i \in client'[c].of => Fits(c, i)'
  BY <1>1, <1>2 DEF Kept, SameWork, Fits, SameRow
<1>5. \A s \in Slots : i \in registered'[s] =>
        IsStored(i)' /\ s = template'[i].slot
  BY <1>1 DEF Kept, SameHold, SameRow
<1>6. ASSUME NEW stages, Busy(i, stages) PROVE Busy(i, stages)'
  BY <1>6 DEF Busy, SameWork
<1>. QED
  BY <1>1, <1>2, <1>3, <1>4, <1>5, <1>6 DEF Kept

\* What a single request at work leaves kept: its own stage has to fit, and
\* the row and what is registered have to agree.
LEMMA WorkedOnIsKept ==
  ASSUME NEW i \in Ids, NEW c \in Clients,
         \A d \in Clients \ {c} : i \notin client'[d].of,
         i \in client'[c].of => Fits(c, i)',
         \A s \in Slots : i \in registered'[s] =>
           IsStored(i)' /\ s = template'[i].slot,
         Held(i)' /\ ~Claimed(i)' =>
           i \in client'[c].of /\ client'[c].at = "write",
         Claimed(i)' /\ ~Held(i)' =>
           i \in client'[c].of /\ client'[c].at = "delete"
  PROVE  Kept(i)'
BY DEF Kept, Alone, Busy

LEMMA BeginIsKept ==
  ASSUME TemplateInv, NEW c \in Clients, NEW j \in Ids,
         NEW at \in {"create", "write", "remove", "delete"},
         Begins(c, j, at), UNCHANGED <<template, registered>>,
         at = "delete" => ~Claimed(j),
         NEW i \in Ids \ strayed'
  PROVE  Kept(i)'
<1>1. Kept(i)
  BY DEF TemplateInv, Begins
<1>2. client[c].at = "idle" /\ client \in [Clients -> Client]
  BY DEF Begins, TemplateInv, TemplateTypeOK
<1>3. i \notin client[c].of
  BY <1>1, <1>2 DEF Kept, Fits
<1>4. client' = [client EXCEPT ![c] =
        [at |-> at, of |-> {j}, slot |-> {template[j].slot},
         result |-> "none"]]
  BY DEF Begins
<1>5. \A d \in Clients \ {c} : client'[d] = client[d]
  BY <1>2, <1>4
<1>6. client'[c] = [at |-> at, of |-> {j}, slot |-> {template[j].slot},
                    result |-> "none"]
  BY <1>2, <1>4
<1>7. CASE i # j
  <2>1. i \notin client'[c].of
    BY <1>6, <1>7
  <2>. QED
    BY <1>1, <1>3, <1>5, <2>1, UntouchedIsKept
    DEF SameRow, SameHold, SameWork
<1>8. CASE i = j
  <2>1. ~AtWork(i)
    BY <1>8 DEF Begins
  <2>2. \A d \in Clients : i \in client[d].of =>
          client[d].at \in {"create", "write", "remove", "delete"}
    BY <1>1, <1>2 DEF Kept, Fits, Client
  <2>3. \A d \in Clients : i \notin client[d].of
    BY <2>1, <2>2 DEF AtWork, Busy
  <2>4. Held(i) <=> Claimed(i)
    BY <1>1, <2>3 DEF Kept, Busy
  <2>5. /\ Held(i)' = Held(i) /\ Claimed(i)' = Claimed(i)
        /\ IsStored(i)' = IsStored(i)
    BY DEF Held, Claimed, IsStored
  <2>6. IsStored(i)
    BY <1>8 DEF Begins
  <2>7. Fits(c, i)'
    BY <1>6, <1>8, <2>4, <2>5, <2>6 DEF Fits
  <2>8. \A s \in Slots : i \in registered'[s] =>
          IsStored(i)' /\ s = template'[i].slot
    BY <1>1, <2>5 DEF Kept
  <2>9. \A d \in Clients \ {c} : i \notin client'[d].of
    BY <1>5, <2>3
  <2>. QED
    BY <2>4, <2>5, <2>7, <2>8, <2>9, WorkedOnIsKept
<1>. QED
  BY <1>7, <1>8

\* Rows are created free and renamed only at the cost of having strayed.
LEMMA EditIsKept ==
  ASSUME TemplateInv, NEW j \in Ids, NEW slot \in Slots,
         CreateTemplate(j, slot) \/ UpdateTemplate(j, slot),
         NEW i \in Ids \ strayed'
  PROVE  Kept(i)'
<1>1. Kept(i)
  BY DEF TemplateInv, CreateTemplate, UpdateTemplate
<1>2. UNCHANGED <<registered, client>>
  BY DEF CreateTemplate, UpdateTemplate
<1>3. template \in [Ids -> Template]
  BY DEF TemplateInv, TemplateTypeOK
<1>4. \A k \in Ids \ {j} : template'[k] = template[k]
  BY <1>3 DEF CreateTemplate, UpdateTemplate
<1>5. CASE i # j
  BY <1>1, <1>2, <1>4, <1>5, UntouchedIsKept
  DEF SameRow, SameHold, SameWork
<1>6. CASE i = j
  <2>1. ~Claimed(i) /\ \A c \in Clients : i \notin client[c].of
    <3>1. CASE CreateTemplate(j, slot)
      <4>1. ~IsStored(i)
        BY <1>6, <3>1 DEF CreateTemplate, IsStored
      <4>. QED
        BY <1>1, <4>1 DEF Kept, Fits, Claimed
    <3>2. CASE UpdateTemplate(j, slot)
      <4>1. ~template[i].external /\ ~AtWork(i)
        BY <1>6, <3>2 DEF UpdateTemplate
      <4>2. \A c \in Clients : i \in client[c].of =>
              client[c].at \in {"create", "write", "remove", "delete"}
        BY <1>1 DEF Kept, Fits, TemplateInv, TemplateTypeOK, Client
      <4>. QED
        BY <4>1, <4>2 DEF AtWork, Busy, Claimed
    <3>. QED
      BY <3>1, <3>2
  <2>2. ~Held(i)
    BY <1>1, <2>1 DEF Kept, Busy
  <2>3. ~Held(i)' /\ \A c \in Clients : i \notin client'[c].of
    BY <1>2, <2>1, <2>2 DEF Held
  <2>4. ~template[i].external
    BY <2>1 DEF Claimed, TemplateInv
  <2>5. template'[i].external = template[i].external
    BY <1>3, <1>6
    DEF CreateTemplate, UpdateTemplate, Template
  <2>6. ~Claimed(i)'
    BY <2>4, <2>5 DEF Claimed
  <2>. QED
    BY <2>3, <2>6 DEF Kept, Alone, Held
<1>. QED
  BY <1>5, <1>6

LEMMA CallCreateIsKept ==
  ASSUME TemplateInv, NEW c \in Clients, CallCreate(c),
         NEW i \in Ids \ strayed'
  PROVE  Kept(i)'
<1>1. Kept(i)
  BY DEF TemplateInv, CallCreate
<1>2. PICK result \in {"created", "refused"} :
        /\ CreateReturns(c, result)
        /\ result = "created" => Takes(c) /\ \A s \in client[c].slot :
                                               registered[s] = {}
        /\ result = "refused" => UNCHANGED registered
  BY DEF CallCreate
<1>3. /\ client[c].at = "create" /\ template' = template
      /\ client[c] \in Client /\ client[c].slot \subseteq Slots
  BY DEF CallCreate, TemplateInv, TemplateTypeOK, Client
<1>4. /\ client'[c].at = "write" /\ client'[c].result = result
      /\ client'[c].of = client[c].of /\ client'[c].slot = client[c].slot
      /\ \A d \in Clients \ {c} : client'[d] = client[d]
  BY <1>2, <1>3 DEF CreateReturns, TemplateInv, TemplateTypeOK, Client
<1>5. \A s \in Slots : registered'[s] =
        IF result = "created" /\ s \in client[c].slot THEN client[c].of
        ELSE registered[s]
  BY <1>2 DEF Takes
<1>6. Claimed(i)' = Claimed(i) /\ IsStored(i)' = IsStored(i)
  BY <1>3 DEF Claimed, IsStored
<1>7. CASE i \notin client[c].of
  <2>1. \A s \in Slots : i \in registered'[s] <=> i \in registered[s]
    BY <1>2, <1>5, <1>7
  <2>. QED
    BY <1>1, <1>3, <1>4, <1>7, <2>1, UntouchedIsKept
    DEF SameRow, SameHold, SameWork
<1>8. CASE i \in client[c].of
  <2>1. Fits(c, i) /\ \A d \in Clients \ {c} : i \notin client[d].of
    BY <1>1, <1>8 DEF Kept, Alone
  <2>2. /\ IsStored(i) /\ client[c].slot = {template[i].slot}
        /\ Held(i) => Claimed(i)
    BY <1>3, <2>1 DEF Fits
  <2>3. Claimed(i) => Held(i)
    BY <1>1, <1>3, <2>1 DEF Kept, Busy
  <2>4. Held(i)' <=> Claimed(i)' \/ result = "created"
    <3>1. CASE result = "created"
      BY <1>3, <1>5, <1>8, <2>2, <3>1 DEF Held
    <3>2. CASE result = "refused"
      <4>1. Held(i)' = Held(i)
        BY <1>5, <3>2 DEF Held
      <4>. QED
        BY <1>6, <2>2, <2>3, <3>2, <4>1
    <3>. QED
      BY <3>1, <3>2
  <2>5. Fits(c, i)'
    BY <1>3, <1>4, <1>6, <2>2, <2>4 DEF Fits
  <2>6. \A s \in Slots : i \in registered'[s] =>
          IsStored(i)' /\ s = template'[i].slot
    BY <1>1, <1>3, <1>5, <1>6, <2>2 DEF Kept
  <2>7. \A d \in Clients \ {c} : i \notin client'[d].of
    BY <1>4, <2>1
  <2>. QED
    BY <1>4, <1>8, <2>4, <2>5, <2>6, <2>7, WorkedOnIsKept
<1>. QED
  BY <1>7, <1>8

LEMMA WriteIsKept ==
  ASSUME TemplateInv, NEW c \in Clients, WriteSubmission(c),
         NEW i \in Ids \ strayed'
  PROVE  Kept(i)'
<1>1. Kept(i)
  BY DEF TemplateInv, WriteSubmission
<1>2. /\ client[c].at = "write" /\ UNCHANGED <<registered, strayed>>
      /\ client' = [client EXCEPT ![c] = Unserved]
  BY DEF WriteSubmission, Leaves
<1>3. client'[c].of = {} /\ \A d \in Clients \ {c} : client'[d] = client[d]
  BY <1>2 DEF TemplateInv, TemplateTypeOK, Unserved
<1>4. Held(i)' = Held(i)
  BY <1>2 DEF Held
<1>5. CASE i \notin client[c].of
  <2>1. template'[i] = template[i]
    BY <1>5 DEF WriteSubmission
  <2>. QED
    BY <1>1, <1>2, <1>3, <1>5, <2>1, UntouchedIsKept
    DEF SameRow, SameHold, SameWork
<1>6. CASE i \in client[c].of
  <2>1. Fits(c, i) /\ \A d \in Clients \ {c} : i \notin client[d].of
    BY <1>1, <1>6 DEF Kept, Alone
  <2>2. IsStored(i) /\ (Held(i) <=> Claimed(i) \/ client[c].result = "created")
    BY <1>2, <2>1 DEF Fits
  <2>3. template[i] \in Template
    BY DEF TemplateInv, TemplateTypeOK
  <2>4. /\ template'[i].life = template[i].life
        /\ template'[i].slot = template[i].slot
        /\ template'[i].external =
             (template[i].external \/ client[c].result = "created")
    BY <1>6, <2>2, <2>3 DEF WriteSubmission, Template
  <2>5. IsStored(i)' /\ (Held(i)' <=> Claimed(i)')
    BY <1>4, <2>2, <2>4 DEF IsStored, Claimed
  <2>6. \A s \in Slots : i \in registered'[s] =>
          IsStored(i)' /\ s = template'[i].slot
    BY <1>1, <1>2, <2>4, <2>5 DEF Kept
  <2>7. \A d \in Clients : i \notin client'[d].of
    BY <1>3, <2>1
  <2>. QED
    BY <2>5, <2>6, <2>7, WorkedOnIsKept
<1>. QED
  BY <1>5, <1>6

LEMMA CallDeleteIsKept ==
  ASSUME TemplateInv, NEW c \in Clients, CallDelete(c),
         NEW i \in Ids \ strayed'
  PROVE  Kept(i)'
<1>. DEFINE hit == {s \in Slots : \E t \in client[c].slot :
                                    NameOf(s) = NameOf(t)}
<1>1. /\ client[c].at = "remove" /\ template' = template
      /\ client' = [client EXCEPT ![c].at = "delete"]
      /\ registered' = [s \in Slots |-> IF s \in hit THEN {}
                                        ELSE registered[s]]
      /\ strayed' = strayed \cup
           {j \in Ids \ client[c].of : \E s \in hit : j \in registered[s]}
  BY DEF CallDelete
<1>. HIDE DEF hit
<1>2. Kept(i)
  BY <1>1 DEF TemplateInv
<1>3. client[c] \in Client
  BY DEF TemplateInv, TemplateTypeOK
<1>4. /\ client'[c].at = "delete" /\ client'[c].of = client[c].of
      /\ client'[c].slot = client[c].slot
      /\ \A d \in Clients \ {c} : client'[d] = client[d]
  BY <1>1, <1>3 DEF TemplateInv, TemplateTypeOK, Client
<1>5. Claimed(i)' = Claimed(i) /\ IsStored(i)' = IsStored(i)
  BY <1>1 DEF Claimed, IsStored
<1>6. CASE i \notin client[c].of
  <2>1. \A s \in hit : i \notin registered[s]
    BY <1>1, <1>6
  <2>2. \A s \in Slots : i \in registered'[s] <=> i \in registered[s]
    BY <1>1, <2>1
  <2>. QED
    BY <1>1, <1>2, <1>4, <1>6, <2>2, UntouchedIsKept
    DEF SameRow, SameHold, SameWork
<1>7. CASE i \in client[c].of
  <2>1. Fits(c, i) /\ \A d \in Clients \ {c} : i \notin client[d].of
    BY <1>2, <1>7 DEF Kept, Alone
  <2>2. IsStored(i) /\ client[c].slot = {template[i].slot}
    BY <2>1 DEF Fits
  <2>3. template[i].slot \in Slots
    BY DEF TemplateInv, TemplateTypeOK, Template
  <2>4. template[i].slot \in hit
    BY <2>2, <2>3 DEF hit
  <2>5. \A s \in Slots : i \notin registered'[s]
    BY <1>1, <1>2, <2>4 DEF Kept
  <2>6. ~Held(i)'
    BY <2>5 DEF Held
  <2>7. Fits(c, i)'
    BY <1>1, <1>4, <1>5, <2>2, <2>6 DEF Fits
  <2>8. \A d \in Clients \ {c} : i \notin client'[d].of
    BY <1>4, <2>1
  <2>. QED
    BY <1>4, <1>7, <2>5, <2>6, <2>7, <2>8, WorkedOnIsKept
<1>. QED
  BY <1>6, <1>7

LEMMA DeleteIsKept ==
  ASSUME TemplateInv, NEW c \in Clients, DeleteTemplate(c),
         NEW i \in Ids \ strayed'
  PROVE  Kept(i)'
<1>1. Kept(i)
  BY DEF TemplateInv, DeleteTemplate
<1>2. /\ client[c].at = "delete" /\ UNCHANGED <<registered, strayed>>
      /\ client' = [client EXCEPT ![c] = Unserved]
  BY DEF DeleteTemplate, Leaves
<1>3. client'[c].of = {} /\ \A d \in Clients \ {c} : client'[d] = client[d]
  BY <1>2 DEF TemplateInv, TemplateTypeOK, Unserved
<1>4. CASE i \notin client[c].of
  <2>1. template'[i] = template[i]
    BY <1>4 DEF DeleteTemplate
  <2>. QED
    BY <1>1, <1>2, <1>3, <1>4, <2>1, UntouchedIsKept
    DEF SameRow, SameHold, SameWork
<1>5. CASE i \in client[c].of
  <2>1. Fits(c, i) /\ \A d \in Clients \ {c} : i \notin client[d].of
    BY <1>1, <1>5 DEF Kept, Alone
  <2>2. IsStored(i) /\ ~Held(i)
    BY <1>2, <2>1 DEF Fits
  <2>3. template'[i].life = "gone"
    BY <1>5, <2>2 DEF DeleteTemplate, NoRow
  <2>4. ~Claimed(i)'
    BY <2>3 DEF Claimed, IsStored
  <2>5. ~Held(i)' /\ \A s \in Slots : i \notin registered'[s]
    BY <1>2, <2>2 DEF Held
  <2>6. \A d \in Clients : i \notin client'[d].of
    BY <1>3, <2>1
  <2>. QED
    BY <2>4, <2>5, <2>6, WorkedOnIsKept
<1>. QED
  BY <1>4, <1>5

\* A loss makes the rows at work stray; the others are not touched.
LEMMA LossIsKept ==
  ASSUME TemplateInv, NEW c \in Clients,
         CreateIsLost(c) \/ DeleteIsRefused(c) \/ TemplateFails(c),
         NEW i \in Ids \ strayed'
  PROVE  Kept(i)'
<1>1. Kept(i) /\ i \notin client[c].of /\ template' = template
  BY DEF TemplateInv, CreateIsLost, DeleteIsRefused, TemplateFails, Loses
<1>2. client[c] \in Client
  BY DEF TemplateInv, TemplateTypeOK
<1>3. /\ client'[c].of \subseteq client[c].of
      /\ \A d \in Clients \ {c} : client'[d] = client[d]
  <2>. USE DEF TemplateInv, TemplateTypeOK
  <2>1. CASE CreateIsLost(c)
    BY <1>2, <2>1 DEF CreateIsLost, CreateReturns, Client
  <2>2. CASE DeleteIsRefused(c)
    BY <1>2, <2>2 DEF DeleteIsRefused, Client
  <2>3. CASE TemplateFails(c)
    BY <2>3 DEF TemplateFails, Leaves, Unserved
  <2>. QED
    BY <2>1, <2>2, <2>3
<1>4. \A s \in Slots : i \in registered'[s] <=> i \in registered[s]
  BY <1>1
  DEF CreateIsLost, Takes, DeleteIsRefused, TemplateFails
<1>. QED
  BY <1>1, <1>3, <1>4, UntouchedIsKept DEF SameRow, SameHold, SameWork

LEMMA CrashIsKept ==
  ASSUME TemplateInv, TemplatesCrash, NEW i \in Ids \ strayed'
  PROVE  Kept(i)'
<1>1. Kept(i) /\ UNCHANGED <<template, registered>>
  BY DEF TemplateInv, TemplatesCrash, Loses
<1>2. \A c \in Clients : i \notin client[c].of
  BY DEF TemplatesCrash, Loses
<1>3. \A c \in Clients : i \notin client'[c].of
  BY DEF TemplatesCrash, Unserved
<1>. QED
  BY <1>1, <1>2, <1>3, UntouchedIsKept DEF SameRow, SameHold, SameWork

-----------------------------------------------------------------------------

LEMMA KeptStep ==
  ASSUME TemplateInv, [TemplateNext]_templateVars, NEW i \in Ids \ strayed'
  PROVE  Kept(i)'
<1>1. ASSUME NEW j \in Ids, NEW slot \in Slots,
             CreateTemplate(j, slot) \/ UpdateTemplate(j, slot)
      PROVE  Kept(i)'
  BY <1>1, EditIsKept
<1>2. ASSUME NEW c \in Clients, ClientStep(c)
      PROVE  Kept(i)'
  <2>1. ASSUME NEW j \in Ids, BeginSubmit(c, j)
        PROVE  Kept(i)'
    <3>1. (IF served THEN "create" ELSE "write") \in
            {"create", "write", "remove", "delete"} \ {"delete"}
      OBVIOUS
    <3>2. /\ Begins(c, j, IF served THEN "create" ELSE "write")
          /\ UNCHANGED <<template, registered>>
      BY <2>1 DEF BeginSubmit
    <3>. DEFINE at == IF served THEN "create" ELSE "write"
    <3>3. at \in {"create", "write", "remove", "delete"} /\ at # "delete"
      BY <3>1
    <3>4. Begins(c, j, at)
      BY <3>2
    <3>. HIDE DEF at
    <3>. QED
      BY <3>2, <3>3, <3>4, BeginIsKept
  <2>2. ASSUME NEW j \in Ids, BeginRemove(c, j)
        PROVE  Kept(i)'
    <3>1. RemovalBegins(j) = "delete" => ~Claimed(j)
      BY DEF RemovalBegins, TemplateInv, Uncalled, Claimed
    <3>2. RemovalBegins(j) \in {"create", "write", "remove", "delete"}
      BY DEF RemovalBegins
    <3>. QED
      BY <2>2, <3>1, <3>2, BeginIsKept DEF BeginRemove
  <2>. QED
    BY <1>2, <2>1, <2>2, CallCreateIsKept, WriteIsKept, CallDeleteIsKept,
       DeleteIsKept, LossIsKept
    DEF ClientStep
<1>3. CASE TemplatesCrash
  BY <1>3, CrashIsKept
<1>4. CASE UNCHANGED templateVars
  BY <1>4, UntouchedIsKept
  DEF templateVars, TemplateInv, SameRow, SameHold, SameWork
<1>. QED
  BY <1>1, <1>2, <1>3, <1>4 DEF TemplateNext

\* A row that is not there has no external id.
LEMMA ExternalIsStored ==
  ASSUME TemplateInv, [TemplateNext]_templateVars
  PROVE  \A i \in Ids : ~IsStored(i)' => ~template'[i].external
<1>. SUFFICES ASSUME NEW i \in Ids
              PROVE  ~IsStored(i)' => ~template'[i].external
  OBVIOUS
<1>1. template \in [Ids -> Template] /\ (~IsStored(i) => ~template[i].external)
  BY DEF TemplateInv, TemplateTypeOK
<1>2. template'[i] = template[i] => (~IsStored(i)' => ~template'[i].external)
  BY <1>1 DEF IsStored
<1>3. ASSUME NEW j \in Ids, NEW slot \in Slots,
             CreateTemplate(j, slot) \/ UpdateTemplate(j, slot)
      PROVE  ~IsStored(i)' => ~template'[i].external
  BY <1>1, <1>3 DEF CreateTemplate, UpdateTemplate, IsStored, Template
<1>4. ASSUME NEW c \in Clients, WriteSubmission(c)
      PROVE  ~IsStored(i)' => ~template'[i].external
  BY <1>1, <1>4 DEF WriteSubmission, IsStored, Template
<1>5. ASSUME NEW c \in Clients, DeleteTemplate(c)
      PROVE  ~IsStored(i)' => ~template'[i].external
  BY <1>1, <1>5 DEF DeleteTemplate, IsStored, NoRow
<1>6. ASSUME NEW c \in Clients, ClientStep(c),
             ~WriteSubmission(c), ~DeleteTemplate(c)
      PROVE  template' = template
  BY <1>6
  DEF ClientStep, BeginSubmit, BeginRemove, CallCreate, CallDelete,
      CreateIsLost, DeleteIsRefused, TemplateFails
<1>7. TemplatesCrash \/ UNCHANGED templateVars => template' = template
  BY DEF TemplatesCrash, templateVars
<1>. QED
  BY <1>2, <1>3, <1>4, <1>5, <1>6, <1>7 DEF TemplateNext

LEMMA UncalledStep ==
  ASSUME TemplateInv, [TemplateNext]_templateVars
  PROVE  Uncalled'
<1>. SUFFICES ASSUME ~served'
              PROVE  /\ \A i \in Ids : ~template'[i].external
                     /\ \A c \in Clients :
                          /\ client'[c].at \notin {"create", "remove"}
                          /\ client'[c].result # "created"
  BY DEF Uncalled
<1>1. ~served
  BY DEF TemplateNext, ClientStep, CreateTemplate, UpdateTemplate,
         BeginSubmit, BeginRemove, CallCreate, WriteSubmission, CallDelete,
         DeleteTemplate, CreateIsLost, DeleteIsRefused, TemplateFails,
         TemplatesCrash, templateVars
<1>2. /\ \A i \in Ids : ~template[i].external
      /\ \A c \in Clients : /\ client[c].at \notin {"create", "remove"}
                            /\ client[c].result # "created"
  BY <1>1 DEF TemplateInv, Uncalled
<1>3. template \in [Ids -> Template] /\ client \in [Clients -> Client]
  BY DEF TemplateInv, TemplateTypeOK
<1>4. ASSUME NEW j \in Ids, NEW slot \in Slots,
             CreateTemplate(j, slot) \/ UpdateTemplate(j, slot)
      PROVE  client' = client /\ \A i \in Ids : ~template'[i].external
  BY <1>2, <1>3, <1>4 DEF CreateTemplate, UpdateTemplate, Template
<1>5. ASSUME NEW c \in Clients, NEW j \in Ids,
             BeginSubmit(c, j) \/ BeginRemove(c, j)
      PROVE  /\ template' = template
             /\ \A d \in Clients :
                  /\ client'[d].at \notin {"create", "remove"}
                  /\ client'[d].result # "created"
  <2>1. PICK at \in {"write", "delete"} : Begins(c, j, at)
    BY <1>1, <1>5 DEF BeginSubmit, BeginRemove, RemovalBegins
  <2>2. client' = [client EXCEPT ![c] =
          [at |-> at, of |-> {j}, slot |-> {template[j].slot},
           result |-> "none"]]
    BY <2>1 DEF Begins
  <2>3. template' = template
    BY <1>5 DEF BeginSubmit, BeginRemove
  <2>. QED
    BY <1>2, <1>3, <2>2, <2>3
<1>6. ASSUME NEW c \in Clients, WriteSubmission(c) \/ DeleteTemplate(c)
      PROVE  /\ client' = [client EXCEPT ![c] = Unserved]
             /\ \A i \in Ids : ~template'[i].external
  <2>1. CASE WriteSubmission(c)
    BY <1>2, <1>3, <2>1 DEF WriteSubmission, Leaves, Template
  <2>2. CASE DeleteTemplate(c)
    BY <1>2, <1>3, <2>2 DEF DeleteTemplate, Leaves, NoRow
  <2>. QED
    BY <1>6, <2>1, <2>2
<1>7. ASSUME NEW c \in Clients
      PROVE  /\ ~CallCreate(c) /\ ~CallDelete(c)
             /\ ~CreateIsLost(c) /\ ~DeleteIsRefused(c)
  BY <1>2 DEF CallCreate, CallDelete, CreateIsLost, DeleteIsRefused
<1>8. ASSUME NEW c \in Clients, TemplateFails(c)
      PROVE  client' = [client EXCEPT ![c] = Unserved] /\ template' = template
  BY <1>8 DEF TemplateFails, Leaves
<1>9. ASSUME NEW c \in Clients, client' = [client EXCEPT ![c] = Unserved]
      PROVE  \A d \in Clients : /\ client'[d].at \notin {"create", "remove"}
                                /\ client'[d].result # "created"
  BY <1>2, <1>3, <1>9 DEF Unserved
<1>10. CASE TemplatesCrash
  BY <1>2, <1>10 DEF TemplatesCrash, Unserved
<1>11. CASE UNCHANGED templateVars
  BY <1>2, <1>11 DEF templateVars
<1>12. ASSUME NEW c \in Clients, ClientStep(c)
       PROVE  /\ \A i \in Ids : ~template'[i].external
              /\ \A d \in Clients :
                   /\ client'[d].at \notin {"create", "remove"}
                   /\ client'[d].result # "created"
  BY <1>2, <1>5, <1>6, <1>7, <1>8, <1>9, <1>12 DEF ClientStep
<1>. QED
  BY <1>2, <1>4, <1>10, <1>11, <1>12 DEF TemplateNext

LEMMA TemplateInvariant == TemplateSpec => []TemplateInv
<1>1. TemplateInv /\ [TemplateNext]_templateVars => TemplateInv'
  BY TemplateTypeStep, ExternalIsStored, UncalledStep, KeptStep
  DEF TemplateInv
<1>. QED
  BY <1>1, TemplateInitially, PTL DEF TemplateSpec

\* Rows, registrations and requests keep their types.
THEOREM TemplatesTypeCorrect == TemplateSpec => []TemplateTypeOK
<1>1. TemplateInv => TemplateTypeOK
  BY DEF TemplateInv
<1>. QED
  BY <1>1, TemplateInvariant, PTL

\* WhatsApp has a template iff its row has an external id, but for a request
\* under way and rows that have strayed (templates.service 88-153).
THEOREM TemplatesMatchProvider == TemplateSpec => []RowsMatchProvider
<1>1. TemplateInv => RowsMatchProvider
  <2>. SUFFICES ASSUME TemplateInv, NEW i \in Ids \ strayed
                PROVE  /\ Held(i) /\ ~Claimed(i) => Busy(i, {"write"})
                       /\ Claimed(i) /\ i \notin registered[template[i].slot]
                            => Busy(i, {"delete"})
    BY DEF RowsMatchProvider, Held, Claimed
  <2>1. Kept(i)
    BY DEF TemplateInv
  <2>2. i \notin registered[template[i].slot] => ~Held(i)
    BY <2>1 DEF Kept, Held
  <2>. QED
    BY <2>1, <2>2 DEF Kept
<1>. QED
  BY <1>1, TemplateInvariant, PTL
=============================================================================
