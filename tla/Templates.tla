------------------------------ MODULE Templates ------------------------------
(***************************************************************************)
(* TemplatesService, and the templates WhatsApp has registered: the two    *)
(* are kept together by calls of the provider, each made between a read    *)
(* and a write of the row.  A template is deleted there by its name, in    *)
(* every language.  The provider's own row stays.                          *)
(*                                                                         *)
(* There to be reasoned about only: strayed.                               *)
(***************************************************************************)
EXTENDS Naturals

CONSTANTS
  Ids,            \* rows of templates
  Slots,          \* pairs of a name and a language
  Clients,        \* requests served at the same time
  MaxUpheavals    \* bound

ASSUME TemplateAssumption ==
  Slots # {} /\ MaxUpheavals \in Nat

VARIABLES
  served,         \* the provider is registered; fixed
  template,       \* the rows
  registered,     \* who holds a name in a language at WhatsApp
  client,         \* the requests
  strayed,        \* rows that two requests served at once, that were renamed,
                  \* whose name was deleted for another, or that lost a call
  upheavals       \* renamings, lost calls and statements, exits of the process

templateVars == <<served, template, registered, client, strayed, upheavals>>

Template == [life : {"new", "stored", "gone"}, slot : Slots,
             status : {"DRAFT", "PENDING_APPROVAL", "REJECTED"},
             external : BOOLEAN]
Client == [at : {"idle", "create", "write", "remove", "delete"},
           of : SUBSET Ids, slot : SUBSET Slots,
           result : {"none", "created", "refused"}]

TemplateTypeOK ==
  /\ served \in BOOLEAN
  /\ template \in [Ids -> Template]
  /\ registered \in [Slots -> SUBSET Ids]
  /\ client \in [Clients -> Client]
  /\ strayed \subseteq Ids
  /\ upheavals \in 0 .. MaxUpheavals

NoRow(life) == [life |-> life, slot |-> CHOOSE s \in Slots : TRUE,
                status |-> "DRAFT", external |-> FALSE]
Unserved == [at |-> "idle", of |-> {}, slot |-> {}, result |-> "none"]

TemplateInit ==
  /\ served \in BOOLEAN
  /\ template = [i \in Ids |-> NoRow("new")]
  /\ registered = [s \in Slots |-> {}]
  /\ client = [c \in Clients |-> Unserved]
  /\ strayed = {} /\ upheavals = 0

IsStored(i) == template[i].life = "stored"
Busy(i, stages) == \E c \in Clients : /\ client[c].at \in stages
                                      /\ i \in client[c].of
AtWork(i) == Busy(i, {"create", "write", "remove", "delete"})
\* @@unique([providerId, name, language])
Free(slot) == \A i \in Ids : IsStored(i) => template[i].slot # slot
Leaves(c) == client' = [client EXCEPT ![c] = Unserved]

-----------------------------------------------------------------------------

CreateTemplate(i, slot) ==
  /\ template[i].life = "new" /\ Free(slot)
  /\ template' = [template EXCEPT ![i].life = "stored", ![i].slot = slot]
  /\ UNCHANGED <<served, registered, client, strayed, upheavals>>

Upheaval == upheavals < MaxUpheavals /\ upheavals' = upheavals + 1

\* It may be renamed whatever its status.
UpdateTemplate(i, slot) ==
  /\ Upheaval
  /\ IsStored(i) /\ Free(slot)
  /\ template' = [template EXCEPT ![i].slot = slot]
  /\ strayed' = IF template[i].external \/ AtWork(i) THEN strayed \cup {i}
                ELSE strayed
  /\ UNCHANGED <<served, registered, client>>

Begins(c, i, at) ==
  /\ client[c].at = "idle" /\ IsStored(i)
  /\ client' = [client EXCEPT ![c] =
       [at |-> at, of |-> {i}, slot |-> {template[i].slot},
        result |-> "none"]]
  /\ strayed' = IF AtWork(i) THEN strayed \cup {i} ELSE strayed

\* Submitted again, too.
BeginSubmit(c, i) ==
  /\ Begins(c, i, IF served THEN "create" ELSE "write")
  /\ UNCHANGED <<served, template, registered, upheavals>>

Takes(c) == registered' = [s \in Slots |-> IF s \in client[c].slot
                                           THEN client[c].of
                                           ELSE registered[s]]
CreateReturns(c, result) ==
  client' = [client EXCEPT ![c].at = "write", ![c].result = result]

\* A name that is taken is refused, any other may be.
CallCreate(c) ==
  /\ client[c].at = "create"
  /\ \/ /\ \A s \in client[c].slot : registered[s] = {}
        /\ Takes(c)
        /\ CreateReturns(c, "created")
     \/ /\ CreateReturns(c, "refused")
        /\ UNCHANGED registered
  /\ UNCHANGED <<served, template, strayed, upheavals>>

\* A row that is gone is an error.
WriteSubmission(c) ==
  LET result == client[c].result
  IN  /\ client[c].at = "write"
      /\ template' = [i \in Ids |->
           IF i \in client[c].of /\ IsStored(i)
           THEN [template[i] EXCEPT
                   !.status = IF result = "refused" THEN "REJECTED"
                              ELSE "PENDING_APPROVAL",
                   !.external = @ \/ result = "created"]
           ELSE template[i]]
      /\ Leaves(c)
      /\ UNCHANGED <<served, registered, strayed, upheavals>>

\* Mutant: the provider is not told.
DeletesRowOnly(i) == "delete"

RemovalBegins(i) ==
  IF served /\ template[i].external THEN "remove" ELSE "delete"

BeginRemove(c, i) ==
  /\ Begins(c, i, RemovalBegins(i))
  /\ UNCHANGED <<served, template, registered, upheavals>>

NameOf(slot) == slot[1]

CallDelete(c) ==
  LET hit == {s \in Slots : \E t \in client[c].slot : NameOf(s) = NameOf(t)}
  IN  /\ client[c].at = "remove"
      /\ registered' = [s \in Slots |-> IF s \in hit THEN {}
                                        ELSE registered[s]]
      /\ strayed' = strayed \cup
           {i \in Ids \ client[c].of : \E s \in hit : i \in registered[s]}
      /\ client' = [client EXCEPT ![c].at = "delete"]
      /\ UNCHANGED <<served, template, upheavals>>

DeleteTemplate(c) ==
  /\ client[c].at = "delete"
  /\ template' = [i \in Ids |-> IF i \in client[c].of /\ IsStored(i)
                                THEN NoRow("gone") ELSE template[i]]
  /\ Leaves(c)
  /\ UNCHANGED <<served, registered, strayed, upheavals>>

-----------------------------------------------------------------------------

Loses(rows) == Upheaval /\ strayed' = strayed \cup rows

\* WhatsApp registered it and the answer is lost: refused, for the caller.
CreateIsLost(c) ==
  /\ Loses(client[c].of)
  /\ client[c].at = "create"
  /\ \A s \in client[c].slot : registered[s] = {}
  /\ Takes(c)
  /\ CreateReturns(c, "refused")
  /\ UNCHANGED <<served, template>>

\* Nobody looks at what deleteTemplate() returns.
DeleteIsRefused(c) ==
  /\ Loses(client[c].of)
  /\ client[c].at = "remove"
  /\ client' = [client EXCEPT ![c].at = "delete"]
  /\ UNCHANGED <<served, template, registered>>

\* A statement is rejected.
TemplateFails(c) ==
  /\ Loses(client[c].of)
  /\ client[c].at \in {"write", "delete"}
  /\ Leaves(c)
  /\ UNCHANGED <<served, template, registered>>

TemplatesCrash ==
  /\ Loses(UNION {client[c].of : c \in Clients})
  /\ client' = [c \in Clients |-> Unserved]
  /\ UNCHANGED <<served, template, registered>>

-----------------------------------------------------------------------------

ClientStep(c) ==
  \/ \E i \in Ids : BeginSubmit(c, i) \/ BeginRemove(c, i)
  \/ CallCreate(c)
  \/ WriteSubmission(c)
  \/ CallDelete(c)
  \/ DeleteTemplate(c)
  \/ CreateIsLost(c)
  \/ DeleteIsRefused(c)
  \/ TemplateFails(c)

TemplateNext ==
  \/ \E i \in Ids, slot \in Slots :
       CreateTemplate(i, slot) \/ UpdateTemplate(i, slot)
  \/ \E c \in Clients : ClientStep(c)
  \/ TemplatesCrash

TemplateSpec == TemplateInit /\ [][TemplateNext]_templateVars

\* WhatsApp has a template iff its row has an external id (templates.service
\* 91-101, 138-153), but for a request under way; it is so for a row
\* that two requests do not serve at once, that is not renamed once submitted,
\* whose name is not deleted for another, and for which no call is lost.
RowsMatchProvider ==
  \A i \in Ids \ strayed :
    LET claimed == IsStored(i) /\ template[i].external
        held == \E s \in Slots : i \in registered[s]
    IN  /\ held /\ ~claimed => Busy(i, {"write"})
        /\ claimed /\ i \notin registered[template[i].slot] =>
             Busy(i, {"delete"})
=============================================================================
