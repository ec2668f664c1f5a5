------------------------------- MODULE Office -------------------------------
(***************************************************************************)
(* One instance of each of four components that share no state: `part` is  *)
(* the one that moves, drawn at the start.                                 *)
(***************************************************************************)
EXTENDS CampaignQueue, Webhooks, Templates, Files

VARIABLE part

officeVars == <<part, queueVars, hookVars, templateVars, fileVars>>

OfficeInit ==
  /\ part \in {"campaigns", "webhooks", "templates", "files"}
  /\ QueueInit /\ HookInit /\ TemplateInit /\ FileInit
  \* those fixed matter to one part only
  /\ part # "campaigns" => known
  /\ part # "templates" => served

OfficeNext ==
  \/ /\ part = "campaigns" /\ QueueNext
     /\ UNCHANGED <<part, hookVars, templateVars, fileVars>>
  \/ /\ part = "webhooks" /\ HookNext
     /\ UNCHANGED <<part, queueVars, templateVars, fileVars>>
  \/ /\ part = "templates" /\ TemplateNext
     /\ UNCHANGED <<part, queueVars, hookVars, fileVars>>
  \/ /\ part = "files" /\ FileNext
     /\ UNCHANGED <<part, queueVars, hookVars, templateVars>>

OfficeSpec == OfficeInit /\ [][OfficeNext]_officeVars

\* Every variable of the four has values of its type.
OfficeTypeOK ==
  QueueTypeOK /\ HookTypeOK /\ TemplateTypeOK /\ FileTypeOK
=============================================================================
