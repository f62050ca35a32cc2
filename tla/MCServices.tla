------------------------------ MODULE MCServices ------------------------------
(* The smaller services of the API and what the portal makes of them, checked *)
(* by one run: each behaviour is one of one part, the others stand still in    *)
(* one initial state. They share no state; where one calls another, the call   *)
(* is in its module with all the outcomes the other may have.                  *)
EXTENDS ProactiveHints, Finance, PushSubscriptions, DocumentTags,
        PortalPages, BootstrapView, AssistantChat

CONSTANTS ticket, mail, document

\* A mail and a document with the same number; tickets have numbers nothing else has.
MCItems == {ticket, mail, document}
MCSourceOf ==
    [i \in MCItems |-> CASE i = ticket -> "ticket" [] i = mail -> "mail" [] OTHER -> "document"]
MCRefOf == [i \in MCItems |-> IF i = ticket THEN 2 ELSE 1]

VARIABLE focus

MCInit ==
    /\ HintsInit /\ FinanceInit /\ PushInit /\ TagsInit /\ PageInit /\ ViewInit /\ ChatInit
    /\ focus \in {"hints", "finance", "push", "tags", "pages", "view", "chat"}
    /\ focus # "pages" => page = DocViewerPage

MCNext ==
    /\ UNCHANGED focus
    /\ \/ focus = "hints" /\ HintsNext
          /\ UNCHANGED <<financeVars, pushVars, tagVars, pageVars, viewVars, chatVars>>
       \/ focus = "finance" /\ FinanceNext
          /\ UNCHANGED <<hintVars, pushVars, tagVars, pageVars, viewVars, chatVars>>
       \/ focus = "push" /\ PushNext
          /\ UNCHANGED <<hintVars, financeVars, tagVars, pageVars, viewVars, chatVars>>
       \/ focus = "tags" /\ TagsNext
          /\ UNCHANGED <<hintVars, financeVars, pushVars, pageVars, viewVars, chatVars>>
       \/ focus = "pages" /\ PageNext
          /\ UNCHANGED <<hintVars, financeVars, pushVars, tagVars, viewVars, chatVars>>
       \/ focus = "view" /\ ViewNext
          /\ UNCHANGED <<hintVars, financeVars, pushVars, tagVars, pageVars, chatVars>>
       \/ focus = "chat" /\ ChatNext
          /\ UNCHANGED <<hintVars, financeVars, pushVars, tagVars, pageVars, viewVars>>

MCSpec ==
    MCInit /\ [][MCNext]_<<hintVars, financeVars, pushVars, tagVars,
                         pageVars, viewVars, chatVars, focus>>

\* Every variable of the part that moves has its type; those of the others keep a value
\* they have in an initial state of a behaviour in which theirs moves.
AllTypesOK ==
    /\ focus = "hints" => HintsTypeOK
    /\ focus = "finance" => FinanceTypeOK
    /\ focus = "push" => PushTypeOK
    /\ focus = "tags" => TagsTypeOK
    /\ focus = "pages" => PageTypeOK
    /\ focus = "view" => ViewTypeOK
    /\ focus = "chat" => ChatTypeOK

=============================================================================
