---------------------------- MODULE TransferPage ----------------------------
(***************************************************************************)
(* The transfer page of one client: the form, the panel of his              *)
(* beneficiaries with its two modals, and BeneficiariesController with its   *)
(* service.  The transfer itself is Transfers.tla; here it is one step.      *)
(*                                                                         *)
(* A modal may be closed while its request is under way; the answer then     *)
(* still does what it does for an open one: an added beneficiary becomes     *)
(* the destination of the form.  A beneficiary is named by his IBAN, which   *)
(* never changes and which UNIQUE (user_id, iban) keeps single.              *)
(***************************************************************************)
EXTENDS Naturals, FiniteSets

CONSTANTS
    Ibans,              \* IBANs the client may enter
    OwnAccounts,        \* his accounts; one is the source when the page opens
    Labels,             \* labels a beneficiary may get
    PageBounds,         \* bounds: panel gestures, form gestures, transfers, troubles
    NoIban              \* the empty field, and no label

ASSUME TransferPageAssumption ==
    /\ OwnAccounts # {} /\ Ibans # {} /\ Labels # {}
    /\ NoIban \notin Labels

VARIABLES
    beneficiaries,  \* rows of the client: the label of each IBAN, or NoIban
    transferred,    \* how many transfers were executed
    panel,          \* list shown, the open modal
    transferForm,   \* source, destination
    calls,          \* requests under way
    pageLog         \* history, and what is left of the bounds

transferVars == <<beneficiaries, transferred, panel, transferForm, calls, pageLog>>

Destinations == OwnAccounts \cup Ibans \cup {NoIban}
Gestures(what) ==
    /\ pageLog.left[what] > 0
    /\ pageLog' = [pageLog EXCEPT !.left[what] = @ - 1]
OpenCall(kind) == {c \in calls : c.kind = kind /\ ~c.shut}
Call(kind, iban, label) ==
    [kind |-> kind, iban |-> iban, label |-> label, stage |-> "sent", got |-> NoIban,
     shut |-> FALSE, old |-> FALSE]

-----------------------------------------------------------------------------
(* BeneficiariesService; every answer that carries rows is what it read *)

\* A change makes the answers given before it, and not yet shown, old ones.
Overtaken(others) == {[c EXCEPT !.old = @ \/ c.stage = "served"] : c \in others}
Serve(c, stage, got) ==
    /\ c \in calls /\ c.stage = "sent"
    /\ calls' = (IF beneficiaries' = beneficiaries THEN calls \ {c} ELSE Overtaken(calls \ {c}))
                \cup {[c EXCEPT !.stage = stage, !.got = got]}
    /\ UNCHANGED <<panel, transferForm, pageLog>>

ServeBeneficiaries(c) ==
    /\ c.kind = "list"
    /\ UNCHANGED <<beneficiaries, transferred>>
    /\ Serve(c, "served", beneficiaries)

\* create: the row found, or the UNIQUE constraint for the one that came in between.
ServeCreate(c) ==
    /\ c.kind = "add" /\ beneficiaries[c.iban] = NoIban
    /\ beneficiaries' = [beneficiaries EXCEPT ![c.iban] = c.label]
    /\ UNCHANGED transferred
    /\ Serve(c, "served", NoIban)

\* updateLabel reads the row and then saves it, which makes it again when it has been
\* deleted in between.
FindBeneficiary(c) ==
    /\ c.kind = "edit" /\ beneficiaries[c.iban] # NoIban
    /\ UNCHANGED <<beneficiaries, transferred>>
    /\ Serve(c, "found", NoIban)

SaveLabel(c) ==
    /\ c \in calls /\ c.stage = "found"
    /\ beneficiaries' = [beneficiaries EXCEPT ![c.iban] = c.label]
    /\ calls' = Overtaken(calls \ {c}) \cup {[c EXCEPT !.stage = "served"]}
    /\ pageLog' = [pageLog EXCEPT !.revived = @ \/ beneficiaries[c.iban] = NoIban]
    /\ UNCHANGED <<transferred, panel, transferForm>>

ServeDelete(c) ==
    /\ c.kind = "delete" /\ beneficiaries[c.iban] # NoIban
    /\ beneficiaries' = [beneficiaries EXCEPT ![c.iban] = NoIban]
    /\ UNCHANGED transferred
    /\ Serve(c, "served", NoIban)

\* BENEFICIARY_ALREADY_EXISTS and BENEFICIARY_NOT_FOUND.
ServeRefusal(c) ==
    /\ \/ c.kind = "add" /\ beneficiaries[c.iban] # NoIban
       \/ c.kind \in {"edit", "delete"} /\ beneficiaries[c.iban] = NoIban
    /\ UNCHANGED <<beneficiaries, transferred>>
    /\ Serve(c, "refused", NoIban)

\* InitiateTransferUseCase: refused for two times the same account, and for any other
\* reason of its own.
ServeTransfer(c) ==
    /\ c.kind = "transfer"
    /\ UNCHANGED beneficiaries
    /\ \/ /\ c.iban \notin {c.label, NoIban}
          /\ transferred' = transferred + 1
          /\ Serve(c, "served", NoIban)
       \/ UNCHANGED transferred /\ Serve(c, "refused", NoIban)

-----------------------------------------------------------------------------
(* BeneficiariesPanel and its modals *)

OpenModal(what) ==
    /\ panel.modal # what
    /\ Gestures("panel")
    /\ panel' = [panel EXCEPT !.modal = what]
    /\ UNCHANGED <<beneficiaries, transferred, transferForm, calls>>

\* Cancel is not disabled while a request is under way.
CloseModal ==
    /\ panel.modal # "none"
    /\ panel' = [panel EXCEPT !.modal = "none"]
    /\ calls' = {[c EXCEPT !.shut = @ \/ c.kind \in {"add", "edit", "delete"}] : c \in calls}
    /\ UNCHANGED <<beneficiaries, transferred, transferForm, pageLog>>

AddBeneficiary(iban, label) ==
    /\ panel.modal = "add" /\ OpenCall("add") = {}
    /\ Gestures("panel")
    /\ calls' = calls \cup {Call("add", iban, label)}
    /\ UNCHANGED <<beneficiaries, transferred, panel, transferForm>>

\* The modal is opened on a beneficiary of the list.
ChangeBeneficiary(kind, iban, label) ==
    /\ panel.modal = "edit" /\ OpenCall("edit") \cup OpenCall("delete") = {}
    /\ panel.list[iban] # NoIban /\ label # panel.list[iban]
    /\ Gestures("panel")
    /\ calls' = calls \cup {Call(kind, iban, IF kind = "delete" THEN NoIban ELSE label)}
    /\ UNCHANGED <<beneficiaries, transferred, panel, transferForm>>

\* handleCreated: the modal closes, also one opened since; the new beneficiary joins the
\* list and becomes the destination; and the list is read again.
ArriveCreated(c) ==
    /\ c.kind = "add" /\ c.stage = "served"
    /\ panel' = [list |-> [panel.list EXCEPT ![c.iban] = c.label], modal |-> "none"]
    /\ transferForm' = [transferForm EXCEPT !.destination = c.iban]
    /\ calls' = {[d EXCEPT !.shut = @ \/ d.kind \in {"add", "edit", "delete"}] : d \in calls \ {c}}
                \cup {Call("list", NoIban, NoIban)}
    /\ pageLog' = [pageLog EXCEPT !.chosen = IF c.shut THEN @ ELSE c.iban,
                                  !.surprised = c.shut, !.crossed = @ \/ c.old]
    /\ UNCHANGED <<beneficiaries, transferred>>

\* handleUpdated and handleDeleted.
ArriveChanged(c) ==
    /\ c.kind \in {"edit", "delete"} /\ c.stage = "served"
    /\ panel' = [list |-> [i \in Ibans |-> IF i = c.iban /\ panel.list[i] # NoIban
                                           THEN c.label ELSE panel.list[i]],
                 modal |-> "none"]
    /\ calls' = {[d EXCEPT !.shut = @ \/ d.kind \in {"add", "edit", "delete"}] : d \in calls \ {c}}
    /\ pageLog' = [pageLog EXCEPT !.crossed = @ \/ c.old]
    /\ UNCHANGED <<beneficiaries, transferred, transferForm>>

\* refresh: the answer replaces the list, whatever came since.
ArriveBeneficiaries(c) ==
    /\ c.kind = "list" /\ c.stage = "served"
    /\ panel' = [panel EXCEPT !.list = c.got]
    /\ calls' = calls \ {c}
    /\ pageLog' = [pageLog EXCEPT !.crossed = c.old]
    /\ UNCHANGED <<beneficiaries, transferred, transferForm>>

\* Refused by the server, or the answer is lost: an error, and nothing else changes.
ArriveError(c) ==
    /\ c \in calls
    /\ \/ c.stage = "refused" /\ UNCHANGED pageLog
       \/ /\ pageLog.left["troubles"] > 0
          /\ pageLog' = [pageLog EXCEPT !.left["troubles"] = @ - 1,
                            !.unheard = @ \/ c.kind # "transfer",
                            !.untold = IF c.kind = "transfer" /\ c.stage = "served" THEN @ + 1 ELSE @]
    /\ calls' = calls \ {c}
    /\ UNCHANGED <<beneficiaries, transferred, panel, transferForm>>

-----------------------------------------------------------------------------
(* The form *)

SelectSource(a) ==
    /\ a # transferForm.source
    /\ Gestures("form")
    /\ transferForm' = [transferForm EXCEPT !.source = a]
    /\ UNCHANGED <<beneficiaries, transferred, panel, calls>>

\* The list of destinations, the IBAN field, or a click on a beneficiary shown; a source
\* is not offered, but stays the destination when it becomes the source afterwards.
ChooseDestination(d) ==
    /\ d \notin {transferForm.source, transferForm.destination}
    /\ pageLog.left["form"] > 0
    /\ pageLog' = [pageLog EXCEPT !.left["form"] = @ - 1, !.chosen = d, !.surprised = FALSE]
    /\ transferForm' = [transferForm EXCEPT !.destination = d]
    /\ UNCHANGED <<beneficiaries, transferred, panel, calls>>

\* handleSubmit, with the fields of the click; the button waits for the answer.
SubmitTransfer ==
    /\ OpenCall("transfer") = {}
    /\ Gestures("transfers")
    /\ calls' = calls \cup {Call("transfer", transferForm.destination, transferForm.source)}
    /\ UNCHANGED <<beneficiaries, transferred, panel, transferForm>>

ArriveTransferred(c) ==
    /\ c.kind = "transfer" /\ c.stage = "served"
    /\ calls' = calls \ {c}
    /\ pageLog' = [pageLog EXCEPT !.told = @ + 1]
    /\ UNCHANGED <<beneficiaries, transferred, panel, transferForm>>

-----------------------------------------------------------------------------
TransferPageInit ==
    LET a == CHOOSE x \in OwnAccounts : TRUE
        none == [i \in Ibans |-> NoIban]
    IN  /\ beneficiaries = [none EXCEPT ![CHOOSE i \in Ibans : TRUE] = CHOOSE l \in Labels : TRUE]
        /\ transferred = 0
        /\ panel = [list |-> none, modal |-> "none"]
        /\ transferForm = [source |-> a, destination |-> NoIban]
        /\ calls = {Call("list", NoIban, NoIban)}
        /\ \E b \in PageBounds :
              pageLog = [left |-> b, chosen |-> NoIban, surprised |-> FALSE, crossed |-> FALSE,
                         unheard |-> FALSE, revived |-> FALSE, told |-> 0, untold |-> 0]

ServeCall(c) ==
    \/ ServeBeneficiaries(c) \/ ServeCreate(c) \/ FindBeneficiary(c) \/ SaveLabel(c)
    \/ ServeDelete(c) \/ ServeRefusal(c) \/ ServeTransfer(c)
ArriveCall(c) ==
    \/ ArriveCreated(c) \/ ArriveChanged(c) \/ ArriveBeneficiaries(c) \/ ArriveError(c)
    \/ ArriveTransferred(c)

TransferPageNext ==
    \/ \E c \in calls : ServeCall(c) \/ ArriveCall(c)
    \/ \E what \in {"add", "edit"} : OpenModal(what)
    \/ CloseModal
    \/ \E i \in Ibans, l \in Labels :
          \/ AddBeneficiary(i, l)
          \/ \E kind \in {"edit", "delete"} : ChangeBeneficiary(kind, i, l)
    \/ \E a \in OwnAccounts : SelectSource(a)
    \/ \E d \in Destinations : ChooseDestination(d)
    \/ SubmitTransfer

TransferPageSpec == TransferPageInit /\ [][TransferPageNext]_transferVars

-----------------------------------------------------------------------------
\* The destination of the form is the one the client chose last, or the beneficiary he
\* added since: but when the addition of a modal he had closed ends afterwards.
DestinationIsChosen == transferForm.destination = pageLog.chosen \/ pageLog.surprised

\* Once nothing is under way, the panel shows the beneficiaries there are: but when an
\* answer was given before a change and shown after it, or was lost, or when a new label
\* brought back a beneficiary deleted since it was read.
PanelCatchesUp ==
    calls = {} =>
        panel.list = beneficiaries \/ pageLog.crossed \/ pageLog.unheard \/ pageLog.revived

\* A transfer the page sent is executed once and told to the client, or its answer was
\* lost: he is then told that it failed, with the amount still in the form.
TransfersAreTold ==
    transferred = pageLog.told + pageLog.untold
                  + Cardinality({c \in calls : c.kind = "transfer" /\ c.stage = "served"})

-----------------------------------------------------------------------------
(* The inductive invariant, from which ScreensProofs has the properties *)

RowLabels == Labels \cup {NoIban}
CallRecord(c) ==
    /\ c = [kind |-> c.kind, iban |-> c.iban, label |-> c.label, stage |-> c.stage,
            got |-> c.got, shut |-> c.shut, old |-> c.old]
    /\ c.shut \in BOOLEAN /\ c.old \in BOOLEAN
    /\ c.kind \in {"add", "edit", "delete", "list", "transfer"}
    /\ c.stage \in {"sent", "found", "served", "refused"}
    /\ c.kind \in {"add", "edit", "delete"} => c.iban \in Ibans
    /\ c.kind \in {"add", "edit"} => c.label \in Labels
    /\ c.kind = "delete" => c.label = NoIban
    /\ c.kind = "list" => c.stage # "refused"
    /\ c.kind = "list" /\ c.stage = "served" => c.got \in [Ibans -> RowLabels]
    /\ c.stage = "found" => c.kind = "edit"
    /\ c.kind = "transfer" => ~c.shut

TransferTypeOK ==
    /\ beneficiaries \in [Ibans -> RowLabels]
    /\ transferred \in Nat
    /\ panel = [list |-> panel.list, modal |-> panel.modal]
    /\ panel.list \in [Ibans -> RowLabels]
    /\ transferForm = [source |-> transferForm.source, destination |-> transferForm.destination]
    /\ \A c \in calls : CallRecord(c)
    /\ pageLog = [left |-> pageLog.left, chosen |-> pageLog.chosen, surprised |-> pageLog.surprised,
                  crossed |-> pageLog.crossed, unheard |-> pageLog.unheard,
                  revived |-> pageLog.revived, told |-> pageLog.told, untold |-> pageLog.untold]
    /\ pageLog.told \in Nat /\ pageLog.untold \in Nat
    /\ pageLog.surprised \in BOOLEAN /\ pageLog.crossed \in BOOLEAN
    /\ pageLog.unheard \in BOOLEAN /\ pageLog.revived \in BOOLEAN

\* One transfer at a time is under way; what is executed and not yet told is that one.
OneTransfer(cs) == \A c, d \in cs : c.kind = "transfer" /\ d.kind = "transfer" => c = d
ServedTransfer(cs) == \E c \in cs : c.kind = "transfer" /\ c.stage = "served"
TransferCount == transferred = pageLog.told + pageLog.untold + (IF ServedTransfer(calls) THEN 1 ELSE 0)

\* An answer that is not old says what the rows say.
NewsIsCurrent(cs, rows) ==
    \A c \in cs : c.stage = "served" /\ ~c.old =>
        /\ c.kind = "list" => c.got = rows
        /\ c.kind \in {"add", "edit", "delete"} => rows[c.iban] = c.label

\* A beneficiary the panel does not show as he is will be put right by an answer on its way.
Mends(c, i, list) ==
    /\ c.kind \in {"add", "edit", "delete"} /\ c.stage = "served" /\ c.iban = i
    /\ c.old \/ c.kind = "add" \/ list[i] # NoIban
ListComes(cs) == \E c \in cs : c.kind = "list"
PanelComes ==
    \/ pageLog.crossed \/ pageLog.unheard \/ pageLog.revived
    \/ ListComes(calls)
    \/ \A i \in Ibans :
          panel.list[i] = beneficiaries[i] \/ \E c \in calls : Mends(c, i, panel.list)

TransferPageInv ==
    /\ TransferTypeOK
    /\ OneTransfer(calls) /\ TransferCount
    /\ NewsIsCurrent(calls, beneficiaries) /\ PanelComes
    /\ DestinationIsChosen
=============================================================================
