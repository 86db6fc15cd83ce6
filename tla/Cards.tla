------------------------------- MODULE Cards --------------------------------
(***************************************************************************)
(* The bank card of a client: the row, the requests of CardsController and  *)
(* the cards page open on several devices.  A request reads the row, looks  *)
(* at its status and saves the row it read: TypeORM's save reads the row    *)
(* again and writes each column that differs, the status too.               *)
(*                                                                         *)
(* One setting stands for the five of a card.                               *)
(***************************************************************************)
EXTENDS Naturals, FiniteSets

CONSTANTS
    Pages,          \* the cards page on a device
    CardBounds,     \* bounds: clicks, troubles
    NoCard          \* no answer yet, no card loaded

VARIABLES
    card,       \* the row of cards
    pageOf,     \* each page: what it shows of the card, saving, error or message
    ordered,    \* each page's request: nothing, or what it asks for and where it stands
    cardLog     \* history, and what is left of the bounds

cardVars == <<card, pageOf, ordered, cardLog>>

NoRequest == [kind |-> "none", stage |-> "none", to |-> NoCard, read |-> NoCard, late |-> FALSE]

PressKey ==
    /\ cardLog.left.clicks > 0
    /\ cardLog' = [cardLog EXCEPT !.left.clicks = @ - 1]

Go(p, kind, to) ==
    /\ pageOf[p].shown # NoCard /\ ordered[p].kind = "none"
    /\ PressKey
    /\ ordered' = [ordered EXCEPT ![p] = [kind |-> kind, stage |-> "sent", to |-> to,
                                          read |-> NoCard, late |-> FALSE]]
    /\ pageOf' = [pageOf EXCEPT ![p].said = ""]
    /\ UNCHANGED card

-----------------------------------------------------------------------------
(* The page *)

\* load, when the page opens and by the retry button; nothing else reads the card again.
Load(p) ==
    /\ pageOf[p].shown = NoCard
    /\ pageOf' = [pageOf EXCEPT ![p].shown = card, ![p].said = ""]
    /\ UNCHANGED <<card, ordered, cardLog>>

\* The freeze button, by the status shown.
Freeze(p) ==
    /\ pageOf[p].shown # NoCard /\ pageOf[p].shown.status # "cancelled"
    /\ Go(p, "status", IF pageOf[p].shown.status = "frozen" THEN "active" ELSE "frozen")

\* The confirmation of the opposition.
Oppose(p) ==
    /\ pageOf[p].shown # NoCard /\ pageOf[p].shown.status # "cancelled"
    /\ Go(p, "status", "cancelled")

\* changeSetting changes what the page shows, also while a request is under way.
Edit(p) ==
    /\ pageOf[p].shown # NoCard /\ pageOf[p].shown.status # "cancelled"
    /\ PressKey
    /\ pageOf' = [pageOf EXCEPT ![p].shown.setting = ~@]
    /\ UNCHANGED <<card, ordered>>

SaveSettings(p) ==
    /\ pageOf[p].shown # NoCard /\ pageOf[p].shown.status # "cancelled"
    /\ Go(p, "settings", pageOf[p].shown.setting)

-----------------------------------------------------------------------------
(* CardsController: updateStatus and updateSettings *)

\* Mutant: the status is not looked at.
FindAnyCard(p) ==
    /\ ordered[p].stage = "sent"
    /\ ordered' = [ordered EXCEPT ![p].read = card, ![p].stage = "found"]
    /\ UNCHANGED <<card, pageOf, cardLog>>

\* findOwnedCard, and the status it finds; ordered[p] becomes the refusal or the row to save.
FindOwnedCard(p) ==
    /\ ordered[p].stage = "sent"
    /\ ordered' = [ordered EXCEPT ![p].read = card,
                                  ![p].stage = IF card.status = "cancelled" THEN "refused" ELSE "found"]
    /\ UNCHANGED <<card, pageOf, cardLog>>

\* The row to save: as it was read, with what the request changes.
ToSave(r) == IF r.kind = "status" THEN [r.read EXCEPT !.status = r.to]
             ELSE [r.read EXCEPT !.setting = r.to]

SaveCard(p) ==
    /\ ordered[p].stage = "found"
    /\ card' = ToSave(ordered[p])
    /\ ordered' = [q \in Pages |->
          IF q = p THEN [ordered[p] EXCEPT !.stage = "saved", !.read = card']
          ELSE IF ordered[q].stage = "found" THEN [ordered[q] EXCEPT !.late = TRUE]
          ELSE ordered[q]]
    /\ cardLog' = [cardLog EXCEPT
          !.cancelled = @ \/ card'.status = "cancelled",
          !.overwritten = @ \/ (ordered[p].late /\ card # card')]
    /\ UNCHANGED pageOf

-----------------------------------------------------------------------------
(* The answer *)

\* replaceCard: the row of the answer, over edits not saved yet.
Answered(p) ==
    /\ ordered[p].stage = "saved"
    /\ pageOf' = [pageOf EXCEPT ![p] = [shown |-> ordered[p].read, said |-> "saved"]]
    /\ ordered' = [ordered EXCEPT ![p] = NoRequest]
    /\ UNCHANGED <<card, cardLog>>

\* Refused; the page goes on showing the card as it did.
Refused(p) ==
    /\ ordered[p].stage = "refused"
    /\ pageOf' = [pageOf EXCEPT ![p].said = "error"]
    /\ ordered' = [ordered EXCEPT ![p] = NoRequest]
    /\ UNCHANGED <<card, cardLog>>

\* The connection breaks before the request has come or after the row was saved; the page
\* shows an error either way.
Broken(p) ==
    /\ ordered[p].stage \in {"sent", "saved"}
    /\ cardLog.left.troubles > 0
    /\ cardLog' = [cardLog EXCEPT !.left.troubles = @ - 1]
    /\ pageOf' = [pageOf EXCEPT ![p].said = "error"]
    /\ ordered' = [ordered EXCEPT ![p] = NoRequest]
    /\ UNCHANGED card

\* The page is opened anew.
Reopen(p) ==
    /\ pageOf[p].shown # NoCard /\ ordered[p].kind = "none"
    /\ PressKey
    /\ pageOf' = [pageOf EXCEPT ![p] = [shown |-> NoCard, said |-> ""]]
    /\ UNCHANGED <<card, ordered>>

-----------------------------------------------------------------------------
CardsInit ==
    /\ card = [status |-> "active", setting |-> TRUE]
    /\ pageOf = [p \in Pages |-> [shown |-> NoCard, said |-> ""]]
    /\ ordered = [p \in Pages |-> NoRequest]
    /\ \E b \in CardBounds :
          cardLog = [left |-> b, cancelled |-> FALSE, overwritten |-> FALSE]

CardsNext ==
    \E p \in Pages :
        \/ Load(p) \/ Freeze(p) \/ Oppose(p) \/ Edit(p) \/ SaveSettings(p) \/ Reopen(p)
        \/ FindOwnedCard(p) \/ SaveCard(p) \/ Answered(p) \/ Refused(p) \/ Broken(p)

CardsSpec == CardsInit /\ [][CardsNext]_cardVars

\* A cancelled card stays cancelled, also for a page that still shows it active (the
\* dialog of CardsPage says "irréversible"): but when a request that had read the row
\* before another one saved it writes it back.
CancelledStays ==
    cardLog.cancelled => card.status = "cancelled" \/ cardLog.overwritten

-----------------------------------------------------------------------------
(* The inductive invariant, from which ScreensProofs has the properties *)

CardRow(r) == r = [status |-> r.status, setting |-> r.setting]
Asked(r) ==
    /\ r.late \in BOOLEAN
    /\ r = [kind |-> r.kind, stage |-> r.stage, to |-> r.to, read |-> r.read, late |-> r.late]

CardTypeOK ==
    /\ CardRow(card)
    /\ DOMAIN ordered = Pages /\ \A p \in Pages : Asked(ordered[p])
    /\ cardLog = [left |-> cardLog.left, cancelled |-> cardLog.cancelled,
                  overwritten |-> cardLog.overwritten]
    /\ cardLog.cancelled \in BOOLEAN /\ cardLog.overwritten \in BOOLEAN

\* The row a request is about to save was not cancelled; it is the row of the table, unless
\* another request has saved since.
FoundIsCurrent ==
    \A p \in Pages :
        ordered[p].stage = "found" =>
            /\ CardRow(ordered[p].read)
            /\ ~ordered[p].late => ordered[p].read = card /\ card.status # "cancelled"

CardInv == CardTypeOK /\ FoundIsCurrent /\ CancelledStays
=============================================================================
