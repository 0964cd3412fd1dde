------------------------------- MODULE Draft -------------------------------
(***************************************************************************)
(* How a ticket comes to be: the create form keeps a draft, is seeded by   *)
(* a clone, fills the Contract No by itself on the Contract flow and posts *)
(* the draft; the answer may be lost and the draft posted again.  The Pool *)
(* then hints at tickets that look like the same paper.                    *)
(***************************************************************************)
EXTENDS Naturals, FiniteSets

CONSTANTS Extra,       \* document types of the Contract flow an admin added
          Window,      \* WINDOW_DAYS
          MaxTickets,  \* bound: tickets
          MaxDrafts,   \* bound: drafts begun, blank or cloned
          MaxDays,     \* bound: days
          MaxTyped,    \* bound: types chosen and numbers typed
          MaxLost      \* bound: lost calls and answers

ASSUME DraftAssumption == {Window, MaxTickets, MaxDrafts, MaxDays, MaxTyped, MaxLost} \subseteq Nat

VARIABLES tickets,   \* tickets filed, in their order of ids: see Filed
          form,      \* the draft: its number, type, Contract No; hasty: see Choose
          opened,    \* the dialog is open
          catalogue, \* the dialog has loaded the admin's types
          wasLocked, \* wasLocked.current
          post,      \* the create under way: NoPost, or the draft it carries
          clones,    \* details asked for by "clone", on their way
          today, typed, drafts, lost

draftVars == <<tickets, form, opened, catalogue, wasLocked, post, clones, today, typed, drafts, lost>>

\* A Payment draft behaves like a General one.
Types == {"General", "Contract"} \cup Extra

\* The flow of a type by the admin's catalogue, and by the built-in groups.
FlowOfType(type) == IF type \in Extra THEN "Contract" ELSE type
KnownFlow(known, type) == IF type \in Extra /\ ~known THEN "none" ELSE FlowOfType(type)
docSource(known) == IF known THEN Types ELSE Types \ Extra

\* Numbers: none, the placeholder, and one that an applicant typed.
EMPTY(n) == [draft |-> n, type |-> "General", no |-> "none", hasty |-> FALSE]
NoPost == [at |-> "none", form |-> EMPTY(0)]

IdsOf(s) == {t.id : t \in s}

-----------------------------------------------------------------------------
contractLocked(known, f) == KnownFlow(known, f.type) = "Contract"

\* Fault: the placeholder stays when the Contract flow is left.
LockOnly(known, f, was) ==
  IF contractLocked(known, f) /\ ~was THEN [f EXCEPT !.no = "N/A", !.hasty = FALSE] ELSE f

\* The effect of the fieldset, when contractLocked has changed.
LockEffect(known, f, was) ==
  CASE contractLocked(known, f) /\ ~was -> [f EXCEPT !.no = "N/A", !.hasty = FALSE]
    [] ~contractLocked(known, f) /\ was -> [f EXCEPT !.no = "none", !.hasty = FALSE]
    [] OTHER -> f

\* Rendered in the open dialog; mounted: with it, so that the effect runs anyway.
Render(known, f) == /\ form' = LockEffect(known, f, wasLocked)
                    /\ wasLocked' = contractLocked(known, f)
                    /\ catalogue' = known
Mount(f) == /\ opened' = TRUE
            /\ form' = LockEffect(FALSE, f, FALSE)
            /\ wasLocked' = contractLocked(FALSE, f)
            /\ catalogue' = FALSE
Unmount == opened' = FALSE /\ wasLocked' = FALSE /\ catalogue' = FALSE

Typing == typed < MaxTyped /\ typed' = typed + 1
NewDraft == drafts < MaxDrafts /\ drafts' = drafts + 1

DraftInit ==
  /\ tickets = {} /\ form = EMPTY(0)
  /\ opened = FALSE /\ catalogue = FALSE /\ wasLocked = FALSE
  /\ post = NoPost /\ clones = {}
  /\ today = 0 /\ typed = 0 /\ drafts = 0 /\ lost = 0

-----------------------------------------------------------------------------
\* Opened again with the draft it was closed with.
openForm == /\ ~opened /\ Mount(form)
            /\ UNCHANGED <<tickets, post, clones, today, typed, drafts, lost>>

\* Backdrop, Escape or the cross keep the draft; "Huy" blanks it.
close == /\ opened /\ Unmount
         /\ UNCHANGED <<tickets, form, post, clones, today, typed, drafts, lost>>
discard == /\ opened /\ Unmount
           /\ NewDraft /\ form' = EMPTY(drafts')
           /\ UNCHANGED <<tickets, post, clones, today, typed, lost>>

\* The admin's document types arrive; if they do not, the built-in ones stay.
CatalogueLoads == /\ opened /\ ~catalogue /\ Render(TRUE, form)
                  /\ UNCHANGED <<tickets, opened, post, clones, today, typed, drafts, lost>>

\* hasty: a type the dialog did not know yet was left.
Choose(type) ==
  /\ opened /\ type \in docSource(catalogue) \ {form.type} /\ Typing
  /\ Render(catalogue, [form EXCEPT !.type = type,
                                    !.hasty = @ \/ KnownFlow(catalogue, form.type) = "none"])
  /\ UNCHANGED <<tickets, opened, post, clones, today, drafts, lost>>

setContractNo == /\ opened /\ ~contractLocked(catalogue, form) /\ Typing
                 /\ form' = [form EXCEPT !.no = "typed"]
                 /\ UNCHANGED <<tickets, opened, catalogue, wasLocked, post, clones, today, drafts, lost>>

-----------------------------------------------------------------------------
\* Fault: a press of the button is taken while a create is under way.
Always == TRUE

NotBusy == post = NoPost

submit == /\ opened /\ NotBusy
          /\ form.no # "none" \/ contractLocked(catalogue, form)
          /\ post' = [at |-> "asked", form |-> form]
          /\ UNCHANGED <<tickets, form, opened, catalogue, wasLocked, clones, today, typed, drafts, lost>>

\* Numbers a DCC assigned are not the applicant's to give.
normalizeContractNo(no, flow) == IF flow = "Contract" THEN "N/A" ELSE no

Filed(f) == [id |-> Cardinality(tickets) + 1, draft |-> f.draft, type |-> f.type,
             no |-> normalizeContractNo(f.no, FlowOfType(f.type)),
             day |-> today, status |-> "Submitted"]

\* A row is inserted for each call that reaches the server.
create == /\ post.at = "asked" /\ Cardinality(tickets) < MaxTickets
          /\ tickets' = tickets \cup {Filed(post.form)}
          /\ post' = [post EXCEPT !.at = "created"]
          /\ UNCHANGED <<form, opened, catalogue, wasLocked, clones, today, typed, drafts, lost>>

\* Success blanks the draft that is there by then and closes the dialog.
Created == /\ post.at = "created" /\ post' = NoPost
           /\ NewDraft /\ form' = EMPTY(drafts')
           /\ Unmount
           /\ UNCHANGED <<tickets, clones, today, typed, lost>>

\* The call or its answer is lost: the draft stays, to be posted again.
CreateFails == /\ post # NoPost /\ post' = NoPost
               /\ lost < MaxLost /\ lost' = lost + 1
               /\ UNCHANGED <<tickets, form, opened, catalogue, wasLocked, clones, today, typed, drafts>>

\* Clone: the detail is asked for; it opens the form, or replaces its draft.
\* A Contract ticket beyond its Accounting step has a number by then.
clone(t) == /\ clones = {}
            /\ \E no \in {t.no} \cup IF FlowOfType(t.type) = "Contract" /\ t.status = "Completed"
                                    THEN {"assigned"} ELSE {} :
                 clones' = clones \cup {[type |-> t.type, no |-> no]}
            /\ UNCHANGED <<tickets, form, opened, catalogue, wasLocked, post, today, typed, drafts, lost>>

openCreateFormWith(t) ==
  LET seed == [EMPTY(drafts') EXCEPT !.type = t.type, !.no = t.no,
                                 !.hasty = t.no = "N/A" /\ FlowOfType(t.type) # "Contract"] IN
  /\ NewDraft
  /\ IF opened THEN Render(catalogue, seed) /\ UNCHANGED opened ELSE Mount(seed)
  /\ clones' = clones \ {t}
  /\ UNCHANGED <<tickets, post, today, typed, lost>>

-----------------------------------------------------------------------------
\* A ticket in the Pool is withdrawn, or goes its way until it is closed.
Closed == {"Completed", "Sent to Accounting"}
Move(t, status) == /\ t.status = "Submitted"
                   /\ tickets' = (tickets \ {t}) \cup {[t EXCEPT !.status = status]}
                   /\ UNCHANGED <<form, opened, catalogue, wasLocked, post, clones, today, typed, drafts, lost>>

Tomorrow == /\ today < MaxDays /\ today' = today + 1
            /\ UNCHANGED <<tickets, form, opened, catalogue, wasLocked, post, clones, typed, drafts, lost>>

DraftNext ==
  \/ openForm \/ close \/ discard \/ CatalogueLoads \/ setContractNo
  \/ \E type \in Types : Choose(type)
  \/ submit \/ create \/ Created \/ CreateFails
  \/ \E t \in tickets : clone(t) \/ \E status \in {"Completed", "Cancelled"} : Move(t, status)
  \/ \E t \in clones : openCreateFormWith(t)
  \/ Tomorrow

DraftSpec == DraftInit /\ [][DraftNext]_draftVars
-----------------------------------------------------------------------------
(***************************************************************************)
(* The hints of the Pool                                                   *)
(***************************************************************************)
daysBetween(a, b) == IF a < b THEN b - a ELSE a - b

\* The placeholder is the absence of a number.
contractKey(no) == IF no = "N/A" THEN "none" ELSE no

\* All three keys are there and agree; the third, the team, is that of the draft.
isDuplicate(a, b) == /\ b.status # "Cancelled"
                     /\ a.type = b.type
                     /\ contractKey(a.no) # "none" /\ contractKey(a.no) = contractKey(b.no)
                     /\ daysBetween(a.day, b.day) <= Window

\* Whatever is in flight, and what was filed within the window before today.
DuplicateCandidates == {t \in tickets : /\ t.status # "Cancelled"
                                        /\ t.status \in Closed => today - t.day <= Window}
dupOf(a) == {b \in DuplicateCandidates : b.id # a.id /\ isDuplicate(a, b)}
-----------------------------------------------------------------------------
\* One draft makes one ticket, and another only for an answer that was lost.
TwinsOnlyByLoss ==
  Cardinality(tickets) <= Cardinality({t.draft : t \in tickets}) + lost

\* "a suspected re-submit": a DCC1 is warned of both twins of one draft, as long
\* as they wait in the Pool and the draft was not edited in between; the Contract
\* flow has no number to tell them by.
TwinsFlagged ==
  \A a, b \in {t \in tickets : t.status = "Submitted" /\ t.no # "N/A"} :
    /\ a.id # b.id /\ a.draft = b.draft /\ a.type = b.type /\ a.no = b.no
    /\ daysBetween(a.day, b.day) <= Window
    => b \in dupOf(a)

\* "leaving Contract -> clear the auto N/A": on another flow the placeholder is
\* never there but after a type that the dialog did not know yet was left, or in a
\* clone of what came of that.
PlaceholderLeaves ==
  opened /\ FlowOfType(form.type) # "Contract" /\ form.no = "N/A" => form.hasty

\* What the server stores in the Contract slot is the placeholder, whatever number
\* a clone brought along behind the locked field.
ClonesComeClean == \A t \in tickets : FlowOfType(t.type) = "Contract" => t.no = "N/A"

DraftSound == TwinsOnlyByLoss /\ TwinsFlagged /\ PlaceholderLeaves /\ ClonesComeClean
=============================================================================
