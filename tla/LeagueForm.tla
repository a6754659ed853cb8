----------------------------- MODULE LeagueForm -----------------------------
(***************************************************************************)
(* league.js, in the browser of a visitor: the selectors of a league page. *)
(* Each change of the event asks the server for the years of its leagues,  *)
(* EventLeagueHandler::handleRequestGetYearsPage, and lets the visitor go  *)
(* on meanwhile.  Whatever reply comes is put into the selector, whichever *)
(* event it was asked for; a reply that does not come changes nothing.     *)
(***************************************************************************)
EXTENDS LeaguePages, SequencesExt

CONSTANT MaxAsked    \* bound: requests for years on the way at once

ASSUME AskedAssumption == MaxAsked \in Nat \ {0}

VARIABLES
    form,     \* the selectors, and the event whose years they offer
    asked     \* the requests for years, in order, until they are received

formVars == <<siteVars, form, asked>>

NoForm == [loaded |-> FALSE, selected |-> NoPage.event,
           years |-> {}, yearsOf |-> {}, inOrder |-> TRUE]

FormInit ==
    /\ SiteInit
    /\ form = NoForm
    /\ asked = <<>>

Request(e) == [event |-> e, answered |-> FALSE, years |-> {}]

-----------------------------------------------------------------------------
(* The page is there, with its script: getYearsForEvent.                   *)
Load ==
    /\ page.at \in {"shown", "started"} /\ ~form.loaded
    /\ form' = [NoForm EXCEPT !.loaded = TRUE, !.selected = page.event]
    /\ asked' = <<Request(page.event)>>
    /\ UNCHANGED siteVars

(* Mutant: no request while another one is on the way.                     *)
ChangeEventOnce(e) ==
    /\ form.loaded /\ e # form.selected
    /\ form' = [form EXCEPT !.selected = e]
    /\ asked' = IF asked = <<>> THEN <<Request(e)>> ELSE asked
    /\ UNCHANGED siteVars

ChangeEvent(e) ==
    /\ form.loaded /\ e # form.selected
    /\ Len(asked) < MaxAsked
    /\ form' = [form EXCEPT !.selected = e]
    /\ asked' = Append(asked, Request(e))
    /\ UNCHANGED siteVars

AnswerYears(i) ==
    /\ ~asked[i].answered
    /\ asked' = [asked EXCEPT ![i].answered = TRUE, ![i].years = LeaguesOf(asked[i].event)]
    /\ UNCHANGED <<siteVars, form>>

(* Mutant: the years before are not taken out of the selector.             *)
ReceiveMore(i) ==
    /\ asked[i].answered
    /\ form' = [form EXCEPT !.years = @ \cup asked[i].years,
                            !.yearsOf = {asked[i].event},
                            !.inOrder = @ /\ i = 1]
    /\ asked' = RemoveAt(asked, i)
    /\ UNCHANGED siteVars

Receive(i) ==
    /\ asked[i].answered
    /\ form' = [form EXCEPT !.years = asked[i].years,
                            !.yearsOf = {asked[i].event},
                            !.inOrder = @ /\ i = 1]
    /\ asked' = RemoveAt(asked, i)
    /\ UNCHANGED siteVars

(* Request or reply is lost, or the reply is not a list of years.          *)
Lose(i) ==
    /\ form' = [form EXCEPT !.inOrder = FALSE]
    /\ asked' = RemoveAt(asked, i)
    /\ UNCHANGED siteVars

(* Mutant: the replies for a page that was left come to the next one.      *)
UnloadForm ==
    /\ form' = NoForm
    /\ UNCHANGED asked

(* The page is left for another one, the script's state with it.           *)
Unload ==
    /\ form' = NoForm
    /\ asked' = <<>>

(* The selector without years gives no number.                             *)
Go ==
    /\ form.loaded
    /\ \E y \in IF form.years = {} THEN {AnyYear} ELSE form.years :
           Open(form.selected, y)
    /\ Unload

Visit == (\E e \in Events : Open(e, AnyYear)) /\ Unload

FollowRow == (\E a \in Athletes : OpenCard(a)) /\ Unload

Server ==
    /\ Harvest \/ PublishLeague \/ PageStep \/ CardStep
    /\ UNCHANGED <<form, asked>>

FormNext ==
    \/ Server
    \/ Visit
    \/ FollowRow
    \/ Load
    \/ Go
    \/ \E e \in Events : ChangeEvent(e)
    \/ \E i \in DOMAIN asked : AnswerYears(i) \/ Receive(i) \/ Lose(i)

FormSpec == FormInit /\ [][FormNext]_formVars

FairFormSpec ==
    /\ FormSpec
    /\ \A e \in Events : WF_rowVars(Step(e))

-----------------------------------------------------------------------------
(* Properties.                                                             *)

(* The selectors hold events and their years, and only a page whose script *)
(* is loaded waits for replies.                                            *)
FormTypeOK ==
    /\ form.loaded \in BOOLEAN /\ form.inOrder \in BOOLEAN
    /\ form.selected \in Events /\ form.yearsOf \subseteq Events
    /\ form.years \subseteq Years
    /\ asked \in Seq([event : Events, answered : BOOLEAN, years : SUBSET Years])
    /\ Len(asked) <= MaxAsked
    /\ form.loaded = FALSE => asked = <<>>

(* Unless a reply was lost or overtaken, the years offered when no reply   *)
(* is awaited are those of the event that is selected.                     *)
YearsFollowEvent ==
    form.loaded /\ asked = <<>> /\ form.inOrder => form.yearsOf = {form.selected}

(* Every year that is offered has a league of the event it was asked for,  *)
(* though the harvests publish while the reply is on its way.              *)
OfferedYearsHaveLeagues ==
    \A e \in form.yearsOf : form.years \subseteq LeaguesOf(e)

=============================================================================
