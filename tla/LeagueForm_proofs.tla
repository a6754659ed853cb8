-------------------------- MODULE LeagueForm_proofs --------------------------
(***************************************************************************)
(* The selectors of a league page, for any number of events, of requests   *)
(* on the way and of harvests that publish meanwhile.                      *)
(***************************************************************************)
EXTENDS LeagueForm, LeaguePages_proofs, SequenceTheorems

Forms == [loaded : BOOLEAN, selected : Events, years : SUBSET Years,
          yearsOf : SUBSET Events, inOrder : BOOLEAN]

Requests == [event : Events, answered : BOOLEAN, years : SUBSET Years]

FormTypes ==
    /\ form \in Forms
    /\ asked \in Seq(Requests)
    /\ Len(asked) <= MaxAsked
    /\ form.loaded = FALSE => asked = <<>>

(* As long as the replies come in order, the last of them is the one for   *)
(* the event that is selected.                                             *)
LastIsSelected ==
    form.loaded /\ form.inOrder =>
        IF asked = <<>>
        THEN form.yearsOf = {form.selected}
        ELSE asked[Len(asked)].event = form.selected

(* A reply on its way was true when it was given, and leagues are not      *)
(* taken back.                                                             *)
RepliesHaveLeagues ==
    \A i \in 1 .. Len(asked) :
        asked[i].answered => asked[i].years \subseteq LeaguesOf(asked[i].event)

FormInv ==
    /\ SiteInv
    /\ FormTypes
    /\ LastIsSelected
    /\ RepliesHaveLeagues
    /\ OfferedYearsHaveLeagues

-----------------------------------------------------------------------------
(* What is left of the requests when one of them is taken out.             *)
LEMMA RemoveAtProperties ==
    ASSUME NEW S, NEW s \in Seq(S), NEW i \in 1 .. Len(s)
    PROVE  /\ RemoveAt(s, i) \in Seq(S)
           /\ Len(RemoveAt(s, i)) = Len(s) - 1
           /\ \A j \in 1 .. Len(s) - 1 :
                 RemoveAt(s, i)[j] = IF j < i THEN s[j] ELSE s[j + 1]
<1> DEFINE before == SubSeq(s, 1, i - 1)
           after  == SubSeq(s, i + 1, Len(s))
<1>1. Len(s) \in Nat /\ \A j \in 1 .. Len(s) : s[j] \in S
  BY LenProperties, ElementOfSeq
<1>2. /\ before \in Seq(S) /\ Len(before) = i - 1
      /\ \A j \in 1 .. i - 1 : before[j] = s[j]
  <2>1. \A j \in 1 .. i - 1 : s[j] \in S
    BY <1>1
  <2> QED
    BY <1>1, <2>1, SubSeqProperties
<1>3. /\ after \in Seq(S) /\ Len(after) = Len(s) - i
      /\ \A j \in 1 .. Len(s) - i : after[j] = s[i + j]
  <2>1. \A j \in i + 1 .. Len(s) : s[j] \in S
    BY <1>1
  <2> QED
    BY <1>1, <2>1, SubSeqProperties
<1> HIDE DEF before, after
<1>4. /\ before \o after \in Seq(S)
      /\ Len(before \o after) = Len(s) - 1
      /\ \A j \in 1 .. Len(s) - 1 : (before \o after)[j] =
             IF j <= i - 1 THEN before[j] ELSE after[j - (i - 1)]
  <2>1. /\ before \o after \in Seq(S)
        /\ Len(before \o after) = Len(before) + Len(after)
        /\ \A j \in 1 .. Len(before) + Len(after) : (before \o after)[j] =
               IF j <= Len(before) THEN before[j] ELSE after[j - Len(before)]
    <3>1. before \in Seq(S) /\ after \in Seq(S)
      BY <1>2, <1>3
    <3> QED
      BY <3>1, ConcatProperties
  <2>2. Len(before) = i - 1 /\ Len(before) + Len(after) = Len(s) - 1
    BY <1>1, <1>2, <1>3
  <2> QED
    BY <2>1, <2>2
<1>5. RemoveAt(s, i) = before \o after
  BY DEF RemoveAt, before, after
<1>6. ASSUME NEW j \in 1 .. Len(s) - 1
      PROVE  RemoveAt(s, i)[j] = IF j < i THEN s[j] ELSE s[j + 1]
  <2>1. CASE j < i
    BY <1>1, <1>2, <1>4, <1>5, <2>1
  <2>2. CASE ~(j < i)
    <3>1. j - (i - 1) \in 1 .. Len(s) - i /\ i + (j - (i - 1)) = j + 1
      BY <1>1, <2>2
    <3> QED
      BY <1>1, <1>3, <1>4, <1>5, <2>2, <3>1
  <2> QED
    BY <2>1, <2>2
<1> QED
  BY <1>4, <1>5, <1>6

(* A league that has been published is there for good.                     *)
LEMMA LeaguesStay ==
    ASSUME SiteInv, [SiteNext]_siteVars, NEW e \in Events
    PROVE  LeaguesOf(e) \subseteq {y \in Years : league'[<<e, y>>] # {}}
<1>1. league \in [Events \X Years -> SUBSET stored]
  BY DEF SiteInv, PagesTypeOK
<1>2. CASE PublishLeague
  <2>1. PICK f \in Events, z \in Years, counted \in SUBSET stored : Publish(f, z, counted)
    BY <1>2 DEF PublishLeague
  <2>2. counted # {} /\ league' = [league EXCEPT ![<<f, z>>] = counted]
    BY <2>1 DEF Publish
  <2> QED
    BY <1>1, <2>2 DEF LeaguesOf
<1>3. CASE ~PublishLeague
  <2>1. league' = league
    BY <1>3 DEF SiteNext, siteVars, Harvest, Open, OpenCard, PageStep, FetchLeagues,
                FetchNoLeague, FetchItems, NoFirstDay, FetchAthletes, CardStep, ReadAthlete,
                ReadLeagues, ReadItem, CutCard, ReadResults, EndCard
  <2> QED
    BY <2>1 DEF LeaguesOf
<1> QED
  BY <1>2, <1>3

-----------------------------------------------------------------------------
(* Every step of the form is one of the site, or leaves the site alone.    *)
LEMMA FormStepIsSiteStep ==
    ASSUME FormInv, [FormNext]_formVars
    PROVE  [SiteNext]_siteVars
<1>1. CASE Server
  BY <1>1 DEF Server, SiteNext
<1>2. CASE Visit
  BY <1>2 DEF Visit, SiteNext
<1>3. CASE FollowRow
  BY <1>3 DEF FollowRow, SiteNext
<1>4. CASE Go
  <2>1. form.selected \in Events /\ form.years \subseteq Years
    BY DEF FormInv, FormTypes, Forms
  <2>2. PICK y \in IF form.years = {} THEN {AnyYear} ELSE form.years : Open(form.selected, y)
    BY <1>4 DEF Go
  <2>3. y \in Years \cup {AnyYear}
    BY <2>1, <2>2
  <2> QED
    BY <2>1, <2>2, <2>3 DEF SiteNext
<1>5. CASE Load \/ \E e \in Events : ChangeEvent(e)
  BY <1>5 DEF Load, ChangeEvent
<1>6. CASE \E i \in DOMAIN asked : AnswerYears(i) \/ Receive(i) \/ Lose(i)
  BY <1>6 DEF AnswerYears, Receive, Lose, siteVars
<1>7. CASE UNCHANGED formVars
  BY <1>7 DEF formVars
<1> QED
  BY <1>1, <1>2, <1>3, <1>4, <1>5, <1>6, <1>7 DEF FormNext

LEMMA NoFormType == NoForm \in Forms
  BY NoPageTypes DEF NoForm, Forms

(* A page that is left or not yet there: nothing is offered or awaited.    *)
LEMMA EmptyForm ==
    ASSUME SiteInv', form' = NoForm, asked' = <<>>
    PROVE  FormInv'
<1>1. FormTypes'
  <2>1. form' \in Forms /\ asked' \in Seq(Requests) /\ Len(asked') = 0
    BY NoFormType, EmptySeq
  <2> QED
    BY <2>1, AskedAssumption DEF FormTypes
<1>2. LastIsSelected' /\ OfferedYearsHaveLeagues'
  BY DEF LastIsSelected, OfferedYearsHaveLeagues, NoForm
<1>3. RepliesHaveLeagues'
  <2>1. Len(asked') = 0
    BY EmptySeq
  <2> QED
    BY <2>1 DEF RepliesHaveLeagues
<1> QED
  BY <1>1, <1>2, <1>3 DEF FormInv

(* The server goes on; the form and what it awaits stay.                   *)
LEMMA ServerKeeps ==
    ASSUME FormInv, SiteInv', [SiteNext]_siteVars, UNCHANGED <<form, asked>>
    PROVE  FormInv'
<1>1. \A e \in Events : LeaguesOf(e) \subseteq {y \in Years : league'[<<e, y>>] # {}}
  BY LeaguesStay DEF FormInv
<1>2. FormTypes' /\ LastIsSelected'
  BY DEF FormInv, FormTypes, LastIsSelected
<1>3. OfferedYearsHaveLeagues'
  BY <1>1 DEF FormInv, FormTypes, Forms, OfferedYearsHaveLeagues, LeaguesOf
<1>4. RepliesHaveLeagues'
  <2>1. \A i \in 1 .. Len(asked) : asked[i].event \in Events
    <3>1. asked \in Seq(Requests)
      BY DEF FormInv, FormTypes
    <3>2. \A i \in 1 .. Len(asked) : asked[i] \in Requests
      BY <3>1, ElementOfSeq
    <3> QED
      BY <3>2 DEF Requests
  <2> SUFFICES ASSUME NEW i \in 1 .. Len(asked), asked[i].answered
               PROVE  asked[i].years \subseteq {y \in Years : league'[<<asked[i].event, y>>] # {}}
    BY DEF RepliesHaveLeagues, LeaguesOf
  <2>2. asked[i].years \subseteq LeaguesOf(asked[i].event)
    BY DEF FormInv, RepliesHaveLeagues
  <2> QED
    BY <1>1, <2>1, <2>2
<1> QED
  BY <1>2, <1>3, <1>4 DEF FormInv

LEMMA LoadKeeps ==
    ASSUME FormInv, SiteInv', Load
    PROVE  FormInv'
<1>1. page.event \in Events
  BY DEF FormInv, SiteInv, PagesTypeOK
<1>2. /\ form' = [NoForm EXCEPT !.loaded = TRUE, !.selected = page.event]
      /\ asked' = <<Request(page.event)>>
  BY DEF Load
<1>3. Request(page.event) \in Requests
  BY <1>1 DEF Request, Requests
<1>4. /\ asked' \in Seq(Requests) /\ Len(asked') = 1
      /\ asked'[1] = Request(page.event)
  BY <1>2, <1>3
<1>5. /\ form' \in Forms /\ form'.loaded /\ form'.selected = page.event
      /\ form'.yearsOf = {}
  BY <1>1, <1>2, NoFormType DEF NoForm, Forms
<1>6. FormTypes'
  BY <1>4, <1>5, AskedAssumption DEF FormTypes
<1>7. LastIsSelected' /\ RepliesHaveLeagues' /\ OfferedYearsHaveLeagues'
  BY <1>2, <1>4, <1>5 DEF LastIsSelected, RepliesHaveLeagues, OfferedYearsHaveLeagues, Request
<1> QED
  BY <1>6, <1>7 DEF FormInv

LEMMA ChangeEventKeeps ==
    ASSUME FormInv, SiteInv', NEW e \in Events, ChangeEvent(e)
    PROVE  FormInv'
<1>1. /\ form.loaded /\ Len(asked) < MaxAsked
      /\ form' = [form EXCEPT !.selected = e]
      /\ asked' = Append(asked, Request(e))
      /\ league' = league
  BY DEF ChangeEvent, siteVars
<1>2. /\ form \in Forms /\ asked \in Seq(Requests)
      /\ LastIsSelected /\ RepliesHaveLeagues /\ OfferedYearsHaveLeagues
  BY DEF FormInv, FormTypes
<1>3. Request(e) \in Requests
  BY DEF Request, Requests
<1>4. /\ asked' \in Seq(Requests) /\ Len(asked') = Len(asked) + 1
      /\ asked'[Len(asked) + 1] = Request(e)
      /\ \A i \in 1 .. Len(asked) : asked'[i] = asked[i]
      /\ Len(asked) \in Nat
  BY <1>1, <1>2, <1>3
<1>5. /\ form' \in Forms /\ form'.loaded /\ form'.selected = e
      /\ form'.years = form.years /\ form'.yearsOf = form.yearsOf
  BY <1>1, <1>2 DEF Forms
<1>6. FormTypes'
  BY <1>1, <1>4, <1>5, AskedAssumption DEF FormTypes
<1>7. LastIsSelected'
  <2>1. asked' # <<>>
    BY <1>4, EmptySeq
  <2> QED
    BY <1>4, <1>5, <2>1 DEF LastIsSelected, Request
<1>8. RepliesHaveLeagues'
  <2> SUFFICES ASSUME NEW i \in 1 .. Len(asked'), asked'[i].answered
               PROVE  asked'[i].years \subseteq {y \in Years : league'[<<asked'[i].event, y>>] # {}}
    BY DEF RepliesHaveLeagues, LeaguesOf
  <2>1. i \in 1 .. Len(asked)
    BY <1>4 DEF Request
  <2> QED
    BY <1>1, <1>2, <1>4, <2>1 DEF RepliesHaveLeagues, LeaguesOf
<1>9. OfferedYearsHaveLeagues'
  BY <1>1, <1>2, <1>5 DEF OfferedYearsHaveLeagues, LeaguesOf
<1> QED
  BY <1>6, <1>7, <1>8, <1>9 DEF FormInv

LEMMA AnswerKeeps ==
    ASSUME FormInv, SiteInv', NEW i \in DOMAIN asked, AnswerYears(i)
    PROVE  FormInv'
<1>1. /\ asked' = [asked EXCEPT ![i].answered = TRUE, ![i].years = LeaguesOf(asked[i].event)]
      /\ form' = form /\ league' = league
  BY DEF AnswerYears, siteVars
<1>2. /\ form \in Forms /\ asked \in Seq(Requests) /\ Len(asked) <= MaxAsked
      /\ LastIsSelected /\ RepliesHaveLeagues /\ OfferedYearsHaveLeagues
  BY DEF FormInv, FormTypes
<1>3. Len(asked) \in Nat /\ i \in 1 .. Len(asked) /\ asked[i] \in Requests
  BY <1>2, LenProperties, ElementOfSeq
<1> DEFINE r == [asked[i] EXCEPT !.answered = TRUE, !.years = LeaguesOf(asked[i].event)]
<1>4. r \in Requests /\ r.event = asked[i].event /\ r.years = LeaguesOf(asked[i].event)
  BY <1>3 DEF Requests, LeaguesOf
<1>5. asked' = [asked EXCEPT ![i] = r]
  BY <1>1, <1>2, <1>3, LenProperties DEF Requests
<1> HIDE DEF r
<1>6. /\ asked' \in Seq(Requests) /\ Len(asked') = Len(asked)
      /\ \A j \in 1 .. Len(asked) : asked'[j] = IF j = i THEN r ELSE asked[j]
  BY <1>2, <1>3, <1>4, <1>5, ExceptSeq
<1>7. asked # <<>> /\ asked' # <<>>
  BY <1>3, <1>6, EmptySeq
<1>8. FormTypes'
  BY <1>1, <1>2, <1>6, <1>7 DEF FormInv, FormTypes
<1>9. LastIsSelected'
  BY <1>1, <1>2, <1>3, <1>4, <1>6, <1>7 DEF LastIsSelected
<1>10. RepliesHaveLeagues'
  <2> SUFFICES ASSUME NEW j \in 1 .. Len(asked'), asked'[j].answered
               PROVE  asked'[j].years \subseteq {y \in Years : league'[<<asked'[j].event, y>>] # {}}
    BY DEF RepliesHaveLeagues, LeaguesOf
  <2>1. CASE j = i
    <3>1. asked'[j] = r
      BY <1>6, <2>1
    <3> QED
      BY <1>1, <1>4, <3>1 DEF LeaguesOf
  <2>2. CASE j # i
    <3>1. asked'[j] = asked[j] /\ j \in 1 .. Len(asked)
      BY <1>6, <2>2
    <3> QED
      BY <1>1, <1>2, <3>1 DEF RepliesHaveLeagues, LeaguesOf
  <2> QED
    BY <2>1, <2>2
<1>11. OfferedYearsHaveLeagues'
  BY <1>1, <1>2 DEF OfferedYearsHaveLeagues, LeaguesOf
<1> QED
  BY <1>8, <1>9, <1>10, <1>11 DEF FormInv

(* A request is not awaited any more: what holds of those that are.        *)
LEMMA RemovalKeeps ==
    ASSUME FormInv, NEW i \in DOMAIN asked, asked' = RemoveAt(asked, i), UNCHANGED siteVars
    PROVE  /\ Len(asked) \in Nat /\ i \in 1 .. Len(asked)
           /\ asked' \in Seq(Requests) /\ Len(asked') = Len(asked) - 1
           /\ asked' = <<>> <=> Len(asked) = 1
           /\ i = 1 /\ Len(asked) # 1 => asked'[Len(asked')] = asked[Len(asked)]
           /\ RepliesHaveLeagues'
<1>1. asked \in Seq(Requests) /\ RepliesHaveLeagues
  BY DEF FormInv, FormTypes
<1>2. Len(asked) \in Nat /\ i \in 1 .. Len(asked)
  BY <1>1, LenProperties
<1>3. /\ asked' \in Seq(Requests) /\ Len(asked') = Len(asked) - 1
      /\ \A j \in 1 .. Len(asked) - 1 : asked'[j] = IF j < i THEN asked[j] ELSE asked[j + 1]
  BY <1>1, <1>2, RemoveAtProperties
<1>4. asked' = <<>> <=> Len(asked) = 1
  BY <1>2, <1>3, EmptySeq
<1>5. i = 1 /\ Len(asked) # 1 => asked'[Len(asked')] = asked[Len(asked)]
  BY <1>2, <1>3
<1>6. RepliesHaveLeagues'
  <2> SUFFICES ASSUME NEW j \in 1 .. Len(asked'), asked'[j].answered
               PROVE  asked'[j].years \subseteq {y \in Years : league'[<<asked'[j].event, y>>] # {}}
    BY DEF RepliesHaveLeagues, LeaguesOf
  <2>1. PICK k \in 1 .. Len(asked) : asked'[j] = asked[k]
    BY <1>2, <1>3
  <2>2. league' = league
    BY DEF siteVars
  <2> QED
    BY <1>1, <2>1, <2>2 DEF RepliesHaveLeagues, LeaguesOf
<1> QED
  BY <1>2, <1>3, <1>4, <1>5, <1>6

LEMMA ReceiveKeeps ==
    ASSUME FormInv, SiteInv', NEW i \in DOMAIN asked, Receive(i)
    PROVE  FormInv'
<1>1. /\ asked[i].answered
      /\ form' = [form EXCEPT !.years = asked[i].years,
                              !.yearsOf = {asked[i].event},
                              !.inOrder = @ /\ i = 1]
      /\ asked' = RemoveAt(asked, i)
      /\ UNCHANGED siteVars
  BY DEF Receive
<1>2. /\ form \in Forms /\ asked \in Seq(Requests) /\ Len(asked) <= MaxAsked
      /\ form.loaded = FALSE => asked = <<>>
      /\ LastIsSelected /\ RepliesHaveLeagues
  BY DEF FormInv, FormTypes
<1>3. /\ Len(asked) \in Nat /\ i \in 1 .. Len(asked)
      /\ asked' \in Seq(Requests) /\ Len(asked') = Len(asked) - 1
      /\ asked' = <<>> <=> Len(asked) = 1
      /\ i = 1 /\ Len(asked) # 1 => asked'[Len(asked')] = asked[Len(asked)]
      /\ RepliesHaveLeagues'
  BY <1>1, RemovalKeeps
<1>4. asked[i] \in Requests
  BY <1>2, <1>3, ElementOfSeq
<1>5. asked # <<>>
  BY <1>3, EmptySeq
<1>6. /\ form' \in Forms /\ form'.loaded = form.loaded /\ form'.selected = form.selected
      /\ form'.years = asked[i].years /\ form'.yearsOf = {asked[i].event}
      /\ form'.inOrder <=> form.inOrder /\ i = 1
  BY <1>1, <1>2, <1>4 DEF Forms, Requests
<1>7. FormTypes'
  BY <1>2, <1>3, <1>5, <1>6, AskedAssumption DEF FormTypes, Forms
<1>8. LastIsSelected'
  BY <1>2, <1>3, <1>5, <1>6 DEF LastIsSelected
<1>9. OfferedYearsHaveLeagues'
  <2>1. asked[i].years \subseteq LeaguesOf(asked[i].event) /\ league' = league
    BY <1>1, <1>2, <1>3 DEF RepliesHaveLeagues, siteVars
  <2> QED
    BY <1>6, <2>1 DEF OfferedYearsHaveLeagues, LeaguesOf
<1> QED
  BY <1>3, <1>7, <1>8, <1>9 DEF FormInv

LEMMA LoseKeeps ==
    ASSUME FormInv, SiteInv', NEW i \in DOMAIN asked, Lose(i)
    PROVE  FormInv'
<1>1. /\ form' = [form EXCEPT !.inOrder = FALSE]
      /\ asked' = RemoveAt(asked, i)
      /\ UNCHANGED siteVars
  BY DEF Lose
<1>2. /\ form \in Forms /\ asked \in Seq(Requests) /\ Len(asked) <= MaxAsked
      /\ form.loaded = FALSE => asked = <<>>
      /\ OfferedYearsHaveLeagues
  BY DEF FormInv, FormTypes
<1>3. /\ Len(asked) \in Nat /\ i \in 1 .. Len(asked)
      /\ asked' \in Seq(Requests) /\ Len(asked') = Len(asked) - 1
      /\ RepliesHaveLeagues'
  BY <1>1, RemovalKeeps
<1>4. /\ form' \in Forms /\ form'.loaded = form.loaded /\ form'.inOrder = FALSE
      /\ form'.years = form.years /\ form'.yearsOf = form.yearsOf
  BY <1>1, <1>2 DEF Forms
<1>5. form.loaded
  BY <1>2, <1>3, EmptySeq DEF Forms
<1>6. FormTypes'
  BY <1>2, <1>3, <1>4, <1>5, AskedAssumption DEF FormTypes
<1>7. LastIsSelected'
  BY <1>4 DEF LastIsSelected
<1>8. OfferedYearsHaveLeagues'
  BY <1>1, <1>2, <1>4 DEF OfferedYearsHaveLeagues, LeaguesOf, siteVars
<1> QED
  BY <1>3, <1>6, <1>7, <1>8 DEF FormInv

-----------------------------------------------------------------------------
LEMMA FormInitInv == FormInit => FormInv
<1> SUFFICES ASSUME FormInit PROVE FormInv
  OBVIOUS
<1>1. SiteInv
  BY SiteInitInv DEF FormInit
<1>2. form = NoForm /\ asked = <<>>
  BY DEF FormInit
<1>3. FormTypes
  BY <1>2, NoFormType, EmptySeq, AskedAssumption DEF FormTypes
<1>4. LastIsSelected /\ OfferedYearsHaveLeagues
  BY <1>2 DEF LastIsSelected, OfferedYearsHaveLeagues, NoForm
<1>5. RepliesHaveLeagues
  <2>1. Len(asked) = 0
    BY <1>2, EmptySeq
  <2> QED
    BY <2>1 DEF RepliesHaveLeagues
<1> QED
  BY <1>1, <1>3, <1>4, <1>5 DEF FormInv

LEMMA FormNextInv == FormInv /\ [FormNext]_formVars => FormInv'
<1> SUFFICES ASSUME FormInv, [FormNext]_formVars PROVE FormInv'
  OBVIOUS
<1>1. [SiteNext]_siteVars
  BY FormStepIsSiteStep
<1>2. SiteInv'
  BY <1>1, SiteNextInv DEF FormInv
<1>3. CASE Server
  BY <1>1, <1>2, <1>3, ServerKeeps DEF Server
<1>4. CASE Visit \/ FollowRow \/ Go
  BY <1>2, <1>4, EmptyForm DEF Visit, FollowRow, Go, Unload
<1>5. CASE Load
  BY <1>2, <1>5, LoadKeeps
<1>6. ASSUME NEW e \in Events, ChangeEvent(e) PROVE FormInv'
  BY <1>2, <1>6, ChangeEventKeeps
<1>7. ASSUME NEW i \in DOMAIN asked, AnswerYears(i) \/ Receive(i) \/ Lose(i) PROVE FormInv'
  BY <1>2, <1>7, AnswerKeeps, ReceiveKeeps, LoseKeeps
<1>8. CASE UNCHANGED formVars
  BY <1>1, <1>2, <1>8, ServerKeeps DEF formVars
<1> QED
  BY <1>3, <1>4, <1>5, <1>6, <1>7, <1>8 DEF FormNext

LEMMA FormInvariant == FormSpec => []FormInv
  BY FormInitInv, FormNextInv, PTL DEF FormSpec

(* What a visitor does with the selectors is, to the server, a visit like  *)
(* any other: the theorems about the pages hold with the form.             *)
THEOREM FormImplementsSite == FormSpec => SiteSpec
<1>1. FormInit => SiteInit
  BY DEF FormInit
<1>2. FormInv /\ [FormNext]_formVars => [SiteNext]_siteVars
  BY FormStepIsSiteStep
<1> QED
  BY <1>1, <1>2, FormInvariant, PTL DEF FormSpec, SiteSpec

(* The selectors hold events and years, and no reply is awaited without a  *)
(* page.                                                                   *)
THEOREM FormTypeCorrect == FormSpec => []FormTypeOK
<1>1. FormInv => FormTypeOK
  BY DEF FormInv, FormTypes, Forms, Requests, FormTypeOK
<1> QED
  BY <1>1, FormInvariant, PTL

(* When no reply is awaited, and none was lost or overtaken, the years on  *)
(* offer are those of the event that is selected.                          *)
THEOREM YearsAreOfSelected == FormSpec => []YearsFollowEvent
<1>1. FormInv => YearsFollowEvent
  BY DEF FormInv, LastIsSelected, YearsFollowEvent
<1> QED
  BY <1>1, FormInvariant, PTL

(* A year on offer has its league, whatever was overtaken on the way.      *)
THEOREM OfferedYearsExist == FormSpec => []OfferedYearsHaveLeagues
<1>1. FormInv => OfferedYearsHaveLeagues
  BY DEF FormInv
<1> QED
  BY <1>1, FormInvariant, PTL
=============================================================================
