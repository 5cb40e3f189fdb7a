-------------------------- MODULE SitePagesProofs --------------------------
(***************************************************************************)
(* The pages, forms and answers of the site keep what they promise,        *)
(* whatever the bounds of their parts: each has an inductive invariant of  *)
(* its own, for any metrics, ranges, admins, drafts and requests; at the   *)
(* end they are put together.                                              *)
(***************************************************************************)
EXTENDS SitePages, FiniteSetTheorems, SequenceTheorems, WellFoundedInduction, TLAPS

---------------------------------------------------------------------------
(* The sign-up forms. *)

SignForm ==
  [n : Nat, condition : {"above", "below"}, threshold : ForSign.Thresholds \cup {Sign!Blank},
   email : BOOLEAN, state : Sign!States]

SignSub == [email : BOOLEAN, state : Sign!States]

\* The requests of the footer's form.
Subs == {f \in posts : f.of = "sub"}

\* A set that is a singleton while its form is busy, and else empty.
OneWhile(busy, S) == IF busy THEN \E f : S = {f} ELSE S = {}

\* A request is of a form that was mounted; a form that is mounted later has none.
SignInv ==
  /\ form \in SignForm /\ sub \in SignSub
  /\ \A f \in posts : f.of \in {"alert", "sub"} /\ (f.of = "alert" => f.form \in Nat /\ f.form <= form.n)
  /\ signupFor # Sign!Elsewhere => OneWhile(form.state = "busy", Sign!Own)
  /\ OneWhile(sub.state = "busy", Subs)
  /\ Sign!SentWasAccepted

LEMMA SignThreshold == \A m \in ForSign.Metrics : m \in ForSign.Thresholds /\ m # Sign!Elsewhere
BY PagesAssumption DEF PagesAssumption, Sign!FormAssumption, Sign!Elsewhere, Sign!Blank

LEMMA SignMounted ==
  ASSUME NEW m \in ForSign.Metrics, NEW n \in Nat
  PROVE  /\ Sign!Mounted(m, n) \in SignForm
         /\ Sign!Mounted(m, n).n = n /\ Sign!Mounted(m, n).state = "idle"
BY SignThreshold DEF Sign!Mounted, SignForm, Sign!States

LEMMA SignInit == Sign!Init => SignInv
<1> SUFFICES ASSUME Sign!Init PROVE SignInv OBVIOUS
<1>1. form = Sign!Mounted(signupFor, 1) /\ signupFor \in ForSign.Metrics BY DEF Sign!Init
<1>2. form \in SignForm /\ form.state = "idle" BY <1>1, SignMounted
<1>3. sub \in SignSub /\ sub.state = "idle" BY DEF Sign!Init, SignSub, Sign!States
<1>4. Sign!Own = {} /\ Subs = {} BY DEF Sign!Init, Sign!Own, Subs
<1> QED BY <1>2, <1>3, <1>4 DEF SignInv, OneWhile, Sign!Init, Sign!SentWasAccepted

LEMMA SignOpen ==
  ASSUME SignInv, NEW m \in ForSign.Metrics \cup {Sign!Elsewhere}, Sign!Open(m)
  PROVE  SignInv'
<1>1. sub' = sub /\ posts' = posts /\ alerts' = alerts /\ signupFor' = m /\ m # signupFor
  BY DEF Sign!Open
<1>2. Subs' = Subs BY <1>1 DEF Subs
<1>3. CASE signupFor # Sign!Elsewhere
  <2>1. form' = form BY <1>3 DEF Sign!Open
  <2>2. Sign!Own' = Sign!Own BY <1>1, <2>1 DEF Sign!Own
  <2> QED BY <1>1, <1>2, <1>3, <2>1, <2>2 DEF SignInv, Sign!SentWasAccepted
<1>4. CASE signupFor = Sign!Elsewhere
  <2>1. m \in ForSign.Metrics BY <1>1, <1>4
  <2>2. form' = Sign!Mounted(m, form.n + 1) BY <1>4 DEF Sign!Open
  <2>3. form.n \in Nat BY DEF SignInv, SignForm
  <2>4. form' \in SignForm /\ form'.n = form.n + 1 /\ form'.state = "idle" BY <2>1, <2>2, <2>3, SignMounted
  <2>5. \A f \in posts : f.of = "alert" => f.form # form'.n BY <2>3, <2>4 DEF SignInv
  <2>6. Sign!Own' = {} BY <1>1, <2>5 DEF Sign!Own
  <2>7. \A f \in posts' : f.of \in {"alert", "sub"} /\ (f.of = "alert" => f.form \in Nat /\ f.form <= form'.n)
    BY <1>1, <2>3, <2>4 DEF SignInv
  <2> QED BY <1>1, <1>2, <2>4, <2>6, <2>7 DEF SignInv, OneWhile, Sign!SentWasAccepted
<1> QED BY <1>3, <1>4

LEMMA SignFill ==
  ASSUME SignInv, NEW c \in {"above", "below"}, NEW t \in ForSign.Thresholds \cup {Sign!Blank},
         NEW e \in BOOLEAN, Sign!Fill(c, t, e)
  PROVE  SignInv'
<1>1. /\ UNCHANGED <<signupFor, sub, posts, alerts>>
      /\ form' = [form EXCEPT !.condition = c, !.threshold = t, !.email = e]
  BY DEF Sign!Fill
<1>2. form \in SignForm BY DEF SignInv
<1>3. form' \in SignForm /\ form'.n = form.n /\ form'.state = form.state BY <1>1, <1>2 DEF SignForm
<1>4. Sign!Own' = Sign!Own /\ Subs' = Subs BY <1>1, <1>3 DEF Sign!Own, Subs
<1> QED BY <1>1, <1>3, <1>4 DEF SignInv, Sign!SentWasAccepted

LEMMA SignSubmit ==
  ASSUME SignInv, NEW enter \in BOOLEAN, Sign!Submit(enter)
  PROVE  SignInv'
<1> DEFINE new == [of |-> "alert", form |-> form.n, nth |-> moves, slug |-> signupFor, email |-> form.email,
                   condition |-> form.condition, threshold |-> form.threshold]
<1>1. /\ UNCHANGED <<signupFor, sub, alerts>> /\ signupFor # Sign!Elsewhere
      /\ form' = [form EXCEPT !.state = "busy"] /\ posts' = posts \cup {new} /\ form.state # "busy"
  BY DEF Sign!Submit, Sign!Idle
<1>2. form \in SignForm BY DEF SignInv
<1>3. form' \in SignForm /\ form'.n = form.n /\ form'.state = "busy" BY <1>1, <1>2 DEF SignForm, Sign!States
<1>4. Sign!Own = {} BY <1>1 DEF SignInv, OneWhile
<1>5. new.of = "alert" /\ new.form = form.n OBVIOUS
<1> HIDE DEF new
<1>6. Sign!Own' = {new} BY <1>1, <1>3, <1>4, <1>5 DEF Sign!Own
<1>7. Subs' = Subs BY <1>1, <1>5 DEF Subs
<1>8. \A f \in posts' : f.of \in {"alert", "sub"} /\ (f.of = "alert" => f.form \in Nat /\ f.form <= form'.n)
  BY <1>1, <1>2, <1>3, <1>5 DEF SignInv, SignForm
<1>9. Sign!SentWasAccepted' BY <1>3 DEF Sign!SentWasAccepted
<1> QED BY <1>1, <1>3, <1>6, <1>7, <1>8, <1>9 DEF SignInv, OneWhile

LEMMA SignFillSub ==
  ASSUME SignInv, NEW e \in BOOLEAN, Sign!FillSub(e)
  PROVE  SignInv'
<1>1. /\ UNCHANGED <<signupFor, form, posts, alerts>>
      /\ sub' = [email |-> e, state |-> IF sub.state = "error" THEN "idle" ELSE sub.state]
  BY DEF Sign!FillSub
<1>2. sub \in SignSub BY DEF SignInv
<1>3. sub' \in SignSub /\ (sub'.state = "busy" <=> sub.state = "busy") BY <1>1, <1>2 DEF SignSub, Sign!States
<1>4. Sign!Own' = Sign!Own /\ Subs' = Subs BY <1>1 DEF Sign!Own, Subs
<1>5. OneWhile(sub'.state = "busy", Subs') BY <1>3, <1>4 DEF SignInv, OneWhile
<1> QED BY <1>1, <1>3, <1>4, <1>5 DEF SignInv, Sign!SentWasAccepted

LEMMA SignSubmitSub ==
  ASSUME SignInv, Sign!SubmitSub
  PROVE  SignInv'
<1> DEFINE new == [of |-> "sub", nth |-> moves]
<1>1. /\ UNCHANGED <<signupFor, form, alerts>>
      /\ sub' = [sub EXCEPT !.state = "busy"] /\ posts' = posts \cup {new} /\ sub.state # "busy"
  BY DEF Sign!SubmitSub, Sign!Idle
<1>2. sub \in SignSub BY DEF SignInv
<1>3. sub' \in SignSub /\ sub'.state = "busy" BY <1>1, <1>2 DEF SignSub, Sign!States
<1>4. Subs = {} BY <1>1 DEF SignInv, OneWhile
<1>5. new.of = "sub" OBVIOUS
<1> HIDE DEF new
<1>6. Subs' = {new} BY <1>1, <1>4, <1>5 DEF Subs
<1>7. Sign!Own' = Sign!Own BY <1>1, <1>5 DEF Sign!Own
<1>8. \A f \in posts' : f.of \in {"alert", "sub"} /\ (f.of = "alert" => f.form \in Nat /\ f.form <= form'.n)
  BY <1>1, <1>5 DEF SignInv
<1> QED BY <1>1, <1>3, <1>6, <1>7, <1>8 DEF SignInv, OneWhile, Sign!SentWasAccepted

\* An answer ends the request it is the answer of: its form, if it is still
\* there, is no longer busy.
LEMMA SignAnswered ==
  ASSUME SignInv, NEW f \in posts, NEW state \in {"sent", "error"}, Sign!Answered(f, state),
         alerts \subseteq alerts',
         state = "sent" => (f.of = "alert" => f \in alerts')
  PROVE  SignInv'
<1>1. posts' = posts \ {f} /\ signupFor' = signupFor BY DEF Sign!Answered
<1>2. form \in SignForm /\ sub \in SignSub /\ f.of \in {"alert", "sub"} BY DEF SignInv
<1>3. state \in Sign!States /\ state # "busy" BY DEF Sign!States
<1>4. CASE f.of = "sub"
  <2>1. sub' = [sub EXCEPT !.state = state] /\ form' = form BY <1>4 DEF Sign!Answered
  <2>2. sub' \in SignSub /\ sub'.state = state BY <2>1, <1>2, <1>3 DEF SignSub
  <2>3. f \in Subs BY <1>4 DEF Subs
  <2>4. Subs = {f} BY <2>3 DEF SignInv, OneWhile
  <2>5. Subs' = {} BY <1>1, <2>4 DEF Subs
  <2>6. Sign!Own' = Sign!Own BY <1>1, <1>4, <2>1 DEF Sign!Own
  <2>7. Sign!SentWasAccepted' BY <1>1, <2>1 DEF SignInv, Sign!SentWasAccepted
  <2> QED BY <1>1, <1>3, <2>1, <2>2, <2>5, <2>6, <2>7 DEF SignInv, OneWhile
<1>5. CASE f.of = "alert" /\ f.form = form.n /\ signupFor # Sign!Elsewhere
  <2>1. sub' = sub /\ form' = [form EXCEPT !.state = state] BY <1>5 DEF Sign!Answered
  <2>2. form' \in SignForm /\ form'.state = state /\ form'.n = form.n BY <2>1, <1>2, <1>3 DEF SignForm
  <2>3. f \in Sign!Own BY <1>5 DEF Sign!Own
  <2>4. Sign!Own = {f} BY <1>5, <2>3 DEF SignInv, OneWhile
  <2>5. Sign!Own' = {} BY <1>1, <2>2, <2>4 DEF Sign!Own
  <2>6. Subs' = Subs BY <1>1, <1>5 DEF Subs
  <2>7. Sign!SentWasAccepted' BY <1>5, <2>2 DEF Sign!SentWasAccepted
  <2> QED BY <1>1, <1>3, <2>1, <2>2, <2>5, <2>6, <2>7 DEF SignInv, OneWhile
<1>6. CASE f.of = "alert" /\ ~(f.form = form.n /\ signupFor # Sign!Elsewhere)
  <2>1. sub' = sub /\ form' = form BY <1>6 DEF Sign!Answered
  <2>2. signupFor # Sign!Elsewhere => Sign!Own' = Sign!Own BY <1>1, <1>6, <2>1 DEF Sign!Own
  <2>3. Subs' = Subs BY <1>1, <1>6 DEF Subs
  <2>4. Sign!SentWasAccepted' BY <1>1, <2>1 DEF SignInv, Sign!SentWasAccepted
  <2> QED BY <1>1, <2>1, <2>2, <2>3, <2>4 DEF SignInv
<1> QED BY <1>2, <1>4, <1>5, <1>6

LEMMA SignStep ==
  ASSUME SignInv, Sign!Next
  PROVE  SignInv'
<1>1. ASSUME NEW f \in posts, Sign!Accept(f) PROVE SignInv'
  <2>1. Sign!Answered(f, "sent") /\ (f.of = "alert" => f \in alerts') /\ alerts \subseteq alerts'
    BY <1>1 DEF Sign!Accept, Sign!Taken
  <2> QED BY <2>1, SignAnswered
<1>2. ASSUME NEW f \in posts, Sign!Refuse(f) PROVE SignInv'
  <2>1. Sign!Answered(f, "error") /\ alerts \subseteq alerts' BY <1>2 DEF Sign!Refuse, Sign!Taken
  <2> QED BY <2>1, SignAnswered
<1> QED BY <1>1, <1>2, SignOpen, SignFill, SignSubmit, SignFillSub, SignSubmitSub DEF Sign!Next

LEMMA SignUnchanged ==
  ASSUME SignInv, UNCHANGED forms
  PROVE  SignInv'
<1>1. UNCHANGED <<signupFor, form, sub, posts, alerts>> BY DEF forms
<1>2. Sign!Own' = Sign!Own /\ Subs' = Subs BY <1>1 DEF Sign!Own, Subs
<1> QED BY <1>1, <1>2 DEF SignInv, Sign!SentWasAccepted

\* The invariant counts.
LEMMA SignCounts == SignInv => Sign!OneRequest /\ Sign!SentWasAccepted
<1> SUFFICES ASSUME SignInv PROVE Sign!OneRequest /\ Sign!SentWasAccepted OBVIOUS
<1>1. \A S : Sign!Cardinality(S) = Cardinality(S) BY DEF Sign!Cardinality, Cardinality
<1>2. ASSUME NEW S, NEW busy \in BOOLEAN, OneWhile(busy, S)
      PROVE  Sign!Cardinality(S) = IF busy THEN 1 ELSE 0
  BY <1>1, <1>2, FS_EmptySet, FS_Singleton DEF OneWhile
<1>3. signupFor # Sign!Elsewhere => Sign!Cardinality(Sign!Own) = IF form.state = "busy" THEN 1 ELSE 0
  BY <1>2 DEF SignInv
<1>4. Sign!Cardinality({f \in posts : f.of = "sub"}) = IF sub.state = "busy" THEN 1 ELSE 0
  BY <1>2 DEF SignInv, Subs
<1> QED BY <1>3, <1>4 DEF SignInv, Sign!OneRequest

---------------------------------------------------------------------------
(* The composer. *)

ComposeText == [of : Nat, v : Nat]
ComposeDoc == [text : ComposeText, status : {"draft", "scheduled", "sent"}]
ComposeDraft == [id : Nat, text : ComposeText]
ComposeCall ==
  [op : {"create", "update", "test", "schedule"}, id : Nat, text : ComposeText, at : {"sent", "ok", "failed"}]

ComposeTyped ==
  /\ news \in Seq(ComposeDoc) /\ DOMAIN list \subseteq DOMAIN news
  /\ editing \in ComposeDraft \cup {Compose!Null} /\ opening \in ComposeDraft \cup {Compose!Null}
  /\ call \in ComposeCall \cup {Compose!Null}
  /\ begun \in Nat /\ dirty \in BOOLEAN /\ strayed \in BOOLEAN

\* What was begun is numbered.
AllBegun ==
  /\ \A n \in DOMAIN news : news[n].text.of <= begun
  /\ editing # Compose!Null => editing.text.of <= begun
  /\ call # Compose!Null => call.text.of <= begun

\* An editor with an id edits the newsletter of that id.
EditsItsOwn ==
  (editing # Compose!Null /\ editing.id # 0) =>
    editing.id \in DOMAIN news /\ news[editing.id].text.of = editing.text.of

\* What is opened is what is stored.
OpensWhatIsStored ==
  opening # Compose!Null => opening.id \in DOMAIN news /\ news[opening.id].text = opening.text

\* A request for a newsletter sends a text of it; a save that was answered is
\* stored.
CallIsOfItsRow ==
  call # Compose!Null =>
    /\ call.op # "create" => call.id \in DOMAIN news /\ news[call.id].text.of = call.text.of
    /\ (call.at = "ok" /\ call.op \in {"create", "update"}) =>
         call.id \in DOMAIN news /\ news[call.id].text = call.text

\* An editor without changes shows what is stored, also under a request.
CleanShowsStored ==
  (editing # Compose!Null /\ ~dirty) => editing.id # 0 /\ news[editing.id].text = editing.text

\* The answer on its way says that n was created.
Brings(n) == call # Compose!Null /\ call.op = "create" /\ call.at = "ok" /\ call.id = n

\* Of two newsletters of one text one was never answered; the text of an editor
\* without an id is stored only by creates that were never answered and by the
\* one whose answer is on its way, that of a create not done yet only by the
\* former.
StoredOnce ==
  /\ \A m, n \in DOMAIN news :
       news[m].text.of = news[n].text.of => m = n \/ m \in unseen \/ n \in unseen
  /\ (editing # Compose!Null /\ editing.id = 0) =>
       \A n \in DOMAIN news : news[n].text.of = editing.text.of => n \in unseen \/ Brings(n)
  /\ (call # Compose!Null /\ call.op = "create" /\ call.at = "sent") =>
       \A n \in DOMAIN news : news[n].text.of = call.text.of => n \in unseen

Straight ==
  AllBegun /\ EditsItsOwn /\ OpensWhatIsStored /\ CallIsOfItsRow /\ CleanShowsStored /\ StoredOnce

\* While every answer has reached the editor it was for.
ComposeInv == ComposeTyped /\ (~strayed => Straight)

\* Null is no draft and no request.
LEMMA NoDraft ==
  /\ \A d \in ComposeDraft : d # Compose!Null
  /\ \A c \in ComposeCall : c # Compose!Null
BY DEF ComposeDraft, ComposeCall, Compose!Null

LEMMA ComposeInit == Compose!Init => ComposeInv
<1> SUFFICES ASSUME Compose!Init PROVE ComposeInv OBVIOUS
<1>1. /\ news = <<>> /\ list = <<>> /\ editing = Compose!Null /\ call = Compose!Null
      /\ opening = Compose!Null /\ begun = 0 /\ dirty = FALSE /\ strayed = FALSE
  BY DEF Compose!Init
<1>2. <<>> \in Seq(ComposeDoc) BY EmptySeq
<1>3. DOMAIN news = {} /\ DOMAIN list = {} BY <1>1
<1>4. ComposeTyped BY <1>1, <1>2, <1>3 DEF ComposeTyped
<1>5. Straight
  BY <1>1, <1>3 DEF Straight, AllBegun, EditsItsOwn, OpensWhatIsStored, CallIsOfItsRow, CleanShowsStored, StoredOnce
<1> QED BY <1>4, <1>5 DEF ComposeInv

\* A newsletter's row is replaced.
LEMMA DocReplaced ==
  ASSUME news \in Seq(ComposeDoc), NEW n \in DOMAIN news, NEW d \in ComposeDoc
  PROVE  /\ [news EXCEPT ![n] = d] \in Seq(ComposeDoc)
         /\ DOMAIN [news EXCEPT ![n] = d] = DOMAIN news
         /\ \A k \in DOMAIN news : [news EXCEPT ![n] = d][k] = IF k = n THEN d ELSE news[k]
<1>1. n \in 1..Len(news) OBVIOUS
<1>2. [news EXCEPT ![n] = d] \in Seq(ComposeDoc) BY <1>1, ExceptSeq
<1> QED BY <1>2

\* As far as the invariant sees, only a status has changed.
LEMMA ComposeSameTexts ==
  ASSUME ComposeInv, news' \in Seq(ComposeDoc), DOMAIN news' = DOMAIN news,
         \A n \in DOMAIN news : news'[n].text = news[n].text,
         DOMAIN list' \subseteq DOMAIN news,
         UNCHANGED <<editing, call, opening, begun, dirty, strayed, unseen>>
  PROVE  ComposeInv' /\ Compose!KeepsItsText
<1>1. ComposeTyped' BY DEF ComposeInv, ComposeTyped
<1>2. Compose!KeepsItsText BY DEF Compose!KeepsItsText
<1>3. AllBegun => AllBegun' BY DEF AllBegun
<1>4. EditsItsOwn => EditsItsOwn' BY DEF EditsItsOwn
<1>5. OpensWhatIsStored => OpensWhatIsStored' BY DEF OpensWhatIsStored
<1>6. CallIsOfItsRow => CallIsOfItsRow' BY DEF CallIsOfItsRow
<1>7. EditsItsOwn /\ CleanShowsStored => CleanShowsStored' BY DEF CleanShowsStored, EditsItsOwn
<1>8. StoredOnce => StoredOnce' BY DEF StoredOnce, Brings
<1> QED BY <1>1, <1>2, <1>3, <1>4, <1>5, <1>6, <1>7, <1>8 DEF ComposeInv, Straight

LEMMA ComposeDispatch ==
  ASSUME ComposeInv, NEW n \in 1..ForCompose.MaxNews, Compose!Dispatch(n) \/ Compose!Cancel(n)
  PROVE  ComposeInv' /\ Compose!KeepsItsText
<1>1. news \in Seq(ComposeDoc) /\ DOMAIN list \subseteq DOMAIN news BY DEF ComposeInv, ComposeTyped
<1>2. n \in DOMAIN news BY <1>1 DEF Compose!Dispatch, Compose!Cancel
<1>3. news[n] \in ComposeDoc BY <1>1, <1>2
<1>4. UNCHANGED <<editing, call, opening, begun, dirty, strayed, unseen>> BY DEF Compose!Dispatch, Compose!Cancel
<1>5. ASSUME NEW s \in {"draft", "sent"}, news' = [news EXCEPT ![n].status = s]
      PROVE  news' \in Seq(ComposeDoc) /\ DOMAIN news' = DOMAIN news /\ \A k \in DOMAIN news : news'[k].text = news[k].text
  <2> DEFINE d == [news[n] EXCEPT !.status = s]
  <2>1. d \in ComposeDoc /\ d.text = news[n].text BY <1>3 DEF ComposeDoc
  <2>2. news' = [news EXCEPT ![n] = d] BY <1>5
  <2> HIDE DEF d
  <2> QED BY <1>1, <1>2, <2>1, <2>2, DocReplaced
<1>6. news' = news \/ news' = [news EXCEPT ![n].status = "draft"] \/ news' = [news EXCEPT ![n].status = "sent"]
  BY DEF Compose!Dispatch, Compose!Cancel
<1>7. news' \in Seq(ComposeDoc) /\ DOMAIN news' = DOMAIN news /\ \A k \in DOMAIN news : news'[k].text = news[k].text
  BY <1>1, <1>5, <1>6
<1>8. list' = list \/ list' = [k \in DOMAIN news' |-> news'[k].status] BY DEF Compose!Dispatch, Compose!Cancel
<1>9. DOMAIN list' \subseteq DOMAIN news BY <1>1, <1>7, <1>8
<1> QED BY <1>4, <1>7, <1>9, ComposeSameTexts

\* The text of a new editor is one that no newsletter has.
LEMMA ComposeBlank ==
  ASSUME ComposeInv, Compose!Blank
  PROVE  ComposeInv' /\ Compose!KeepsItsText
<1> DEFINE new == [id |-> 0, text |-> [of |-> begun + 1, v |-> 0]]
<1>1. /\ UNCHANGED <<news, list, call, opening, strayed, unseen>> /\ editing = Compose!Null
      /\ begun' = begun + 1 /\ editing' = new /\ dirty' = TRUE
  BY DEF Compose!Blank
<1>2. begun \in Nat /\ news \in Seq(ComposeDoc) /\ call \in ComposeCall \cup {Compose!Null}
  BY DEF ComposeInv, ComposeTyped
<1>3. new \in ComposeDraft /\ new.id = 0 /\ new.text.of = begun + 1
  BY <1>2 DEF ComposeDraft, ComposeText
<1> HIDE DEF new
<1>4. ComposeTyped' BY <1>1, <1>2, <1>3 DEF ComposeInv, ComposeTyped
<1>5. Compose!KeepsItsText BY <1>1 DEF Compose!KeepsItsText
<1>6. ASSUME ~strayed PROVE Straight'
  <2>1. AllBegun /\ StoredOnce /\ OpensWhatIsStored /\ CallIsOfItsRow BY <1>6 DEF ComposeInv, Straight
  <2>0. \A n \in DOMAIN news : news[n] \in ComposeDoc BY <1>2
  <2>2. \A n \in DOMAIN news : news[n].text.of \in Nat BY <2>0 DEF ComposeDoc, ComposeText
  <2>3. call # Compose!Null => call.text.of \in Nat BY <1>2 DEF ComposeCall, ComposeText
  <2>4. AllBegun' BY <1>1, <1>2, <1>3, <2>1, <2>2, <2>3 DEF AllBegun
  <2>5. \A n \in DOMAIN news : news[n].text.of # begun + 1 BY <1>2, <2>1, <2>2 DEF AllBegun
  <2>6. StoredOnce' BY <1>1, <1>3, <2>1, <2>5 DEF StoredOnce, Brings
  <2>7. EditsItsOwn' /\ CleanShowsStored' BY <1>1, <1>3 DEF EditsItsOwn, CleanShowsStored
  <2>8. OpensWhatIsStored' /\ CallIsOfItsRow' BY <1>1, <2>1 DEF OpensWhatIsStored, CallIsOfItsRow
  <2> QED BY <2>4, <2>6, <2>7, <2>8 DEF Straight
<1> QED BY <1>1, <1>4, <1>5, <1>6 DEF ComposeInv

LEMMA ComposeOpen ==
  ASSUME ComposeInv, NEW n \in 1..ForCompose.MaxNews, Compose!OpenExisting(n)
  PROVE  ComposeInv' /\ Compose!KeepsItsText
<1> DEFINE new == [id |-> n, text |-> news[n].text]
<1>1. /\ UNCHANGED <<news, list, editing, call, begun, dirty, strayed, unseen>>
      /\ opening' = new /\ n \in DOMAIN list
  BY DEF Compose!OpenExisting
<1>2. n \in DOMAIN news /\ news \in Seq(ComposeDoc) BY <1>1 DEF ComposeInv, ComposeTyped
<1>3. news[n] \in ComposeDoc BY <1>2
<1>4. new \in ComposeDraft /\ new.id = n /\ new.text = news[n].text BY <1>3 DEF ComposeDraft, ComposeDoc
<1> HIDE DEF new
<1>5. ComposeTyped' BY <1>1, <1>4 DEF ComposeInv, ComposeTyped
<1>6. Compose!KeepsItsText BY <1>1 DEF Compose!KeepsItsText
<1>7. OpensWhatIsStored' BY <1>1, <1>2, <1>4 DEF OpensWhatIsStored
<1>8. (AllBegun => AllBegun') /\ (EditsItsOwn => EditsItsOwn') BY <1>1 DEF AllBegun, EditsItsOwn
<1>9. (CallIsOfItsRow => CallIsOfItsRow') /\ (CleanShowsStored => CleanShowsStored')
  BY <1>1 DEF CallIsOfItsRow, CleanShowsStored
<1>10. StoredOnce => StoredOnce' BY <1>1 DEF StoredOnce, Brings
<1> QED BY <1>1, <1>5, <1>6, <1>7, <1>8, <1>9, <1>10 DEF ComposeInv, Straight

LEMMA ComposeOpened ==
  ASSUME ComposeInv, Compose!Opened
  PROVE  ComposeInv' /\ Compose!KeepsItsText
<1>1. /\ UNCHANGED <<news, list, call, begun, strayed, unseen>> /\ opening # Compose!Null
      /\ editing' = opening /\ opening' = Compose!Null /\ dirty' = FALSE
  BY DEF Compose!Opened
<1>2. opening \in ComposeDraft /\ news \in Seq(ComposeDoc) BY <1>1 DEF ComposeInv, ComposeTyped
<1>3. ComposeTyped' BY <1>1, <1>2 DEF ComposeInv, ComposeTyped
<1>4. Compose!KeepsItsText BY <1>1 DEF Compose!KeepsItsText
<1>5. ASSUME ~strayed PROVE Straight'
  <2>1. AllBegun /\ StoredOnce /\ OpensWhatIsStored /\ CallIsOfItsRow BY <1>5 DEF ComposeInv, Straight
  <2>2. opening.id \in DOMAIN news /\ opening.id # 0 /\ news[opening.id].text = opening.text
    BY <1>1, <1>2, <2>1 DEF OpensWhatIsStored
  <2>3. AllBegun' BY <1>1, <2>1, <2>2 DEF AllBegun
  <2>4. EditsItsOwn' /\ CleanShowsStored' BY <1>1, <2>2 DEF EditsItsOwn, CleanShowsStored
  <2>5. OpensWhatIsStored' /\ CallIsOfItsRow' BY <1>1, <2>1 DEF OpensWhatIsStored, CallIsOfItsRow
  <2>6. StoredOnce' BY <1>1, <2>1, <2>2 DEF StoredOnce
  <2> QED BY <2>3, <2>4, <2>5, <2>6 DEF Straight
<1> QED BY <1>1, <1>3, <1>4, <1>5 DEF ComposeInv

LEMMA ComposeType ==
  ASSUME ComposeInv, Compose!Type
  PROVE  ComposeInv' /\ Compose!KeepsItsText
<1>1. /\ UNCHANGED <<news, list, call, opening, begun, strayed, unseen>> /\ editing # Compose!Null
      /\ editing' = [editing EXCEPT !.text.v = @ + 1] /\ dirty' = TRUE
  BY DEF Compose!Type
<1>2. editing \in ComposeDraft BY <1>1 DEF ComposeInv, ComposeTyped
<1>3. editing' \in ComposeDraft /\ editing'.id = editing.id /\ editing'.text.of = editing.text.of
  BY <1>1, <1>2 DEF ComposeDraft, ComposeText
<1>4. editing' # Compose!Null BY <1>3, NoDraft
<1>5. ComposeTyped' BY <1>1, <1>3 DEF ComposeInv, ComposeTyped
<1>6. Compose!KeepsItsText BY <1>1 DEF Compose!KeepsItsText
<1>7. (AllBegun => AllBegun') /\ (EditsItsOwn => EditsItsOwn') BY <1>1, <1>3 DEF AllBegun, EditsItsOwn
<1>8. (OpensWhatIsStored => OpensWhatIsStored') /\ (CallIsOfItsRow => CallIsOfItsRow') /\ CleanShowsStored'
  BY <1>1 DEF OpensWhatIsStored, CallIsOfItsRow, CleanShowsStored
<1>9. StoredOnce => StoredOnce' BY <1>1, <1>3 DEF StoredOnce, Brings
<1> QED BY <1>1, <1>5, <1>6, <1>7, <1>8, <1>9 DEF ComposeInv, Straight

LEMMA ComposeBack ==
  ASSUME ComposeInv, Compose!Back
  PROVE  ComposeInv' /\ Compose!KeepsItsText
<1>1. /\ UNCHANGED <<news, list, call, opening, begun, dirty, strayed, unseen>>
      /\ editing' = Compose!Null
  BY DEF Compose!Back
<1>2. ComposeTyped' BY <1>1 DEF ComposeInv, ComposeTyped
<1>3. Compose!KeepsItsText BY <1>1 DEF Compose!KeepsItsText
<1>4. (AllBegun => AllBegun') /\ EditsItsOwn' /\ CleanShowsStored'
  BY <1>1 DEF AllBegun, EditsItsOwn, CleanShowsStored
<1>5. (OpensWhatIsStored => OpensWhatIsStored') /\ (CallIsOfItsRow => CallIsOfItsRow')
  BY <1>1 DEF OpensWhatIsStored, CallIsOfItsRow
<1>6. StoredOnce => StoredOnce' BY <1>1 DEF StoredOnce
<1> QED BY <1>1, <1>2, <1>3, <1>4, <1>5, <1>6 DEF ComposeInv, Straight

LEMMA ComposeClick ==
  ASSUME ComposeInv, NEW what \in {"save", "test", "schedule"}, Compose!Click(what)
  PROVE  ComposeInv' /\ Compose!KeepsItsText
<1> DEFINE new == [op |-> Compose!Op(what), id |-> editing.id, text |-> editing.text, at |-> "sent"]
<1>1. /\ UNCHANGED <<news, list, editing, opening, begun, dirty, strayed, unseen>>
      /\ editing # Compose!Null /\ call = Compose!Null /\ call' = new
      /\ what = "save" \/ editing.id # 0
  BY DEF Compose!Click
<1>2. editing \in ComposeDraft BY <1>1 DEF ComposeInv, ComposeTyped
<1>3. /\ Compose!Op(what) \in {"create", "update", "test", "schedule"}
      /\ Compose!Op(what) = "create" <=> editing.id = 0
  BY <1>1 DEF Compose!Op
<1>4. /\ new \in ComposeCall /\ new.id = editing.id /\ new.text = editing.text /\ new.at = "sent"
      /\ new.op = "create" <=> editing.id = 0
  BY <1>2, <1>3 DEF ComposeDraft, ComposeCall
<1> HIDE DEF new
<1>5. ComposeTyped' BY <1>1, <1>4 DEF ComposeInv, ComposeTyped
<1>6. Compose!KeepsItsText BY <1>1 DEF Compose!KeepsItsText
<1>7. (AllBegun => AllBegun') /\ (EditsItsOwn => EditsItsOwn') BY <1>1, <1>4 DEF AllBegun, EditsItsOwn
<1>8. (OpensWhatIsStored => OpensWhatIsStored') /\ (CleanShowsStored => CleanShowsStored')
  BY <1>1 DEF OpensWhatIsStored, CleanShowsStored
<1>9. EditsItsOwn => CallIsOfItsRow' BY <1>1, <1>4 DEF CallIsOfItsRow, EditsItsOwn
<1>10. StoredOnce => StoredOnce' BY <1>1, <1>4 DEF StoredOnce, Brings
<1> QED BY <1>1, <1>5, <1>6, <1>7, <1>8, <1>9, <1>10 DEF ComposeInv, Straight

\* A request is refused, or fails: nothing is stored, and only the request's
\* state changes.
LEMMA ComposeFails ==
  ASSUME ComposeInv, UNCHANGED <<news, list, editing, opening, begun, dirty, strayed>>,
         call # Compose!Null, call' = [call EXCEPT !.at = "failed"],
         unseen \subseteq unseen', \A n : Brings(n) => n \in unseen'
  PROVE  ComposeInv' /\ Compose!KeepsItsText
<1>1. call \in ComposeCall BY DEF ComposeInv, ComposeTyped
<1>2. /\ call' \in ComposeCall /\ call'.op = call.op /\ call'.id = call.id /\ call'.text = call.text
      /\ call'.at = "failed"
  BY <1>1 DEF ComposeCall
<1>3. ComposeTyped' BY <1>2 DEF ComposeInv, ComposeTyped
<1>4. Compose!KeepsItsText BY DEF Compose!KeepsItsText
<1>5. (AllBegun => AllBegun') /\ (EditsItsOwn => EditsItsOwn') BY <1>2 DEF AllBegun, EditsItsOwn
<1>6. (OpensWhatIsStored => OpensWhatIsStored') /\ (CleanShowsStored => CleanShowsStored')
  BY DEF OpensWhatIsStored, CleanShowsStored
<1>7. CallIsOfItsRow => CallIsOfItsRow' BY <1>2 DEF CallIsOfItsRow
<1>8. StoredOnce => StoredOnce' BY <1>2 DEF StoredOnce
<1> QED BY <1>3, <1>4, <1>5, <1>6, <1>7, <1>8 DEF ComposeInv, Straight

LEMMA ComposeLose ==
  ASSUME ComposeInv, Compose!Lose
  PROVE  ComposeInv' /\ Compose!KeepsItsText
<1>1. /\ UNCHANGED <<news, list, editing, opening, begun, dirty, strayed>> /\ call # Compose!Null
      /\ call' = [call EXCEPT !.at = "failed"]
      /\ unseen' = IF call.op = "create" /\ call.at = "ok" THEN unseen \union {call.id} ELSE unseen
  BY DEF Compose!Lose
<1>2. unseen \subseteq unseen' BY <1>1
<1>3. \A n : Brings(n) => n \in unseen' BY <1>1 DEF Brings
<1> QED BY <1>1, <1>2, <1>3, ComposeFails

\* The request's statement has been done: it is answered, with an id for what it
\* created.
LEMMA ComposeAnswered ==
  ASSUME ComposeInv, call # Compose!Null, NEW id \in Nat,
         call' = [call EXCEPT !.at = "ok", !.id = id]
  PROVE  /\ call \in ComposeCall /\ call' \in ComposeCall /\ call' # Compose!Null
         /\ call'.op = call.op /\ call'.id = id /\ call'.text = call.text /\ call'.at = "ok"
<1>1. call \in ComposeCall BY DEF ComposeInv, ComposeTyped
<1>2. /\ call' \in ComposeCall /\ call'.op = call.op /\ call'.id = id /\ call'.text = call.text
      /\ call'.at = "ok"
  BY <1>1 DEF ComposeCall
<1> QED BY <1>1, <1>2, NoDraft

LEMMA ComposeCreate ==
  ASSUME ComposeInv, call # Compose!Null, call.op = "create", call.at = "sent",
         news' = Append(news, [text |-> call.text, status |-> "draft"]),
         call' = [call EXCEPT !.at = "ok", !.id = Len(news')],
         UNCHANGED <<list, editing, opening, begun, dirty, strayed, unseen>>
  PROVE  ComposeInv' /\ Compose!KeepsItsText
<1> DEFINE doc == [text |-> call.text, status |-> "draft"]
<1>1. call \in ComposeCall /\ news \in Seq(ComposeDoc) BY DEF ComposeInv, ComposeTyped
<1>2. doc \in ComposeDoc /\ doc.text = call.text BY <1>1 DEF ComposeCall, ComposeDoc
<1>3. news' = Append(news, doc) OBVIOUS
<1> HIDE DEF doc
<1>4. /\ news' \in Seq(ComposeDoc) /\ Len(news') = Len(news) + 1
      /\ \A n \in 1..Len(news) : news'[n] = news[n]
      /\ news'[Len(news) + 1] = doc
  BY <1>1, <1>2, <1>3, AppendProperties
<1>5. PICK k : k = Len(news) + 1 OBVIOUS
<1>6. /\ k \in Nat /\ k # 0 /\ Len(news') = k /\ k \in DOMAIN news' /\ k \notin DOMAIN news
      /\ news'[k].text = call.text /\ DOMAIN news' = DOMAIN news \cup {k}
      /\ \A n \in DOMAIN news : n \in DOMAIN news' /\ news'[n] = news[n]
  BY <1>1, <1>2, <1>4, <1>5
<1>7. call' # Compose!Null /\ call' \in ComposeCall /\ call'.op = "create" /\ call'.id = k
      /\ call'.text = call.text /\ call'.at = "ok"
  BY <1>6, ComposeAnswered
<1>8. ComposeTyped' BY <1>4, <1>6, <1>7 DEF ComposeInv, ComposeTyped
<1>9. Compose!KeepsItsText BY <1>6 DEF Compose!KeepsItsText
<1>10. ASSUME ~strayed PROVE Straight'
  <2>1. AllBegun /\ EditsItsOwn /\ OpensWhatIsStored /\ CallIsOfItsRow /\ CleanShowsStored /\ StoredOnce
    BY <1>10 DEF ComposeInv, Straight
  <2>2. AllBegun' BY <1>6, <1>7, <2>1 DEF AllBegun
  <2>3. EditsItsOwn' /\ OpensWhatIsStored' BY <1>6, <2>1 DEF EditsItsOwn, OpensWhatIsStored
  <2>4. CleanShowsStored' BY <1>6, <2>1 DEF CleanShowsStored, EditsItsOwn
  <2>5. CallIsOfItsRow' BY <1>6, <1>7 DEF CallIsOfItsRow
  <2>6. \A n \in DOMAIN news : news[n].text.of = call.text.of => n \in unseen BY <2>1 DEF StoredOnce
  <2>7. \A m, n \in DOMAIN news' :
          news'[m].text.of = news'[n].text.of => m = n \/ m \in unseen' \/ n \in unseen'
    BY <1>6, <2>1, <2>6 DEF StoredOnce
  <2>8. \A n \in DOMAIN news : ~Brings(n) BY DEF Brings
  <2>9. Brings(k)' BY <1>7 DEF Brings
  <2>10. ASSUME editing # Compose!Null, editing.id = 0
         PROVE  \A n \in DOMAIN news' : news'[n].text.of = editing.text.of => n \in unseen' \/ Brings(n)'
    BY <1>6, <2>1, <2>8, <2>9, <2>10 DEF StoredOnce
  <2>11. StoredOnce' BY <1>7, <2>7, <2>10 DEF StoredOnce
  <2> QED BY <2>2, <2>3, <2>4, <2>5, <2>11 DEF Straight
<1> QED BY <1>8, <1>9, <1>10 DEF ComposeInv

\* An update stores a text of its newsletter; where it is stored behind an editor
\* that shows another one, the answer to that editor has gone astray.
LEMMA ComposeUpdate ==
  ASSUME ComposeInv, call # Compose!Null, call.op = "update", call.at = "sent",
         news' = [news EXCEPT ![call.id].text = call.text],
         call' = [call EXCEPT !.at = "ok", !.id = call.id],
         strayed' = (strayed \/ Compose!Behind(call)),
         UNCHANGED <<list, editing, opening, begun, dirty, unseen>>
  PROVE  ComposeInv' /\ Compose!KeepsItsText
<1>1. call \in ComposeCall /\ news \in Seq(ComposeDoc) /\ strayed \in BOOLEAN /\ dirty \in BOOLEAN
  BY DEF ComposeInv, ComposeTyped
<1>2. call.id \in Nat /\ call.text \in ComposeText BY <1>1 DEF ComposeCall
<1>3. call' # Compose!Null /\ call' \in ComposeCall /\ call'.op = "update" /\ call'.id = call.id
      /\ call'.text = call.text /\ call'.at = "ok"
  BY <1>2, ComposeAnswered
<1>4. strayed' \in BOOLEAN BY <1>1
<1>5. ~strayed' => ~strayed /\ ~Compose!Behind(call) BY <1>1
<1>6. CASE call.id \in DOMAIN news
  <2> DEFINE doc == [news[call.id] EXCEPT !.text = call.text]
  <2>1. news[call.id] \in ComposeDoc BY <1>1, <1>6
  <2>2. doc \in ComposeDoc /\ doc.text = call.text BY <1>2, <2>1 DEF ComposeDoc
  <2>3. news' = [news EXCEPT ![call.id] = doc] OBVIOUS
  <2> HIDE DEF doc
  <2>4. /\ news' \in Seq(ComposeDoc) /\ DOMAIN news' = DOMAIN news
        /\ \A k \in DOMAIN news : news'[k] = IF k = call.id THEN doc ELSE news[k]
    BY <1>1, <1>6, <2>2, <2>3, DocReplaced
  <2>5. \A k \in DOMAIN news : news'[k].text = IF k = call.id THEN call.text ELSE news[k].text BY <2>2, <2>4
  <2>6. ComposeTyped' BY <1>3, <1>4, <2>4 DEF ComposeInv, ComposeTyped
  <2>7. ASSUME ~strayed PROVE \A k \in DOMAIN news : news'[k].text.of = news[k].text.of
    <3>1. news[call.id].text.of = call.text.of BY <2>7 DEF ComposeInv, Straight, CallIsOfItsRow
    <3> QED BY <2>5, <3>1
  <2>8. ASSUME ~strayed' PROVE Straight'
    <3>1. AllBegun /\ EditsItsOwn /\ OpensWhatIsStored /\ CallIsOfItsRow /\ CleanShowsStored /\ StoredOnce
      BY <1>5, <2>8 DEF ComposeInv, Straight
    <3>2. \A k \in DOMAIN news : news'[k].text.of = news[k].text.of BY <1>5, <2>7, <2>8
    <3>3. /\ (editing # Compose!Null /\ ~dirty /\ editing.id = call.id) => editing.text = call.text
          /\ (opening # Compose!Null /\ opening.id = call.id) => opening.text = call.text
      BY <1>5, <2>8 DEF Compose!Behind
    <3>4. AllBegun' BY <1>3, <2>4, <3>1, <3>2 DEF AllBegun
    <3>5. EditsItsOwn' BY <2>4, <3>1, <3>2 DEF EditsItsOwn
    <3>6. OpensWhatIsStored' BY <2>4, <2>5, <3>1, <3>3 DEF OpensWhatIsStored
    <3>7. CallIsOfItsRow' BY <1>3, <1>6, <2>4, <2>5 DEF CallIsOfItsRow
    <3>8. CleanShowsStored' BY <2>5, <3>1, <3>3 DEF CleanShowsStored, EditsItsOwn
    <3>9. \A n : ~Brings(n) /\ ~Brings(n)' BY <1>3 DEF Brings
    <3>10. StoredOnce' BY <1>3, <2>4, <3>1, <3>2, <3>9 DEF StoredOnce
    <3> QED BY <3>4, <3>5, <3>6, <3>7, <3>8, <3>10 DEF Straight
  <2> QED BY <2>6, <2>7, <2>8 DEF ComposeInv, Compose!KeepsItsText
<1>7. CASE call.id \notin DOMAIN news
  <2>1. strayed BY <1>7 DEF ComposeInv, Straight, CallIsOfItsRow
  <2>2. news' = news BY <1>1, <1>7
  <2>3. ComposeTyped' BY <1>3, <1>4, <2>2 DEF ComposeInv, ComposeTyped
  <2> QED BY <1>5, <2>1, <2>3 DEF ComposeInv, Compose!KeepsItsText
<1> QED BY <1>6, <1>7

LEMMA ComposeServe ==
  ASSUME ComposeInv, Compose!Serve
  PROVE  ComposeInv' /\ Compose!KeepsItsText
<1>1. /\ call # Compose!Null /\ call.at = "sent"
      /\ UNCHANGED <<list, editing, opening, begun, dirty, unseen>>
  BY DEF Compose!Serve
<1>2. call \in ComposeCall /\ news \in Seq(ComposeDoc) /\ strayed \in BOOLEAN
  BY <1>1 DEF ComposeInv, ComposeTyped
<1>3. call.op \in {"create", "update", "test", "schedule"} /\ call.id \in Nat BY <1>2 DEF ComposeCall
<1>4. CASE Compose!Refused(call)
  <2>1. UNCHANGED <<news, strayed>> /\ call' = [call EXCEPT !.at = "failed"] BY <1>4 DEF Compose!Serve
  <2>2. \A n : ~Brings(n) BY <1>1 DEF Brings
  <2> QED BY <1>1, <2>1, <2>2, ComposeFails
<1>5. ~Compose!Refused(call) => strayed' = (strayed \/ Compose!Behind(call)) BY DEF Compose!Serve
<1>6. ~Compose!Refused(call) /\ call.op # "update" => strayed' = strayed
  BY <1>2, <1>5 DEF Compose!Behind
<1>7. CASE ~Compose!Refused(call) /\ call.op = "create"
  <2>1. news' = Append(news, [text |-> call.text, status |-> "draft"])
    BY <1>7 DEF Compose!Serve
  <2>2. call' = [call EXCEPT !.at = "ok", !.id = Len(news')] BY <1>7 DEF Compose!Serve
  <2> QED BY <1>1, <1>6, <1>7, <2>1, <2>2, ComposeCreate
<1>8. CASE ~Compose!Refused(call) /\ call.op = "update"
  <2>1. Compose!Editable(call.id) BY <1>8 DEF Compose!Refused
  <2>2. news' = [news EXCEPT ![call.id].text = call.text] BY <1>8, <2>1 DEF Compose!Serve
  <2>3. call' = [call EXCEPT !.at = "ok", !.id = call.id] BY <1>8 DEF Compose!Serve
  <2> QED BY <1>1, <1>5, <1>8, <2>2, <2>3, ComposeUpdate
<1>9. CASE ~Compose!Refused(call) /\ call.op \in {"test", "schedule"}
  <2>1. call' = [call EXCEPT !.at = "ok", !.id = call.id] BY <1>9 DEF Compose!Serve
  <2>2. call' # Compose!Null /\ call' \in ComposeCall /\ call'.op = call.op /\ call'.id = call.id
        /\ call'.text = call.text /\ call'.at = "ok"
    BY <1>1, <1>3, <2>1, ComposeAnswered
  <2>3. news' = news \/ news' = [news EXCEPT ![call.id].status = "scheduled"]
    BY <1>9 DEF Compose!Serve
  <2>4. news' \in Seq(ComposeDoc) /\ DOMAIN news' = DOMAIN news /\ \A k \in DOMAIN news : news'[k].text = news[k].text
    <3>1. CASE news' = news BY <1>2, <3>1
    <3>2. CASE news' = [news EXCEPT ![call.id].status = "scheduled"] /\ call.id \in DOMAIN news
      <4> DEFINE d == [news[call.id] EXCEPT !.status = "scheduled"]
      <4>1. news[call.id] \in ComposeDoc BY <1>2, <3>2
      <4>2. d \in ComposeDoc /\ d.text = news[call.id].text BY <4>1 DEF ComposeDoc
      <4>3. news' = [news EXCEPT ![call.id] = d] BY <3>2
      <4> HIDE DEF d
      <4> QED BY <1>2, <3>2, <4>2, <4>3, DocReplaced
    <3>3. CASE news' = [news EXCEPT ![call.id].status = "scheduled"] /\ call.id \notin DOMAIN news
      <4>1. news' = news BY <1>2, <3>3
      <4> QED BY <1>2, <4>1
    <3> QED BY <2>3, <3>1, <3>2, <3>3
  <2>5. strayed' = strayed BY <1>6, <1>9
  <2>6. ComposeTyped' BY <1>1, <2>2, <2>4, <2>5 DEF ComposeInv, ComposeTyped
  <2>7. Compose!KeepsItsText BY <2>4 DEF Compose!KeepsItsText
  <2>8. (AllBegun => AllBegun') /\ (EditsItsOwn => EditsItsOwn') BY <1>1, <2>2, <2>4 DEF AllBegun, EditsItsOwn
  <2>9. OpensWhatIsStored => OpensWhatIsStored' BY <1>1, <2>4 DEF OpensWhatIsStored
  <2>10. CallIsOfItsRow => CallIsOfItsRow' BY <1>1, <1>9, <2>2, <2>4 DEF CallIsOfItsRow
  <2>11. EditsItsOwn /\ CleanShowsStored => CleanShowsStored'
    BY <1>1, <2>4 DEF EditsItsOwn, CleanShowsStored
  <2>12. StoredOnce => StoredOnce' BY <1>1, <1>9, <2>2, <2>4 DEF StoredOnce, Brings
  <2> QED BY <2>5, <2>6, <2>7, <2>8, <2>9, <2>10, <2>11, <2>12 DEF ComposeInv, Straight
<1> QED BY <1>3, <1>4, <1>7, <1>8, <1>9

LEMMA ComposeAnswerFailed ==
  ASSUME ComposeInv, Compose!AnswerFailed
  PROVE  ComposeInv' /\ Compose!KeepsItsText
<1>1. /\ UNCHANGED <<news, list, editing, opening, begun, dirty, strayed, unseen>>
      /\ call # Compose!Null /\ call.at = "failed" /\ call' = Compose!Null
  BY DEF Compose!AnswerFailed
<1>2. ComposeTyped' BY <1>1 DEF ComposeInv, ComposeTyped
<1>3. Compose!KeepsItsText BY <1>1 DEF Compose!KeepsItsText
<1>4. (AllBegun => AllBegun') /\ (EditsItsOwn => EditsItsOwn') BY <1>1 DEF AllBegun, EditsItsOwn
<1>5. (OpensWhatIsStored => OpensWhatIsStored') /\ CallIsOfItsRow'
  BY <1>1 DEF OpensWhatIsStored, CallIsOfItsRow
<1>6. CleanShowsStored => CleanShowsStored' BY <1>1 DEF CleanShowsStored
<1>7. StoredOnce => StoredOnce' BY <1>1 DEF StoredOnce, Brings
<1> QED BY <1>1, <1>2, <1>3, <1>4, <1>5, <1>6, <1>7 DEF ComposeInv, Straight

LEMMA ComposeAnswer ==
  ASSUME ComposeInv, Compose!Answer
  PROVE  ComposeInv' /\ Compose!KeepsItsText
<1>1. /\ UNCHANGED <<news, opening, begun, unseen>>
      /\ call # Compose!Null /\ call.at = "ok" /\ call' = Compose!Null /\ editing' = Compose!EditorAfter
      /\ list' = IF call.op = "test" THEN list ELSE Compose!Statuses
  BY DEF Compose!Answer
<1>2. call \in ComposeCall /\ news \in Seq(ComposeDoc) /\ dirty \in BOOLEAN /\ strayed \in BOOLEAN
  BY <1>1 DEF ComposeInv, ComposeTyped
<1>3. call.id \in Nat /\ call.op \in {"create", "update", "test", "schedule"} BY <1>2 DEF ComposeCall
<1>4. DOMAIN list' \subseteq DOMAIN news BY <1>1 DEF Compose!Statuses, ComposeInv, ComposeTyped
<1>5. dirty' = (dirty /\ ~(call.op \in {"create", "update"} /\ Compose!Own /\ editing.text = call.text))
  BY DEF Compose!Answer
<1>6. strayed' = (strayed \/ (call.op = "create" /\ ~Compose!Own)) BY DEF Compose!Answer
<1>7. dirty' \in BOOLEAN /\ strayed' \in BOOLEAN BY <1>5, <1>6
<1>8. Compose!KeepsItsText BY <1>1 DEF Compose!KeepsItsText
<1>9. editing' \in ComposeDraft \cup {Compose!Null}
  <2>1. CASE call.op = "create" /\ editing = Compose!Null
    BY <1>1, <1>3, <2>1 DEF Compose!EditorAfter, Compose!NoText, ComposeDraft, ComposeText
  <2>2. CASE call.op = "create" /\ editing # Compose!Null
    <3>1. editing \in ComposeDraft BY <2>2 DEF ComposeInv, ComposeTyped
    <3>2. editing' = [editing EXCEPT !.id = call.id] BY <1>1, <2>2 DEF Compose!EditorAfter
    <3> QED BY <1>3, <3>1, <3>2 DEF ComposeDraft
  <2>3. CASE call.op # "create"
    BY <1>1, <2>3 DEF Compose!EditorAfter, ComposeInv, ComposeTyped
  <2> QED BY <2>1, <2>2, <2>3
<1>10. ComposeTyped' BY <1>1, <1>4, <1>7, <1>9 DEF ComposeInv, ComposeTyped
<1>11. ASSUME ~strayed' PROVE Straight'
  <2>1. ~strayed /\ (call.op = "create" => Compose!Own) BY <1>2, <1>6, <1>11
  <2>2. AllBegun /\ EditsItsOwn /\ OpensWhatIsStored /\ CallIsOfItsRow /\ CleanShowsStored /\ StoredOnce
    BY <2>1 DEF ComposeInv, Straight
  <2>3. OpensWhatIsStored' /\ CallIsOfItsRow' BY <1>1, <2>2 DEF OpensWhatIsStored, CallIsOfItsRow
  <2>4. ~dirty' => ~dirty \/ (call.op \in {"create", "update"} /\ Compose!Own /\ editing.text = call.text)
    BY <1>2, <1>5
  <2>5. CASE call.op = "create"
    <3>1. /\ editing # Compose!Null /\ editing.id = 0 /\ call.text.of = editing.text.of
          /\ call.id \in DOMAIN news /\ news[call.id].text = call.text
      BY <1>1, <2>1, <2>2, <2>5 DEF Compose!Own, CallIsOfItsRow
    <3>2. editing \in ComposeDraft BY <3>1 DEF ComposeInv, ComposeTyped
    <3>3. editing' = [editing EXCEPT !.id = call.id] BY <1>1, <2>5, <3>1 DEF Compose!EditorAfter
    <3>4. editing'.id = call.id /\ editing'.text = editing.text BY <3>2, <3>3 DEF ComposeDraft
    <3>5. call.id # 0 BY <1>2, <3>1
    <3>6. AllBegun' BY <1>1, <2>2, <3>1, <3>4 DEF AllBegun
    <3>7. EditsItsOwn' BY <1>1, <3>1, <3>4 DEF EditsItsOwn
    <3>8. CleanShowsStored' BY <1>1, <2>2, <2>4, <3>1, <3>4, <3>5 DEF CleanShowsStored
    <3>9. StoredOnce' BY <1>1, <2>2, <3>4, <3>5 DEF StoredOnce
    <3> QED BY <2>3, <3>6, <3>7, <3>8, <3>9 DEF Straight
  <2>6. CASE call.op # "create"
    <3>1. editing' = editing \/ editing' = Compose!Null BY <1>1, <2>6 DEF Compose!EditorAfter
    <3>2. AllBegun' /\ EditsItsOwn' BY <1>1, <2>2, <3>1 DEF AllBegun, EditsItsOwn
    <3>3. call.op = "update" => news[call.id].text = call.text /\ call.id \in DOMAIN news
      BY <1>1, <2>2 DEF CallIsOfItsRow
    <3>4. call.id \in DOMAIN news => call.id # 0 BY <1>2
    <3>5. CleanShowsStored' BY <1>1, <2>2, <2>4, <2>6, <3>1, <3>3, <3>4 DEF CleanShowsStored, Compose!Own
    <3>6. \A n : ~Brings(n) BY <2>6 DEF Brings
    <3>7. StoredOnce' BY <1>1, <2>2, <3>1, <3>6 DEF StoredOnce
    <3> QED BY <2>3, <3>2, <3>5, <3>7 DEF Straight
  <2> QED BY <2>5, <2>6
<1> QED BY <1>8, <1>10, <1>11 DEF ComposeInv

LEMMA ComposeStep ==
  ASSUME ComposeInv, Compose!Next
  PROVE  ComposeInv' /\ Compose!KeepsItsText
BY ComposeBlank, ComposeOpen, ComposeOpened, ComposeType, ComposeBack, ComposeClick, ComposeServe, ComposeLose,
   ComposeDispatch, ComposeAnswer, ComposeAnswerFailed DEF Compose!Next

LEMMA ComposeUnchanged ==
  ASSUME ComposeInv, UNCHANGED composer
  PROVE  ComposeInv' /\ Compose!KeepsItsText
<1>1. UNCHANGED <<news, list, editing, call, opening, begun, dirty, strayed, unseen>> BY DEF composer
<1>2. news \in Seq(ComposeDoc) /\ DOMAIN list \subseteq DOMAIN news BY DEF ComposeInv, ComposeTyped
<1> QED BY <1>1, <1>2, ComposeSameTexts

LEMMA ComposeSaves == ComposeInv => Compose!OneOfEach /\ Compose!CleanIsStored
BY DEF ComposeInv, Straight, StoredOnce, CleanShowsStored, Compose!OneOfEach, Compose!CleanIsStored

---------------------------------------------------------------------------
(* The editors of metric texts.  Three parts run them, each with admins of *)
(* its own: what holds of them is stated for any set of admins.            *)

CopyText == [Editors!Pane -> {w \in Int : w >= -1}]
CopyDoc == [copy : CopyText, overridden : BOOLEAN]
CopyCall == [op : {"save", "reset"}, at : {"sent", "ok", "failed", "refresh"}, copy : CopyText]
CopyReading == [at : {"no", "sent"}] \cup [at : {"read"}, payload : CopyDoc]
CopyRow == [there : BOOLEAN, text : [Editors!Pane -> {w \in Int : w >= -2}]]

CopyTyped(A) ==
  /\ builtin \in [Editors!Pane -> Nat \ {0}] /\ row \in CopyRow /\ typed \subseteq Editors!Pane
  /\ listed \in [A -> CopyDoc \cup {Editors!Null}] /\ open \in [A -> CopyDoc \cup {Editors!Null}]
  /\ saving \in [A -> CopyCall \cup {Editors!Null}]
  /\ reading \in [A -> CopyReading] /\ failed \in [A -> BOOLEAN]

Unreleased == \A p \in Editors!Pane : builtin[p] = 1

\* A row is there for a text; that it is the built-in one is a release's doing.
RowsDiffer ==
  /\ \A p \in Editors!Pane : row.text[p] = builtin[p] => builtin[p] > 1
  /\ row.there <=> \E p \in Editors!Pane : row.text[p] # Editors!Unset

\* Nobody has anything but a built-in text, of this release or an earlier one, of a
\* pane nobody typed in, and the row has none of this release.
PanesUntouched(A) ==
  \A p \in Editors!Pane \ typed :
    /\ row.text[p] = Editors!Unset \/ row.text[p] \in 1..(builtin[p] - 1)
    /\ \A a \in A :
         /\ listed[a] # Editors!Null => listed[a].copy[p] \in 1..builtin[p]
         /\ open[a] # Editors!Null => open[a].copy[p] \in 1..builtin[p]
         /\ saving[a] # Editors!Null => saving[a].copy[p] \in 1..builtin[p]
         /\ reading[a].at = "read" => reading[a].payload.copy[p] \in 1..builtin[p]

\* One admin's list is read while nothing is saved: at first, and after a save.
ReadsAreCurrent(A) ==
  ((\A a, b \in A : a = b) /\ Unreleased) => \A a \in A :
    /\ reading[a].at = "read" => reading[a].payload = Editors!Payload
    /\ (saving[a] = Editors!Null /\ reading[a].at = "no" /\ ~failed[a]) => listed[a] = Editors!Payload
    /\ reading[a].at # "no" =>
         \/ saving[a] = Editors!Null /\ listed[a] = Editors!Null /\ open[a] = Editors!Null
         \/ saving[a] # Editors!Null /\ saving[a].at = "refresh"
    /\ (saving[a] # Editors!Null /\ saving[a].at = "refresh") => reading[a].at # "no"

CopyInv(A) == CopyTyped(A) /\ RowsDiffer /\ PanesUntouched(A) /\ ReadsAreCurrent(A)

\* What a save stores is what the site shows.
SavesSeen(A) ==
  \A a \in A :
    (/\ saving[a] # Editors!Null /\ saving[a].op = "save" /\ saving[a].at = "sent"
     /\ saving'[a] # Editors!Null /\ saving'[a].at = "ok") => Editors!Effective' = saving[a].copy

CopyGood(A) == CopyInv(A)' /\ SavesSeen(A)

\* Steps of the editors whatever the bounds.
Release(p) ==
  /\ builtin' = [builtin EXCEPT ![p] = @ + 1]
  /\ UNCHANGED <<row, listed, open, saving, reading, failed, typed, saves>>

ClickAny(a, op) ==
  /\ open[a] # Editors!Null /\ saving[a] = Editors!Null
  /\ saving' = [saving EXCEPT ![a] = [op |-> op, at |-> "sent", copy |-> open[a].copy]]
  /\ failed' = [failed EXCEPT ![a] = FALSE]
  /\ UNCHANGED <<builtin, row, listed, open, reading, typed>>

CopyNext(A) ==
  \/ \E p \in Editors!Pane : Release(p)
  \/ \E a \in A :
       \/ Editors!ServePut(a) \/ Editors!ServeDelete(a) \/ Editors!ServeList(a) \/ Editors!Fault(a)
       \/ Editors!Edit(a) \/ Editors!Back(a) \/ Editors!Answer(a) \/ Editors!AnswerFailed(a)
       \/ Editors!Refreshed(a) \/ Editors!RefreshFailed(a)
       \/ \E p \in Editors!Pane, w \in {w \in Int : w >= -1} : Editors!Type(a, p, w)
       \/ \E op \in {"save", "reset"} : ClickAny(a, op)

\* Null is no text and no request.
LEMMA NoDoc ==
  /\ \A d \in CopyDoc : d # Editors!Null
  /\ \A c \in CopyCall : c # Editors!Null
BY DEF CopyDoc, CopyCall, Editors!Null

\* What is shown has the panes' words, and is the built-in text where no row is.
LEMMA CopyPayload ==
  ASSUME builtin \in [Editors!Pane -> Nat \ {0}], row \in CopyRow
  PROVE  /\ Editors!Payload \in CopyDoc /\ Editors!Payload.copy = Editors!Effective
         /\ Editors!Effective \in CopyText
         /\ \A p \in Editors!Pane :
              Editors!Effective[p] = IF row.text[p] # Editors!Unset THEN row.text[p] ELSE builtin[p]
<1>1. row.there \in BOOLEAN /\ row.text \in [Editors!Pane -> {w \in Int : w >= -2}] BY DEF CopyRow
<1>2. \A p \in Editors!Pane :
        (IF row.text[p] # Editors!Unset THEN row.text[p] ELSE builtin[p]) \in {w \in Int : w >= -1}
  BY <1>1 DEF Editors!Unset
<1>3. Editors!Effective \in CopyText BY <1>2 DEF Editors!Effective, CopyText
<1> QED BY <1>1, <1>3 DEF Editors!Payload, Editors!Effective, CopyDoc

LEMMA SamePayload ==
  ASSUME UNCHANGED <<builtin, row>>
  PROVE  Editors!Payload' = Editors!Payload /\ Unreleased' = Unreleased /\ Editors!Effective' = Editors!Effective
         /\ RowsDiffer' = RowsDiffer
BY DEF Editors!Payload, Editors!Effective, Unreleased, RowsDiffer

\* A request goes on to another of its states.
LEMMA CallMoves ==
  ASSUME NEW A, CopyTyped(A), NEW a \in A, saving[a] # Editors!Null,
         NEW t \in {"sent", "ok", "failed", "refresh"}, saving' = [saving EXCEPT ![a].at = t]
  PROVE  /\ saving' \in [A -> CopyCall \cup {Editors!Null}]
         /\ \A b \in A : b # a => saving'[b] = saving[b]
         /\ saving'[a] # Editors!Null /\ saving'[a].at = t
         /\ saving'[a].op = saving[a].op /\ saving'[a].copy = saving[a].copy
<1> DEFINE c == [saving[a] EXCEPT !.at = t]
<1>1. saving[a] \in CopyCall BY DEF CopyTyped
<1>2. c \in CopyCall /\ c.at = t /\ c.op = saving[a].op /\ c.copy = saving[a].copy BY <1>1 DEF CopyCall
<1>3. saving' = [saving EXCEPT ![a] = c] OBVIOUS
<1> HIDE DEF c
<1>4. /\ saving' \in [A -> CopyCall \cup {Editors!Null}] /\ saving'[a] = c
      /\ \A b \in A : b # a => saving'[b] = saving[b]
  BY <1>2, <1>3 DEF CopyTyped
<1> QED BY <1>2, <1>4, NoDoc

\* A save is answered with its own text shown.
LEMMA CopyServePut ==
  ASSUME NEW A, CopyInv(A), NEW a \in A, Editors!ServePut(a)
  PROVE  CopyGood(A)
<1>1. /\ saving[a] # Editors!Null /\ saving[a].op = "save" /\ saving[a].at = "sent"
      /\ UNCHANGED <<builtin, listed, open, reading, failed, typed>>
  BY DEF Editors!ServePut
<1>2. CopyTyped(A) /\ RowsDiffer /\ PanesUntouched(A) /\ ReadsAreCurrent(A) BY DEF CopyInv
<1>3. CASE ~Editors!Valid(saving[a].copy)
  <2>1. saving' = [saving EXCEPT ![a].at = "failed"] /\ row' = row BY <1>3 DEF Editors!ServePut
  <2>2. /\ saving' \in [A -> CopyCall \cup {Editors!Null}]
        /\ \A b \in A : b # a => saving'[b] = saving[b]
        /\ saving'[a] # Editors!Null /\ saving'[a].at = "failed" /\ saving'[a].copy = saving[a].copy
    BY <1>1, <1>2, <2>1, CallMoves
  <2>3. CopyTyped(A)' BY <1>1, <1>2, <2>1, <2>2 DEF CopyTyped
  <2>4. RowsDiffer' BY <1>1, <1>2, <2>1, SamePayload
  <2>5. PanesUntouched(A)' BY <1>1, <1>2, <2>1, <2>2 DEF PanesUntouched
  <2>6. ReadsAreCurrent(A)' BY <1>1, <1>2, <2>1, <2>2, SamePayload DEF ReadsAreCurrent
  <2>7. SavesSeen(A) BY <1>1, <2>2 DEF SavesSeen
  <2> QED BY <2>3, <2>4, <2>5, <2>6, <2>7 DEF CopyGood, CopyInv
<1>4. CASE Editors!Valid(saving[a].copy)
  <2> DEFINE copy == saving[a].copy
             stored == Editors!Stored(copy)
  <2>1. saving' = [saving EXCEPT ![a].at = "ok"] /\ Editors!Put(copy) BY <1>4 DEF Editors!ServePut
  <2>2. /\ saving' \in [A -> CopyCall \cup {Editors!Null}]
        /\ \A b \in A : b # a => saving'[b] = saving[b]
        /\ saving'[a] # Editors!Null /\ saving'[a].at = "ok" /\ saving'[a].copy = saving[a].copy
    BY <1>1, <1>2, <2>1, CallMoves
  <2>3. copy \in CopyText BY <1>1, <1>2 DEF CopyTyped, CopyCall
  <2>4. \A p \in Editors!Pane : stored[p] = IF copy[p] = builtin[p] THEN Editors!Unset ELSE copy[p]
    BY DEF Editors!Stored
  <2>5. stored \in [Editors!Pane -> {w \in Int : w >= -2}]
    BY <2>3 DEF Editors!Stored, Editors!Unset, CopyText
  <2> HIDE DEF stored
  <2>6. row' \in CopyRow /\ row'.text = stored /\ (row'.there <=> stored # Editors!NoRow.text)
    BY <2>1, <2>5 DEF Editors!Put, Editors!NoRow, Editors!Unset, CopyRow, stored
  <2>7. stored = Editors!NoRow.text <=> \A p \in Editors!Pane : stored[p] = Editors!Unset
    BY <2>5 DEF Editors!NoRow
  <2>8. CopyTyped(A)' BY <1>1, <1>2, <2>2, <2>6 DEF CopyTyped
  <2>9. \A p \in Editors!Pane : copy[p] # Editors!Unset BY <2>3 DEF CopyText, Editors!Unset
  <2>10. builtin \in [Editors!Pane -> Nat \ {0}] BY <1>2 DEF CopyTyped
  <2>11. \A p \in Editors!Pane : stored[p] # builtin[p] BY <2>4, <2>10 DEF Editors!Unset
  <2>12. RowsDiffer' BY <1>1, <2>6, <2>7, <2>11 DEF RowsDiffer
  <2>13. PanesUntouched(A)'
    <3>1. \A p \in Editors!Pane \ typed : stored[p] = Editors!Unset \/ stored[p] \in 1..(builtin[p] - 1)
      BY <1>1, <1>2, <2>4, <2>10 DEF PanesUntouched
    <3> QED BY <1>1, <1>2, <2>2, <2>6, <3>1 DEF PanesUntouched
  <2>14. ReadsAreCurrent(A)'
    <3> SUFFICES ASSUME \A x, y \in A : x = y, Unreleased' PROVE ReadsAreCurrent(A)' BY DEF ReadsAreCurrent
    <3>1. Unreleased BY <1>1 DEF Unreleased
    <3>2. reading[a].at = "no" BY <1>1, <1>2, <3>1 DEF ReadsAreCurrent
    <3> QED BY <1>1, <2>2, <3>2 DEF ReadsAreCurrent
  <2>15. Editors!Effective' = copy
    <3>1. builtin' \in [Editors!Pane -> Nat \ {0}] /\ row' \in CopyRow BY <1>1, <2>6, <2>10
    <3>2. /\ Editors!Effective' \in CopyText
          /\ \A p \in Editors!Pane :
               Editors!Effective'[p] = IF row'.text[p] # Editors!Unset THEN row'.text[p] ELSE builtin'[p]
      BY <3>1 DEF Editors!Effective, CopyText, CopyRow, Editors!Unset
    <3>3. \A p \in Editors!Pane : Editors!Effective'[p] = copy[p] BY <1>1, <2>4, <2>6, <2>9, <3>2
    <3> QED BY <2>3, <3>2, <3>3 DEF CopyText
  <2>16. SavesSeen(A) BY <2>2, <2>15 DEF SavesSeen
  <2> QED BY <2>8, <2>12, <2>13, <2>14, <2>16 DEF CopyGood, CopyInv
<1> QED BY <1>3, <1>4

LEMMA CopyServeDelete ==
  ASSUME NEW A, CopyInv(A), NEW a \in A, Editors!ServeDelete(a)
  PROVE  CopyGood(A)
<1> DEFINE c == [saving[a] EXCEPT !.at = "ok", !.copy = builtin]
<1>1. /\ saving[a] # Editors!Null /\ saving[a].op = "reset" /\ saving[a].at = "sent"
      /\ saving' = [saving EXCEPT ![a] = c] /\ row' = Editors!NoRow
      /\ UNCHANGED <<builtin, listed, open, reading, failed, typed>>
  BY DEF Editors!ServeDelete
<1>2. CopyTyped(A) /\ RowsDiffer /\ PanesUntouched(A) /\ ReadsAreCurrent(A) BY DEF CopyInv
<1>3. saving[a] \in CopyCall /\ builtin \in CopyText BY <1>1, <1>2 DEF CopyTyped, CopyText
<1>4. c \in CopyCall /\ c.at = "ok" /\ c.op = "reset" /\ c.copy = builtin BY <1>1, <1>3 DEF CopyCall
<1> HIDE DEF c
<1>5. /\ saving' \in [A -> CopyCall \cup {Editors!Null}] /\ saving'[a] = c /\ c # Editors!Null
      /\ \A b \in A : b # a => saving'[b] = saving[b]
  BY <1>1, <1>2, <1>4, NoDoc DEF CopyTyped
<1>6. /\ row' \in CopyRow /\ ~row'.there /\ \A p \in Editors!Pane : row'.text[p] = Editors!Unset
  BY <1>1 DEF Editors!NoRow, Editors!Unset, CopyRow
<1>7. CopyTyped(A)' BY <1>1, <1>2, <1>5, <1>6 DEF CopyTyped
<1>8. builtin \in [Editors!Pane -> Nat \ {0}] BY <1>2 DEF CopyTyped
<1>9. \A p \in Editors!Pane : builtin[p] # Editors!Unset BY <1>8 DEF Editors!Unset
<1>10. RowsDiffer' BY <1>1, <1>6, <1>9 DEF RowsDiffer
<1>11. PanesUntouched(A)'
  <2>1. \A p \in Editors!Pane : c.copy[p] \in 1..builtin[p] BY <1>4, <1>8
  <2> QED BY <1>1, <1>2, <1>5, <1>6, <2>1 DEF PanesUntouched
<1>12. ReadsAreCurrent(A)'
  <2> SUFFICES ASSUME \A x, y \in A : x = y, Unreleased' PROVE ReadsAreCurrent(A)' BY DEF ReadsAreCurrent
  <2>1. Unreleased BY <1>1 DEF Unreleased
  <2>2. reading[a].at = "no" BY <1>1, <1>2, <2>1 DEF ReadsAreCurrent
  <2> QED BY <1>1, <1>4, <1>5, <2>2 DEF ReadsAreCurrent
<1>13. SavesSeen(A) BY <1>1, <1>5 DEF SavesSeen
<1> QED BY <1>7, <1>10, <1>11, <1>12, <1>13 DEF CopyGood, CopyInv

\* A request fails, or its answer has come and the list is to be read.
LEMMA CopyFault ==
  ASSUME NEW A, CopyInv(A), NEW a \in A, Editors!Fault(a)
  PROVE  CopyGood(A)
<1>1. /\ saving[a] # Editors!Null /\ saving[a].at \in {"sent", "ok"}
      /\ saving' = [saving EXCEPT ![a].at = "failed"]
      /\ UNCHANGED <<builtin, row, listed, open, reading, failed, typed>>
  BY DEF Editors!Fault
<1>2. CopyTyped(A) /\ RowsDiffer /\ PanesUntouched(A) /\ ReadsAreCurrent(A) BY DEF CopyInv
<1>3. /\ saving' \in [A -> CopyCall \cup {Editors!Null}]
      /\ \A b \in A : b # a => saving'[b] = saving[b]
      /\ saving'[a] # Editors!Null /\ saving'[a].at = "failed" /\ saving'[a].copy = saving[a].copy
  BY <1>1, <1>2, CallMoves
<1>4. CopyTyped(A)' BY <1>1, <1>2, <1>3 DEF CopyTyped
<1>5. RowsDiffer' BY <1>1, <1>2, SamePayload
<1>6. PanesUntouched(A)' BY <1>1, <1>2, <1>3 DEF PanesUntouched
<1>7. ReadsAreCurrent(A)' BY <1>1, <1>2, <1>3, SamePayload DEF ReadsAreCurrent
<1>8. SavesSeen(A) BY <1>1, <1>3 DEF SavesSeen
<1> QED BY <1>4, <1>5, <1>6, <1>7, <1>8 DEF CopyGood, CopyInv

\* The list is read.
LEMMA CopyServeList ==
  ASSUME NEW A, CopyInv(A), NEW a \in A, Editors!ServeList(a)
  PROVE  CopyGood(A)
<1> DEFINE r == [at |-> "read", payload |-> Editors!Payload]
<1>1. /\ reading[a] = [at |-> "sent"] /\ reading' = [reading EXCEPT ![a] = r]
      /\ UNCHANGED <<builtin, row, listed, open, saving, failed, typed>>
  BY DEF Editors!ServeList
<1>2. CopyTyped(A) /\ RowsDiffer /\ PanesUntouched(A) /\ ReadsAreCurrent(A) BY DEF CopyInv
<1>3. /\ Editors!Payload \in CopyDoc /\ Editors!Payload.copy = Editors!Effective
      /\ \A p \in Editors!Pane :
           Editors!Effective[p] = IF row.text[p] # Editors!Unset THEN row.text[p] ELSE builtin[p]
  BY <1>2, CopyPayload DEF CopyTyped
<1>4. r \in CopyReading /\ r.at = "read" /\ r.payload = Editors!Payload BY <1>3 DEF CopyReading
<1>5. reading[a].at = "sent" BY <1>1
<1> HIDE DEF r
<1>6. /\ reading' \in [A -> CopyReading] /\ reading'[a] = r
      /\ \A b \in A : b # a => reading'[b] = reading[b]
  BY <1>1, <1>2, <1>4 DEF CopyTyped
<1>7. CopyTyped(A)' BY <1>1, <1>2, <1>6 DEF CopyTyped
<1>8. RowsDiffer' /\ Editors!Payload' = Editors!Payload BY <1>1, <1>2, SamePayload
<1>9. PanesUntouched(A)'
  <2>1. builtin \in [Editors!Pane -> Nat \ {0}] BY <1>2 DEF CopyTyped
  <2>2. \A p \in Editors!Pane \ typed : r.payload.copy[p] \in 1..builtin[p]
    BY <1>2, <1>3, <1>4, <2>1 DEF PanesUntouched
  <2> QED BY <1>1, <1>2, <1>6, <2>2 DEF PanesUntouched
<1>10. ReadsAreCurrent(A)' BY <1>1, <1>2, <1>4, <1>5, <1>6, <1>8 DEF ReadsAreCurrent, Unreleased
<1>11. SavesSeen(A) BY <1>1 DEF SavesSeen
<1> QED BY <1>7, <1>8, <1>9, <1>10, <1>11 DEF CopyGood, CopyInv

LEMMA CopyEdit ==
  ASSUME NEW A, CopyInv(A), NEW a \in A, Editors!Edit(a)
  PROVE  CopyGood(A)
<1>1. /\ listed[a] # Editors!Null /\ open' = [open EXCEPT ![a] = listed[a]]
      /\ UNCHANGED <<builtin, row, listed, saving, reading, failed, typed>>
  BY DEF Editors!Edit
<1>2. CopyTyped(A) /\ RowsDiffer /\ PanesUntouched(A) /\ ReadsAreCurrent(A) BY DEF CopyInv
<1>3. /\ open' \in [A -> CopyDoc \cup {Editors!Null}] /\ open'[a] = listed[a]
      /\ \A b \in A : b # a => open'[b] = open[b]
  BY <1>1, <1>2 DEF CopyTyped
<1>4. CopyTyped(A)' BY <1>1, <1>2, <1>3 DEF CopyTyped
<1>5. RowsDiffer' BY <1>1, <1>2, SamePayload
<1>6. PanesUntouched(A)' BY <1>1, <1>2, <1>3 DEF PanesUntouched
<1>7. ReadsAreCurrent(A)' BY <1>1, <1>2, <1>3, SamePayload DEF ReadsAreCurrent
<1>8. SavesSeen(A) BY <1>1 DEF SavesSeen
<1> QED BY <1>4, <1>5, <1>6, <1>7, <1>8 DEF CopyGood, CopyInv

LEMMA CopyBack ==
  ASSUME NEW A, CopyInv(A), NEW a \in A, Editors!Back(a)
  PROVE  CopyGood(A)
<1>1. /\ open' = [open EXCEPT ![a] = Editors!Null]
      /\ UNCHANGED <<builtin, row, listed, saving, reading, failed, typed>>
  BY DEF Editors!Back
<1>2. CopyTyped(A) /\ RowsDiffer /\ PanesUntouched(A) /\ ReadsAreCurrent(A) BY DEF CopyInv
<1>3. /\ open' \in [A -> CopyDoc \cup {Editors!Null}] /\ open'[a] = Editors!Null
      /\ \A b \in A : b # a => open'[b] = open[b]
  BY <1>1, <1>2 DEF CopyTyped
<1>4. CopyTyped(A)' BY <1>1, <1>2, <1>3 DEF CopyTyped
<1>5. RowsDiffer' BY <1>1, <1>2, SamePayload
<1>6. PanesUntouched(A)' BY <1>1, <1>2, <1>3 DEF PanesUntouched
<1>7. ReadsAreCurrent(A)' BY <1>1, <1>2, <1>3, SamePayload DEF ReadsAreCurrent
<1>8. SavesSeen(A) BY <1>1 DEF SavesSeen
<1> QED BY <1>4, <1>5, <1>6, <1>7, <1>8 DEF CopyGood, CopyInv

LEMMA CopyType ==
  ASSUME NEW A, CopyInv(A), NEW a \in A, NEW p \in Editors!Pane, NEW w \in Int, w >= -1, Editors!Type(a, p, w)
  PROVE  CopyGood(A)
<1> DEFINE d == [open[a] EXCEPT !.copy[p] = w]
<1>1. /\ open[a] # Editors!Null /\ open' = [open EXCEPT ![a] = d] /\ typed' = typed \cup {p}
      /\ UNCHANGED <<builtin, row, listed, saving, reading, failed>>
  BY DEF Editors!Type, Editors!Shown
<1>2. CopyTyped(A) /\ RowsDiffer /\ PanesUntouched(A) /\ ReadsAreCurrent(A) BY DEF CopyInv
<1>3. open[a] \in CopyDoc BY <1>1, <1>2 DEF CopyTyped
<1>4. d \in CopyDoc /\ \A q \in Editors!Pane : q # p => d.copy[q] = open[a].copy[q]
  BY <1>3 DEF CopyDoc, CopyText
<1> HIDE DEF d
<1>5. /\ open' \in [A -> CopyDoc \cup {Editors!Null}] /\ open'[a] = d /\ d # Editors!Null
      /\ \A b \in A : b # a => open'[b] = open[b]
  BY <1>1, <1>2, <1>4, NoDoc DEF CopyTyped
<1>6. CopyTyped(A)' BY <1>1, <1>2, <1>5 DEF CopyTyped
<1>7. RowsDiffer' BY <1>1, <1>2, SamePayload
<1>8. PanesUntouched(A)' BY <1>1, <1>2, <1>4, <1>5 DEF PanesUntouched
<1>9. ReadsAreCurrent(A)' BY <1>1, <1>2, <1>5, SamePayload DEF ReadsAreCurrent
<1>10. SavesSeen(A) BY <1>1 DEF SavesSeen
<1> QED BY <1>6, <1>7, <1>8, <1>9, <1>10 DEF CopyGood, CopyInv

LEMMA CopyClick ==
  ASSUME NEW A, CopyInv(A), NEW a \in A, NEW op \in {"save", "reset"}, ClickAny(a, op)
  PROVE  CopyGood(A)
<1> DEFINE c == [op |-> op, at |-> "sent", copy |-> open[a].copy]
<1>1. /\ open[a] # Editors!Null /\ saving[a] = Editors!Null
      /\ saving' = [saving EXCEPT ![a] = c] /\ failed' = [failed EXCEPT ![a] = FALSE]
      /\ UNCHANGED <<builtin, row, listed, open, reading, typed>>
  BY DEF ClickAny
<1>2. CopyTyped(A) /\ RowsDiffer /\ PanesUntouched(A) /\ ReadsAreCurrent(A) BY DEF CopyInv
<1>3. open[a] \in CopyDoc BY <1>1, <1>2 DEF CopyTyped
<1>4. c \in CopyCall /\ c.at = "sent" /\ c.copy = open[a].copy BY <1>3 DEF CopyDoc, CopyCall
<1> HIDE DEF c
<1>5. /\ saving' \in [A -> CopyCall \cup {Editors!Null}] /\ saving'[a] = c /\ c # Editors!Null
      /\ \A b \in A : b # a => saving'[b] = saving[b]
  BY <1>1, <1>2, <1>4, NoDoc DEF CopyTyped
<1>6. failed' \in [A -> BOOLEAN] /\ \A b \in A : b # a => failed'[b] = failed[b]
  BY <1>1, <1>2 DEF CopyTyped
<1>7. CopyTyped(A)' BY <1>1, <1>2, <1>5, <1>6 DEF CopyTyped
<1>8. RowsDiffer' BY <1>1, <1>2, SamePayload
<1>9. PanesUntouched(A)' BY <1>1, <1>2, <1>4, <1>5 DEF PanesUntouched
<1>10. ReadsAreCurrent(A)'
  <2> SUFFICES ASSUME \A x, y \in A : x = y, Unreleased' PROVE ReadsAreCurrent(A)' BY DEF ReadsAreCurrent
  <2>1. Unreleased BY <1>1 DEF Unreleased
  <2>2. reading[a].at = "no" BY <1>1, <1>2, <2>1 DEF ReadsAreCurrent
  <2> QED BY <1>1, <1>4, <1>5, <2>2 DEF ReadsAreCurrent
<1>11. SavesSeen(A) BY <1>1, <1>5 DEF SavesSeen
<1> QED BY <1>7, <1>8, <1>9, <1>10, <1>11 DEF CopyGood, CopyInv

LEMMA CopyAnswer ==
  ASSUME NEW A, CopyInv(A), NEW a \in A, Editors!Answer(a)
  PROVE  CopyGood(A)
<1> DEFINE d == IF saving[a].op = "save" THEN Editors!Null ELSE [copy |-> saving[a].copy, overridden |-> FALSE]
<1>1. /\ saving[a] # Editors!Null /\ saving[a].at = "ok"
      /\ saving' = [saving EXCEPT ![a].at = "refresh"] /\ open' = [open EXCEPT ![a] = d]
      /\ reading' = [reading EXCEPT ![a] = [at |-> "sent"]]
      /\ UNCHANGED <<builtin, row, listed, failed, typed>>
  BY DEF Editors!Answer
<1>2. CopyTyped(A) /\ RowsDiffer /\ PanesUntouched(A) /\ ReadsAreCurrent(A) BY DEF CopyInv
<1>3. saving[a] \in CopyCall BY <1>1, <1>2 DEF CopyTyped
<1>4. d \in CopyDoc \cup {Editors!Null} /\ (d # Editors!Null => d.copy = saving[a].copy)
  BY <1>3 DEF CopyDoc, CopyCall
<1> HIDE DEF d
<1>5. /\ saving' \in [A -> CopyCall \cup {Editors!Null}]
      /\ \A b \in A : b # a => saving'[b] = saving[b]
      /\ saving'[a] # Editors!Null /\ saving'[a].at = "refresh" /\ saving'[a].copy = saving[a].copy
  BY <1>1, <1>2, CallMoves
<1>6. /\ open' \in [A -> CopyDoc \cup {Editors!Null}] /\ open'[a] = d
      /\ \A b \in A : b # a => open'[b] = open[b]
  BY <1>1, <1>2, <1>4 DEF CopyTyped
<1>7. [at |-> "sent"] \in CopyReading BY DEF CopyReading
<1>8. /\ reading' \in [A -> CopyReading] /\ reading'[a].at = "sent"
      /\ \A b \in A : b # a => reading'[b] = reading[b]
  BY <1>1, <1>2, <1>7 DEF CopyTyped
<1>9. CopyTyped(A)' BY <1>1, <1>2, <1>5, <1>6, <1>8 DEF CopyTyped
<1>10. RowsDiffer' BY <1>1, <1>2, SamePayload
<1>11. PanesUntouched(A)' BY <1>1, <1>2, <1>4, <1>5, <1>6, <1>8 DEF PanesUntouched
<1>12. ReadsAreCurrent(A)' BY <1>1, <1>2, <1>5, <1>6, <1>8, SamePayload DEF ReadsAreCurrent
<1>13. SavesSeen(A) BY <1>1, <1>5 DEF SavesSeen
<1> QED BY <1>9, <1>10, <1>11, <1>12, <1>13 DEF CopyGood, CopyInv

LEMMA CopyAnswerFailed ==
  ASSUME NEW A, CopyInv(A), NEW a \in A, Editors!AnswerFailed(a)
  PROVE  CopyGood(A)
<1>1. /\ saving[a] # Editors!Null /\ saving[a].at = "failed"
      /\ saving' = [saving EXCEPT ![a] = Editors!Null] /\ failed' = [failed EXCEPT ![a] = TRUE]
      /\ UNCHANGED <<builtin, row, listed, open, reading, typed>>
  BY DEF Editors!AnswerFailed
<1>2. CopyTyped(A) /\ RowsDiffer /\ PanesUntouched(A) /\ ReadsAreCurrent(A) BY DEF CopyInv
<1>3. /\ saving' \in [A -> CopyCall \cup {Editors!Null}] /\ saving'[a] = Editors!Null
      /\ \A b \in A : b # a => saving'[b] = saving[b]
  BY <1>1, <1>2 DEF CopyTyped
<1>4. failed' \in [A -> BOOLEAN] /\ failed'[a] /\ \A b \in A : b # a => failed'[b] = failed[b]
  BY <1>1, <1>2 DEF CopyTyped
<1>5. CopyTyped(A)' BY <1>1, <1>2, <1>3, <1>4 DEF CopyTyped
<1>6. RowsDiffer' BY <1>1, <1>2, SamePayload
<1>7. PanesUntouched(A)' BY <1>1, <1>2, <1>3 DEF PanesUntouched
<1>8. ReadsAreCurrent(A)' BY <1>1, <1>2, <1>3, <1>4, SamePayload DEF ReadsAreCurrent
<1>9. SavesSeen(A) BY <1>1, <1>3 DEF SavesSeen
<1> QED BY <1>5, <1>6, <1>7, <1>8, <1>9 DEF CopyGood, CopyInv

\* A read of the list ends, with or without an answer, and so does the save that
\* was waiting for it.
LEMMA CopyAfterRefresh ==
  ASSUME NEW A, CopyTyped(A), NEW a \in A, Editors!AfterRefresh(a),
         reading' = [reading EXCEPT ![a] = [at |-> "no"]]
  PROVE  /\ saving' \in [A -> CopyCall \cup {Editors!Null}]
         /\ \A b \in A : b # a => saving'[b] = saving[b]
         /\ saving'[a] = IF saving[a] # Editors!Null /\ saving[a].at = "refresh" THEN Editors!Null ELSE saving[a]
         /\ reading' \in [A -> CopyReading] /\ reading'[a].at = "no"
         /\ \A b \in A : b # a => reading'[b] = reading[b]
<1>1. [at |-> "no"] \in CopyReading BY DEF CopyReading
<1> QED BY <1>1 DEF CopyTyped, Editors!AfterRefresh

LEMMA CopyRefreshed ==
  ASSUME NEW A, CopyInv(A), NEW a \in A, Editors!Refreshed(a)
  PROVE  CopyGood(A)
<1>1. /\ reading[a].at = "read" /\ listed' = [listed EXCEPT ![a] = reading[a].payload]
      /\ reading' = [reading EXCEPT ![a] = [at |-> "no"]] /\ Editors!AfterRefresh(a)
      /\ UNCHANGED <<builtin, row, open, failed, typed>>
  BY DEF Editors!Refreshed
<1>2. CopyTyped(A) /\ RowsDiffer /\ PanesUntouched(A) /\ ReadsAreCurrent(A) BY DEF CopyInv
<1>3. /\ saving' \in [A -> CopyCall \cup {Editors!Null}]
      /\ \A b \in A : b # a => saving'[b] = saving[b]
      /\ saving'[a] = IF saving[a] # Editors!Null /\ saving[a].at = "refresh" THEN Editors!Null ELSE saving[a]
      /\ reading' \in [A -> CopyReading] /\ reading'[a].at = "no"
      /\ \A b \in A : b # a => reading'[b] = reading[b]
  BY <1>1, <1>2, CopyAfterRefresh
<1>4. reading[a] \in CopyReading BY <1>2 DEF CopyTyped
<1>5. reading[a].payload \in CopyDoc BY <1>1, <1>4 DEF CopyReading
<1>6. /\ listed' \in [A -> CopyDoc \cup {Editors!Null}] /\ listed'[a] = reading[a].payload
      /\ \A b \in A : b # a => listed'[b] = listed[b]
  BY <1>1, <1>2, <1>5 DEF CopyTyped
<1>7. CopyTyped(A)' BY <1>1, <1>2, <1>3, <1>6 DEF CopyTyped
<1>8. RowsDiffer' BY <1>1, <1>2, SamePayload
<1>9. PanesUntouched(A)' BY <1>1, <1>2, <1>3, <1>6 DEF PanesUntouched
<1>10. ReadsAreCurrent(A)' BY <1>1, <1>2, <1>3, <1>6, SamePayload DEF ReadsAreCurrent
<1>11. SavesSeen(A) BY <1>1, <1>3 DEF SavesSeen
<1> QED BY <1>7, <1>8, <1>9, <1>10, <1>11 DEF CopyGood, CopyInv

LEMMA CopyRefreshFailed ==
  ASSUME NEW A, CopyInv(A), NEW a \in A, Editors!RefreshFailed(a)
  PROVE  CopyGood(A)
<1>1. /\ reading[a].at # "no" /\ failed' = [failed EXCEPT ![a] = TRUE]
      /\ reading' = [reading EXCEPT ![a] = [at |-> "no"]] /\ Editors!AfterRefresh(a)
      /\ UNCHANGED <<builtin, row, listed, open, typed>>
  BY DEF Editors!RefreshFailed
<1>2. CopyTyped(A) /\ RowsDiffer /\ PanesUntouched(A) /\ ReadsAreCurrent(A) BY DEF CopyInv
<1>3. /\ saving' \in [A -> CopyCall \cup {Editors!Null}]
      /\ \A b \in A : b # a => saving'[b] = saving[b]
      /\ saving'[a] = IF saving[a] # Editors!Null /\ saving[a].at = "refresh" THEN Editors!Null ELSE saving[a]
      /\ reading' \in [A -> CopyReading] /\ reading'[a].at = "no"
      /\ \A b \in A : b # a => reading'[b] = reading[b]
  BY <1>1, <1>2, CopyAfterRefresh
<1>4. failed' \in [A -> BOOLEAN] /\ failed'[a] /\ \A b \in A : b # a => failed'[b] = failed[b]
  BY <1>1, <1>2 DEF CopyTyped
<1>5. CopyTyped(A)' BY <1>1, <1>2, <1>3, <1>4 DEF CopyTyped
<1>6. RowsDiffer' BY <1>1, <1>2, SamePayload
<1>7. PanesUntouched(A)' BY <1>1, <1>2, <1>3 DEF PanesUntouched
<1>8. ReadsAreCurrent(A)' BY <1>1, <1>2, <1>3, <1>4, SamePayload DEF ReadsAreCurrent
<1>9. SavesSeen(A) BY <1>1, <1>3 DEF SavesSeen
<1> QED BY <1>5, <1>6, <1>7, <1>8, <1>9 DEF CopyGood, CopyInv

\* A release makes what was the built-in text an earlier one.
LEMMA CopyRelease ==
  ASSUME NEW A, CopyInv(A), NEW p \in Editors!Pane, Release(p)
  PROVE  CopyGood(A)
<1>1. /\ builtin' = [builtin EXCEPT ![p] = builtin[p] + 1]
      /\ UNCHANGED <<row, listed, open, saving, reading, failed, typed>>
  BY DEF Release
<1>2. CopyTyped(A) /\ RowsDiffer /\ PanesUntouched(A) BY DEF CopyInv
<1>3. builtin \in [Editors!Pane -> Nat \ {0}] BY <1>2 DEF CopyTyped
<1>4. builtin' \in [Editors!Pane -> Nat \ {0}] /\ builtin'[p] > 1 BY <1>1, <1>3
<1>5. \A q \in Editors!Pane : builtin'[q] >= builtin[q] /\ (q # p => builtin'[q] = builtin[q])
  BY <1>1, <1>3
<1>6. CopyTyped(A)' BY <1>1, <1>2, <1>4 DEF CopyTyped
<1>7. RowsDiffer' BY <1>1, <1>2, <1>4, <1>5 DEF RowsDiffer
<1>8. \A q \in Editors!Pane :
        1..builtin[q] \subseteq 1..builtin'[q] /\ 1..(builtin[q] - 1) \subseteq 1..(builtin'[q] - 1)
  BY <1>3, <1>4, <1>5
<1>9. PanesUntouched(A)'
  <2> SUFFICES ASSUME NEW q \in Editors!Pane \ typed
               PROVE  /\ row.text[q] = Editors!Unset \/ row.text[q] \in 1..(builtin'[q] - 1)
                      /\ \A a \in A :
                           /\ listed[a] # Editors!Null => listed[a].copy[q] \in 1..builtin'[q]
                           /\ open[a] # Editors!Null => open[a].copy[q] \in 1..builtin'[q]
                           /\ saving[a] # Editors!Null => saving[a].copy[q] \in 1..builtin'[q]
                           /\ reading[a].at = "read" => reading[a].payload.copy[q] \in 1..builtin'[q]
    BY <1>1 DEF PanesUntouched
  <2> QED BY <1>2, <1>8 DEF PanesUntouched
<1>10. ~Unreleased' BY <1>4 DEF Unreleased
<1>11. ReadsAreCurrent(A)' BY <1>10 DEF ReadsAreCurrent
<1>12. SavesSeen(A) BY <1>1 DEF SavesSeen
<1> QED BY <1>6, <1>7, <1>9, <1>11, <1>12 DEF CopyGood, CopyInv

LEMMA CopyStep ==
  ASSUME NEW A, CopyInv(A), CopyNext(A)
  PROVE  CopyGood(A)
BY CopyServePut, CopyServeDelete, CopyFault, CopyServeList, CopyEdit, CopyBack, CopyType, CopyClick, CopyAnswer,
   CopyAnswerFailed, CopyRefreshed, CopyRefreshFailed, CopyRelease DEF CopyNext

LEMMA CopyUnchanged ==
  ASSUME NEW A, CopyInv(A), UNCHANGED texts
  PROVE  CopyGood(A)
<1>1. UNCHANGED <<builtin, row, listed, open, saving, reading, failed, typed>> BY DEF texts
<1>2. CopyTyped(A)' /\ RowsDiffer' /\ PanesUntouched(A)'
  BY <1>1 DEF CopyInv, CopyTyped, RowsDiffer, PanesUntouched, Unreleased
<1>3. ReadsAreCurrent(A)' BY <1>1, SamePayload DEF CopyInv, ReadsAreCurrent
<1>4. SavesSeen(A) BY <1>1 DEF SavesSeen
<1> QED BY <1>2, <1>3, <1>4 DEF CopyGood, CopyInv

\* Each part's editors take these steps.
LEMMA EditorsSteps == Editors!Next => CopyNext(ForEditors.Admin)
<1> SUFFICES ASSUME Editors!Next PROVE CopyNext(ForEditors.Admin) OBVIOUS
<1>1. Editors!Words \subseteq {w \in Int : w >= -1}
  BY PagesAssumption DEF PagesAssumption, Editors!CopyAssumption, Editors!Words, Editors!Own, Editors!TooLong
<1>2. CASE \E p \in Editors!Pane : Editors!Deploy(p)
  BY <1>2 DEF Editors!Deploy, Release, CopyNext
<1>3. ASSUME NEW a \in ForEditors.Admin, NEW op \in {"save", "reset"},
     Editors!Click(a, op) PROVE CopyNext(ForEditors.Admin)
  <2>1. ClickAny(a, op) BY <1>3 DEF Editors!Click, Editors!Shown, ClickAny, Editors!Null
  <2> QED BY <2>1 DEF CopyNext
<1> QED BY <1>1, <1>2, <1>3 DEF Editors!Next, CopyNext

LEMMA ReleasedSteps == Released!Next => CopyNext(ForReleased.Admin)
<1> SUFFICES ASSUME Released!Next PROVE CopyNext(ForReleased.Admin) OBVIOUS
<1>1. Released!Words \subseteq {w \in Int : w >= -1}
  BY PagesAssumption DEF PagesAssumption, Released!CopyAssumption, Released!Words, Released!Own,
       Released!TooLong
<1>2. Released!Pane = Editors!Pane BY DEF Released!Pane, Editors!Pane
<1>3. CASE \E p \in Released!Pane : Released!Deploy(p)
  BY <1>2, <1>3 DEF Released!Deploy, Release, CopyNext
<1>4. ASSUME NEW a \in ForReleased.Admin, NEW op \in {"save", "reset"},
     Released!Click(a, op) PROVE CopyNext(ForReleased.Admin)
  <2>1. ClickAny(a, op) BY <1>4 DEF Released!Click, Released!Shown, ClickAny, Released!Null, Editors!Null
  <2> QED BY <2>1 DEF CopyNext
<1>5. ASSUME NEW a \in ForReleased.Admin, NEW p \in Released!Pane, NEW w \in Released!Words,
     Released!Type(a, p, w)
      PROVE  CopyNext(ForReleased.Admin)
  <2>1. Editors!Type(a, p, w)
    BY <1>5 DEF Released!Type, Editors!Type, Released!Shown, Editors!Shown, Released!Null, Editors!Null
  <2> QED BY <1>1, <1>2, <2>1 DEF CopyNext
<1>6. ASSUME NEW a \in ForReleased.Admin
      PROVE  /\ Released!ServePut(a) => Editors!ServePut(a)
             /\ Released!ServeDelete(a) => Editors!ServeDelete(a)
             /\ Released!ServeList(a) => Editors!ServeList(a)
  <2>1. Released!ServePut(a) => Editors!ServePut(a)
    BY DEF Released!ServePut, Editors!ServePut, Released!Valid, Editors!Valid, Released!Put, Editors!Put,
         Released!Stored, Editors!Stored, Released!NoRow, Editors!NoRow, Released!Unset, Editors!Unset,
         Released!TooLong, Editors!TooLong, Released!Pane, Editors!Pane, Released!Null, Editors!Null
  <2>2. Released!ServeDelete(a) => Editors!ServeDelete(a)
    BY DEF Released!ServeDelete, Editors!ServeDelete, Released!NoRow, Editors!NoRow, Released!Unset,
         Editors!Unset, Released!Pane, Editors!Pane, Released!Null, Editors!Null
  <2>3. Released!ServeList(a) => Editors!ServeList(a)
    BY DEF Released!ServeList, Editors!ServeList, Released!Payload, Editors!Payload, Released!Effective,
         Editors!Effective, Released!Unset, Editors!Unset, Released!Pane, Editors!Pane
  <2> QED BY <2>1, <2>2, <2>3
<1>7. ASSUME NEW a \in ForReleased.Admin
      PROVE  (Released!Fault(a) \/ Released!Edit(a) \/ Released!Back(a) \/ Released!Answer(a) \/ Released!AnswerFailed(a)
                \/ Released!Refreshed(a) \/ Released!RefreshFailed(a)) => CopyNext(ForReleased.Admin)
  <2>1. Released!Fault(a) => Editors!Fault(a)
    BY DEF Released!Fault, Editors!Fault, Released!Null, Editors!Null
  <2>2. Released!Edit(a) => Editors!Edit(a)
    BY DEF Released!Edit, Editors!Edit, Released!Shown, Editors!Shown, Released!Null, Editors!Null
  <2>3. Released!Back(a) => Editors!Back(a)
    BY DEF Released!Back, Editors!Back, Released!Shown, Editors!Shown, Released!Null, Editors!Null
  <2>4. Released!Answer(a) => Editors!Answer(a)
    BY DEF Released!Answer, Editors!Answer, Released!Null, Editors!Null
  <2>5. Released!AnswerFailed(a) => Editors!AnswerFailed(a)
    BY DEF Released!AnswerFailed, Editors!AnswerFailed, Released!Null, Editors!Null
  <2>6. Released!Refreshed(a) => Editors!Refreshed(a)
    BY DEF Released!Refreshed, Editors!Refreshed, Released!AfterRefresh, Editors!AfterRefresh, Released!Null,
         Editors!Null
  <2>7. Released!RefreshFailed(a) => Editors!RefreshFailed(a)
    BY DEF Released!RefreshFailed, Editors!RefreshFailed, Released!AfterRefresh, Editors!AfterRefresh,
         Released!Null, Editors!Null
  <2> QED BY <2>1, <2>2, <2>3, <2>4, <2>5, <2>6, <2>7 DEF CopyNext
<1>8. ASSUME NEW a \in ForReleased.Admin,
     Released!ServePut(a) \/ Released!ServeDelete(a) \/ Released!ServeList(a)
      PROVE  CopyNext(ForReleased.Admin)
  BY <1>6, <1>8 DEF CopyNext
<1> QED BY <1>3, <1>4, <1>5, <1>7, <1>8 DEF Released!Next

LEMMA EditorSteps == Editor!Next => CopyNext(ForEditor.Admin)
<1> SUFFICES ASSUME Editor!Next PROVE CopyNext(ForEditor.Admin) OBVIOUS
<1>1. Editor!Words \subseteq {w \in Int : w >= -1}
  BY PagesAssumption DEF PagesAssumption, Editor!CopyAssumption, Editor!Words, Editor!Own, Editor!TooLong
<1>2. Editor!Pane = Editors!Pane BY DEF Editor!Pane, Editors!Pane
<1>3. CASE \E p \in Editor!Pane : Editor!Deploy(p)
  BY <1>2, <1>3 DEF Editor!Deploy, Release, CopyNext
<1>4. ASSUME NEW a \in ForEditor.Admin, NEW op \in {"save", "reset"},
     Editor!Click(a, op) PROVE CopyNext(ForEditor.Admin)
  <2>1. ClickAny(a, op) BY <1>4 DEF Editor!Click, Editor!Shown, ClickAny, Editor!Null, Editors!Null
  <2> QED BY <2>1 DEF CopyNext
<1>5. ASSUME NEW a \in ForEditor.Admin, NEW p \in Editor!Pane, NEW w \in Editor!Words, Editor!Type(a, p, w)
      PROVE  CopyNext(ForEditor.Admin)
  <2>1. Editors!Type(a, p, w)
    BY <1>5 DEF Editor!Type, Editors!Type, Editor!Shown, Editors!Shown, Editor!Null, Editors!Null
  <2> QED BY <1>1, <1>2, <2>1 DEF CopyNext
<1>6. ASSUME NEW a \in ForEditor.Admin
      PROVE  /\ Editor!ServePut(a) => Editors!ServePut(a)
             /\ Editor!ServeDelete(a) => Editors!ServeDelete(a)
             /\ Editor!ServeList(a) => Editors!ServeList(a)
  <2>1. Editor!ServePut(a) => Editors!ServePut(a)
    BY DEF Editor!ServePut, Editors!ServePut, Editor!Valid, Editors!Valid, Editor!Put, Editors!Put,
         Editor!Stored, Editors!Stored, Editor!NoRow, Editors!NoRow, Editor!Unset, Editors!Unset,
         Editor!TooLong, Editors!TooLong, Editor!Pane, Editors!Pane, Editor!Null, Editors!Null
  <2>2. Editor!ServeDelete(a) => Editors!ServeDelete(a)
    BY DEF Editor!ServeDelete, Editors!ServeDelete, Editor!NoRow, Editors!NoRow, Editor!Unset, Editors!Unset,
         Editor!Pane, Editors!Pane, Editor!Null, Editors!Null
  <2>3. Editor!ServeList(a) => Editors!ServeList(a)
    BY DEF Editor!ServeList, Editors!ServeList, Editor!Payload, Editors!Payload, Editor!Effective,
         Editors!Effective, Editor!Unset, Editors!Unset, Editor!Pane, Editors!Pane
  <2> QED BY <2>1, <2>2, <2>3
<1>7. ASSUME NEW a \in ForEditor.Admin
      PROVE  (Editor!Fault(a) \/ Editor!Edit(a) \/ Editor!Back(a) \/ Editor!Answer(a) \/ Editor!AnswerFailed(a)
                \/ Editor!Refreshed(a) \/ Editor!RefreshFailed(a)) => CopyNext(ForEditor.Admin)
  <2>1. Editor!Fault(a) => Editors!Fault(a)
    BY DEF Editor!Fault, Editors!Fault, Editor!Null, Editors!Null
  <2>2. Editor!Edit(a) => Editors!Edit(a)
    BY DEF Editor!Edit, Editors!Edit, Editor!Shown, Editors!Shown, Editor!Null, Editors!Null
  <2>3. Editor!Back(a) => Editors!Back(a)
    BY DEF Editor!Back, Editors!Back, Editor!Shown, Editors!Shown, Editor!Null, Editors!Null
  <2>4. Editor!Answer(a) => Editors!Answer(a)
    BY DEF Editor!Answer, Editors!Answer, Editor!Null, Editors!Null
  <2>5. Editor!AnswerFailed(a) => Editors!AnswerFailed(a)
    BY DEF Editor!AnswerFailed, Editors!AnswerFailed, Editor!Null, Editors!Null
  <2>6. Editor!Refreshed(a) => Editors!Refreshed(a)
    BY DEF Editor!Refreshed, Editors!Refreshed, Editor!AfterRefresh, Editors!AfterRefresh, Editor!Null,
         Editors!Null
  <2>7. Editor!RefreshFailed(a) => Editors!RefreshFailed(a)
    BY DEF Editor!RefreshFailed, Editors!RefreshFailed, Editor!AfterRefresh, Editors!AfterRefresh, Editor!Null,
         Editors!Null
  <2> QED BY <2>1, <2>2, <2>3, <2>4, <2>5, <2>6, <2>7 DEF CopyNext
<1>8. ASSUME NEW a \in ForEditor.Admin, Editor!ServePut(a) \/ Editor!ServeDelete(a) \/ Editor!ServeList(a)
      PROVE  CopyNext(ForEditor.Admin)
  BY <1>6, <1>8 DEF CopyNext
<1> QED BY <1>3, <1>4, <1>5, <1>7, <1>8 DEF Editor!Next

---------------------------------------------------------------------------
(* The page of a metric. *)

Slots == {"data", "cycles", "panel", "sma", "story"}
PageRequest(metrics, ranges) ==
  [what : Slots, of : metrics, range : ranges, price : BOOLEAN, live : Nat]

\* The requests of a sequence.
Among(s) == {s[i] : i \in DOMAIN s}

NoneOf(s, what) == \A i \in DOMAIN s : s[i].what # what

\* The last request for something is one of those wanted.
LastIs(s, what, wanted) ==
  \E i \in DOMAIN s :
    s[i].what = what /\ s[i] \in wanted /\ \A j \in DOMAIN s : j > i => s[j].what # what

LEMMA Appended ==
  ASSUME NEW S, NEW s \in Seq(S), NEW t \in Seq(S)
  PROVE  /\ s \o t \in Seq(S) /\ Among(s \o t) = Among(s) \cup Among(t)
         /\ DOMAIN (s \o t) = 1..(Len(s) + Len(t))
         /\ \A i \in 1..Len(s) : (s \o t)[i] = s[i]
         /\ \A i \in 1..Len(t) : (s \o t)[Len(s) + i] = t[i]
<1>1. /\ s \o t \in Seq(S) /\ Len(s \o t) = Len(s) + Len(t)
      /\ \A i \in 1..Len(s) + Len(t) : (s \o t)[i] = IF i <= Len(s) THEN s[i] ELSE t[i - Len(s)]
  BY ConcatProperties
<1>2. Len(s) \in Nat /\ Len(t) \in Nat /\ DOMAIN s = 1..Len(s) /\ DOMAIN t = 1..Len(t) OBVIOUS
<1>3. DOMAIN (s \o t) = 1..(Len(s) + Len(t)) BY <1>1
<1>4. \A i \in 1..Len(s) : (s \o t)[i] = s[i] BY <1>1, <1>2
<1>5. \A i \in 1..Len(t) : (s \o t)[Len(s) + i] = t[i] BY <1>1, <1>2
<1>6. Among(s \o t) \subseteq Among(s) \cup Among(t)
  <2> SUFFICES ASSUME NEW i \in 1..(Len(s) + Len(t)) PROVE (s \o t)[i] \in Among(s) \cup Among(t)
    BY <1>3 DEF Among
  <2>1. CASE i <= Len(s) BY <1>1, <1>2, <2>1 DEF Among
  <2>2. CASE i > Len(s)
    <3>1. i - Len(s) \in DOMAIN t /\ (s \o t)[i] = t[i - Len(s)] BY <1>1, <1>2, <2>2
    <3> QED BY <3>1 DEF Among
  <2> QED BY <1>2, <2>1, <2>2
<1>7. Among(s) \subseteq Among(s \o t)
  <2> SUFFICES ASSUME NEW i \in 1..Len(s) PROVE s[i] \in Among(s \o t) BY <1>2 DEF Among
  <2>1. i \in DOMAIN (s \o t) BY <1>2, <1>3
  <2> QED BY <1>4, <2>1 DEF Among
<1>8. Among(t) \subseteq Among(s \o t)
  <2> SUFFICES ASSUME NEW i \in 1..Len(t) PROVE t[i] \in Among(s \o t) BY <1>2 DEF Among
  <2>1. Len(s) + i \in DOMAIN (s \o t) BY <1>2, <1>3
  <2> QED BY <1>5, <2>1 DEF Among
<1> QED BY <1>1, <1>3, <1>4, <1>5, <1>6, <1>7, <1>8

LEMMA LastAppended ==
  ASSUME NEW S, NEW s \in Seq(S), NEW t \in Seq(S), NEW what, NEW wanted
  PROVE  /\ LastIs(t, what, wanted) => LastIs(s \o t, what, wanted)
         /\ LastIs(s, what, wanted) /\ NoneOf(t, what) => LastIs(s \o t, what, wanted)
         /\ NoneOf(s, what) /\ NoneOf(t, what) => NoneOf(s \o t, what)
<1> DEFINE u == s \o t
<1>1. /\ DOMAIN u = 1..(Len(s) + Len(t)) /\ \A i \in 1..Len(s) : u[i] = s[i]
      /\ \A i \in 1..Len(t) : u[Len(s) + i] = t[i]
  BY Appended
<1>2. Len(s) \in Nat /\ Len(t) \in Nat /\ DOMAIN s = 1..Len(s) /\ DOMAIN t = 1..Len(t) OBVIOUS
<1> HIDE DEF u
<1>3. \A j \in DOMAIN u : j > Len(s) => j - Len(s) \in DOMAIN t /\ u[j] = t[j - Len(s)]
  <2> SUFFICES ASSUME NEW j \in DOMAIN u, j > Len(s) PROVE j - Len(s) \in DOMAIN t /\ u[j] = t[j - Len(s)] OBVIOUS
  <2>1. j - Len(s) \in 1..Len(t) BY <1>1, <1>2
  <2>2. u[Len(s) + (j - Len(s))] = t[j - Len(s)] BY <1>1, <2>1
  <2>3. Len(s) + (j - Len(s)) = j BY <1>1, <1>2
  <2> QED BY <1>2, <2>1, <2>2, <2>3
<1>4. ASSUME LastIs(t, what, wanted) PROVE LastIs(u, what, wanted)
  <2>1. PICK i \in DOMAIN t :
          t[i].what = what /\ t[i] \in wanted /\ \A j \in DOMAIN t : j > i => t[j].what # what
    BY <1>4 DEF LastIs
  <2>2. Len(s) + i \in DOMAIN u /\ u[Len(s) + i] = t[i] BY <1>1, <1>2
  <2>3. ASSUME NEW j \in DOMAIN u, j > Len(s) + i PROVE u[j].what # what
    <3>1. j > Len(s) /\ j - Len(s) > i BY <1>1, <1>2, <2>3
    <3> QED BY <1>3, <2>1, <3>1
  <2> QED BY <2>1, <2>2, <2>3 DEF LastIs
<1>5. ASSUME LastIs(s, what, wanted), NoneOf(t, what) PROVE LastIs(u, what, wanted)
  <2>1. PICK i \in DOMAIN s :
          s[i].what = what /\ s[i] \in wanted /\ \A j \in DOMAIN s : j > i => s[j].what # what
    BY <1>5 DEF LastIs
  <2>2. i \in DOMAIN u /\ u[i] = s[i] BY <1>1, <1>2
  <2>3. ASSUME NEW j \in DOMAIN u, j > i PROVE u[j].what # what
    <3>1. CASE j <= Len(s)
      <4>1. j \in DOMAIN s /\ u[j] = s[j] BY <1>1, <1>2, <3>1
      <4> QED BY <2>1, <2>3, <4>1
    <3>2. CASE j > Len(s) BY <1>3, <1>5, <3>2 DEF NoneOf
    <3> QED BY <1>1, <1>2, <3>1, <3>2
  <2> QED BY <2>1, <2>2, <2>3 DEF LastIs
<1>6. ASSUME NoneOf(s, what), NoneOf(t, what), NEW j \in DOMAIN u PROVE u[j].what # what
  <2>1. CASE j <= Len(s)
    <3>1. j \in DOMAIN s /\ u[j] = s[j] BY <1>1, <1>2, <2>1
    <3> QED BY <1>6, <3>1 DEF NoneOf
  <2>2. CASE j > Len(s) BY <1>3, <1>6, <2>2 DEF NoneOf
  <2> QED BY <1>1, <1>2, <2>1, <2>2
<1>7. NoneOf(s, what) /\ NoneOf(t, what) => NoneOf(u, what) BY <1>6 DEF NoneOf
<1> QED BY <1>4, <1>5, <1>7 DEF u

\* What is left without one request.
LEMMA Without ==
  ASSUME NEW S, NEW s \in Seq(S), NEW i \in DOMAIN s
  PROVE  /\ Racing!RemoveAt(s, i) \in Seq(S) /\ Among(Racing!RemoveAt(s, i)) \subseteq Among(s)
         /\ \A x \in Among(s) : x # s[i] => x \in Among(Racing!RemoveAt(s, i))
         /\ DOMAIN Racing!RemoveAt(s, i) = 1..(Len(s) - 1)
         /\ \A k \in 1..(Len(s) - 1) : Racing!RemoveAt(s, i)[k] = IF k < i THEN s[k] ELSE s[k + 1]
<1> DEFINE u == Racing!RemoveAt(s, i)
<1>1. PICK a : a = SubSeq(s, 1, i - 1) OBVIOUS
<1>2. PICK b : b = SubSeq(s, i + 1, Len(s)) OBVIOUS
<1>3. Len(s) \in Nat /\ DOMAIN s = 1..Len(s) /\ i \in 1..Len(s) OBVIOUS
<1>4. a \in Seq(S) /\ Len(a) = i - 1 /\ \A k \in 1..(i - 1) : a[k] = s[k]
  BY <1>3, <1>1
<1>5. b \in Seq(S) /\ Len(b) = Len(s) - i /\ \A k \in 1..(Len(s) - i) : b[k] = s[i + k]
  BY <1>3, <1>2
<1>6. u = a \o b BY <1>1, <1>2 DEF Racing!RemoveAt
<1> HIDE DEF u
<1>7. a \in Seq(S) /\ b \in Seq(S) BY <1>4, <1>5
<1>8. /\ a \o b \in Seq(S) /\ DOMAIN (a \o b) = 1..(Len(a) + Len(b))
      /\ \A k \in 1..Len(a) : (a \o b)[k] = a[k]
      /\ \A k \in 1..Len(b) : (a \o b)[Len(a) + k] = b[k]
  BY <1>7, Appended
<1>9. /\ u \in Seq(S) /\ DOMAIN u = 1..(Len(a) + Len(b))
      /\ \A k \in 1..Len(a) : u[k] = a[k]
      /\ \A k \in 1..Len(b) : u[Len(a) + k] = b[k]
  BY <1>6, <1>8
<1>10. DOMAIN u = 1..(Len(s) - 1) BY <1>3, <1>4, <1>5, <1>9
<1>11. ASSUME NEW k \in 1..(Len(s) - 1) PROVE u[k] = IF k < i THEN s[k] ELSE s[k + 1]
  <2>1. CASE k < i
    <3>1. k \in 1..(i - 1) /\ k \in 1..Len(a) BY <1>3, <1>4, <2>1
    <3>2. u[k] = a[k] BY <1>9, <3>1
    <3>3. a[k] = s[k] BY <1>4, <3>1
    <3> QED BY <2>1, <3>2, <3>3
  <2>2. CASE k >= i
    <3>1. k - (i - 1) \in 1..(Len(s) - i) BY <1>3, <2>2
    <3>2. u[Len(a) + (k - (i - 1))] = b[k - (i - 1)] BY <1>5, <1>9, <3>1
    <3>3. b[k - (i - 1)] = s[i + (k - (i - 1))] BY <1>5, <3>1
    <3>4. Len(a) + (k - (i - 1)) = k /\ i + (k - (i - 1)) = k + 1 BY <1>3, <1>4
    <3> QED BY <1>3, <2>2, <3>2, <3>3, <3>4
  <2> QED BY <1>3, <2>1, <2>2
<1>12. Among(u) \subseteq Among(s)
  <2> SUFFICES ASSUME NEW k \in 1..(Len(s) - 1) PROVE u[k] \in Among(s) BY <1>10 DEF Among
  <2>1. k \in DOMAIN s /\ k + 1 \in DOMAIN s BY <1>3
  <2> QED BY <1>11, <2>1 DEF Among
<1>13. ASSUME NEW k \in DOMAIN s, k # i PROVE s[k] \in Among(u)
  <2>1. CASE k < i
    <3>1. k \in 1..(Len(s) - 1) /\ u[k] = s[k] BY <1>3, <1>11, <2>1
    <3> QED BY <1>10, <3>1 DEF Among
  <2>2. CASE k > i
    <3>1. k - 1 \in 1..(Len(s) - 1) BY <1>3, <2>2
    <3>2. u[k - 1] = s[k] BY <1>3, <1>11, <2>2, <3>1
    <3> QED BY <1>10, <3>1, <3>2 DEF Among
  <2> QED BY <1>3, <1>13, <2>1, <2>2
<1>14. \A x \in Among(s) : x # s[i] => x \in Among(u) BY <1>13 DEF Among
<1> QED BY <1>9, <1>10, <1>11, <1>12, <1>14 DEF u

\* The first request is taken away.
LEMMA LastWithoutFirst ==
  ASSUME NEW S, NEW s \in Seq(S), 1 \in DOMAIN s, NEW what, NEW wanted
  PROVE  /\ NoneOf(s, what) => NoneOf(Racing!RemoveAt(s, 1), what)
         /\ LastIs(s, what, wanted) =>
              \/ LastIs(Racing!RemoveAt(s, 1), what, wanted)
              \/ NoneOf(Racing!RemoveAt(s, 1), what) /\ s[1].what = what /\ s[1] \in wanted
<1> DEFINE u == Racing!RemoveAt(s, 1)
<1>1. DOMAIN u = 1..(Len(s) - 1) /\ \A k \in 1..(Len(s) - 1) : u[k] = IF k < 1 THEN s[k] ELSE s[k + 1]
  BY Without
<1>2. Len(s) \in Nat /\ DOMAIN s = 1..Len(s) OBVIOUS
<1> HIDE DEF u
<1>3. \A k \in DOMAIN u : k + 1 \in DOMAIN s /\ u[k] = s[k + 1] BY <1>1, <1>2
<1>4. NoneOf(s, what) => NoneOf(u, what) BY <1>3 DEF NoneOf
<1>5. ASSUME LastIs(s, what, wanted)
      PROVE  LastIs(u, what, wanted) \/ (NoneOf(u, what) /\ s[1].what = what /\ s[1] \in wanted)
  <2>1. PICK i \in DOMAIN s :
          s[i].what = what /\ s[i] \in wanted /\ \A j \in DOMAIN s : j > i => s[j].what # what
    BY <1>5 DEF LastIs
  <2>2. CASE i = 1
    <3>1. ASSUME NEW k \in DOMAIN u PROVE u[k].what # what
      <4>1. k + 1 > i BY <1>1, <1>2, <2>2
      <4> QED BY <1>3, <2>1, <4>1
    <3> QED BY <2>1, <2>2, <3>1 DEF NoneOf
  <2>3. CASE i # 1
    <3>1. i - 1 \in DOMAIN u BY <1>1, <1>2, <2>3
    <3>2. (i - 1) + 1 = i BY <1>2
    <3>3. u[i - 1] = s[i] BY <1>3, <3>1, <3>2
    <3>4. ASSUME NEW k \in DOMAIN u, k > i - 1 PROVE u[k].what # what
      <4>1. k + 1 > i BY <1>1, <1>2, <3>4
      <4> QED BY <1>3, <2>1, <4>1
    <3> QED BY <2>1, <3>1, <3>3, <3>4 DEF LastIs
  <2> QED BY <2>2, <2>3
<1> QED BY <1>4, <1>5 DEF u

\* What is chosen and asked for, for any metrics and ranges.
PageTyped(metrics, ranges) ==
  /\ metric \in metrics /\ view \in {"series", "cycles"} /\ range \in ranges
  /\ price \in BOOLEAN /\ smaOn \in BOOLEAN /\ err \in BOOLEAN /\ live \in Nat
  /\ flight \in Seq(PageRequest(metrics, ranges))
  /\ held \in [Slots -> PageRequest(metrics, ranges) \cup {Racing!Null, Racing!NoRows}]

DrawnOf(lines) == IF metric \notin lines THEN "panel" ELSE IF view = "cycles" THEN "cycles" ELSE "data"

\* The requests whose answers are to be drawn.
WantedOf(lines, metrics, ranges) ==
  {x \in PageRequest(metrics, ranges) :
     /\ x.what = DrawnOf(lines) /\ x.of = metric
     /\ x.what = "data" => x.range = range /\ x.price = price}

\* Another metric: it is asked for last, its story counts from now on.
Opened(lines, metrics, ranges) ==
  /\ live' = live + 1 /\ held'["story"] = Racing!Null
  /\ \A x \in Among(flight') : x \notin Among(flight) => (x.what = "story" => x.of = metric' /\ x.live = live')
  /\ LastIs(flight', DrawnOf(lines)', WantedOf(lines, metrics, ranges)')

\* Another choice: it is asked for last, unless it is what was drawn before, or
\* the cycles that are held.
Chose(lines, metrics, ranges) ==
  /\ UNCHANGED <<metric, live>> /\ held'["story"] = held["story"]
  /\ Among(flight) \subseteq Among(flight')
  /\ \A x \in Among(flight') : x \notin Among(flight) => x.what # "story"
  /\ \/ LastIs(flight', DrawnOf(lines)', WantedOf(lines, metrics, ranges)')
     \/ DrawnOf(lines)' = "cycles" /\ held'["cycles"] # Racing!Null
     \/ /\ UNCHANGED <<view, range, price, held, err>>
        /\ \A what \in {"data", "panel"}, wanted \in SUBSET PageRequest(metrics, ranges) :
             /\ LastIs(flight, what, wanted) => LastIs(flight', what, wanted)
             /\ NoneOf(flight, what) => NoneOf(flight', what)

\* An answer is stored, except a story that is no longer wanted.
Replied(i) ==
  /\ flight' = Racing!RemoveAt(flight, i) /\ UNCHANGED <<metric, view, range, price, smaOn, err, live>>
  /\ \/ held' = [held EXCEPT ![flight[i].what] = flight[i]] /\ (flight[i].what = "story" => flight[i].live = live)
     \/ held' = held /\ flight[i].what = "story"

\* A failure is shown, except that of a story or of averages.
FailedAt(i) ==
  /\ flight' = Racing!RemoveAt(flight, i) /\ UNCHANGED <<metric, view, range, price, smaOn, live>>
  /\ err => err'
  /\ flight[i].what \notin {"sma", "story"} => err'
  /\ \A s \in Slots \ {"sma", "story"} : held'[s] = held[s]
  /\ held'["story"] \in {held["story"], Racing!Null}

PageStep(lines, metrics, ranges, next) ==
  \/ Opened(lines, metrics, ranges) \/ Chose(lines, metrics, ranges)
  \/ \E i \in next : Replied(i) \/ FailedAt(i)
  \/ UNCHANGED <<metric, view, range, price, smaOn, held, err, flight, live>>

LEMMA PageShown == ASSUME NEW S, NEW x \in S PROVE <<x>> \in Seq(S) /\ Among(<<x>>) = {x} /\ DOMAIN <<x>> = 1..1 /\ <<x>>[1] = x
BY DEF Among

LEMMA Nothing ==
  ASSUME NEW S
  PROVE  <<>> \in Seq(S) /\ Among(<<>>) = {} /\ \A what : NoneOf(<<>>, what)
<1>1. <<>> \in Seq(S) BY EmptySeq
<1>2. DOMAIN <<>> = {} OBVIOUS
<1> QED BY <1>1, <1>2 DEF Among, NoneOf

\* One request.
LEMMA Single ==
  ASSUME NEW S, NEW x \in S, NEW what, NEW wanted
  PROVE  /\ x.what = what /\ x \in wanted => LastIs(<<x>>, what, wanted)
         /\ x.what # what => NoneOf(<<x>>, what)
BY PageShown DEF LastIs, NoneOf

RacingMetrics == ForRacing.Lines \cup ForRacing.Panels
ChoosingMetrics == ForChoosing.Lines \cup ForChoosing.Panels

\* The requests of the effects.
SmaOf(metrics, ranges, s) ==
  /\ s \in Seq(PageRequest(metrics, ranges)) /\ \A x \in Among(s) : x.what = "sma"
  /\ \A what : what # "sma" => NoneOf(s, what)
  /\ s = <<>> \/ \E q \in PageRequest(metrics, ranges) : s = <<q>> /\ q.what = "sma"

BaseOf(lines, metrics, ranges, m, v, rg, pr, cyc, s) ==
  \/ m \in lines /\ v = "cycles" /\ cyc # Racing!Null /\ s = <<>>
  \/ \E q \in PageRequest(metrics, ranges) :
       /\ s = <<q>> /\ q.of = m
       /\ q.what = IF m \notin lines THEN "panel" ELSE IF v = "cycles" THEN "cycles" ELSE "data"
       /\ q.what = "data" => q.range = rg /\ q.price = pr

LEMMA RacingRequest ==
  ASSUME range \in ForRacing.Ranges, price \in BOOLEAN, NEW what \in Slots, NEW m \in RacingMetrics
  PROVE  /\ Racing!Request(what, m) \in PageRequest(RacingMetrics, ForRacing.Ranges)
         /\ Racing!Request(what, m).what = what /\ Racing!Request(what, m).of = m
BY DEF Racing!Request, PageRequest

LEMMA RacingStory ==
  ASSUME range \in ForRacing.Ranges, price \in BOOLEAN, NEW m \in RacingMetrics, NEW n \in Nat
  PROVE  /\ Racing!StoryEffect(m, n) \in Seq(PageRequest(RacingMetrics, ForRacing.Ranges))
         /\ \A x \in Among(Racing!StoryEffect(m, n)) : x.what = "story" /\ x.of = m /\ x.live = n
         /\ \A what : what # "story" => NoneOf(Racing!StoryEffect(m, n), what)
<1> DEFINE q == [Racing!Request("story", m) EXCEPT !.live = n]
<1>1. Racing!Request("story", m) \in PageRequest(RacingMetrics, ForRacing.Ranges) /\ Racing!Request("story", m).what = "story"
      /\ Racing!Request("story", m).of = m
  BY RacingRequest DEF Slots
<1>2. q \in PageRequest(RacingMetrics, ForRacing.Ranges) /\ q.what = "story" /\ q.of = m /\ q.live = n
  BY <1>1 DEF PageRequest
<1>3. Racing!StoryEffect(m, n) = <<q>> \/ Racing!StoryEffect(m, n) = <<>> BY DEF Racing!StoryEffect
<1> HIDE DEF q
<1>4. PICK P : P = PageRequest(RacingMetrics, ForRacing.Ranges) OBVIOUS
<1>5. PICK e : e = Racing!StoryEffect(m, n) OBVIOUS
<1>6. q \in P BY <1>2, <1>4
<1>7. CASE e = <<q>>
  <2>1. e \in Seq(P) /\ Among(e) = {q} BY <1>6, <1>7, PageShown
  <2>2. \A what : what # "story" => NoneOf(e, what) BY <1>2, <1>6, <1>7, Single
  <2> QED BY <1>2, <1>4, <1>5, <2>1, <2>2
<1>8. CASE e = <<>>
  <2>1. e \in Seq(P) /\ Among(e) = {} /\ \A what : NoneOf(e, what) BY <1>8, Nothing
  <2> QED BY <1>4, <1>5, <2>1
<1> QED BY <1>3, <1>5, <1>7, <1>8

LEMMA RacingSma ==
  ASSUME range \in ForRacing.Ranges, price \in BOOLEAN, NEW m \in RacingMetrics, NEW v, NEW on, NEW src
  PROVE  SmaOf(RacingMetrics, ForRacing.Ranges, Racing!SmaEffect(m, v, on, src))
<1> DEFINE q == Racing!Request("sma", m)
<1>1. q \in PageRequest(RacingMetrics, ForRacing.Ranges) /\ q.what = "sma" BY RacingRequest DEF Slots
<1>0. PICK s : s = Racing!SmaEffect(m, v, on, src) OBVIOUS
<1>2. s = <<q>> \/ s = <<>> BY <1>0 DEF Racing!SmaEffect
<1> HIDE DEF q
<1>3. PICK P : P = PageRequest(RacingMetrics, ForRacing.Ranges) OBVIOUS
<1>4. q \in P BY <1>1, <1>3
<1>5. CASE s = <<q>>
  <2>1. s \in Seq(P) /\ Among(s) = {q} BY <1>4, <1>5, PageShown
  <2>2. \A what : what # "sma" => NoneOf(s, what) BY <1>1, <1>4, <1>5, Single
  <2>3. SmaOf(RacingMetrics, ForRacing.Ranges, s) BY <1>1, <1>3, <1>5, <2>1, <2>2 DEF SmaOf
  <2> QED BY <1>0, <2>3
<1>6. CASE s = <<>>
  <2>1. s \in Seq(P) /\ Among(s) = {} /\ \A what : NoneOf(s, what) BY <1>6, Nothing
  <2>2. SmaOf(RacingMetrics, ForRacing.Ranges, s) BY <1>3, <1>6, <2>1 DEF SmaOf
  <2> QED BY <1>0, <2>2
<1> QED BY <1>2, <1>5, <1>6

\* The series, the panel or the cycles of a metric are one request, unless they
\* are cycles that are held.
LEMMA RacingBase ==
  ASSUME range \in ForRacing.Ranges, price \in BOOLEAN, NEW m \in RacingMetrics,
       NEW v \in {"series", "cycles"}, NEW rg \in ForRacing.Ranges, NEW pr \in BOOLEAN,
         NEW cyc
  PROVE  BaseOf(ForRacing.Lines, RacingMetrics, ForRacing.Ranges, m, v, rg, pr, cyc, Racing!BaseEffect(m, v, rg, pr, cyc))
<1>0. PICK s : s = Racing!BaseEffect(m, v, rg, pr, cyc) OBVIOUS
<1>1. Racing!Null = Racing!Null BY DEF Racing!Null, Racing!Null
<1>2. m \in ForRacing.Panels <=> m \notin ForRacing.Lines
  BY PagesAssumption DEF PagesAssumption, Racing!PageAssumption, RacingMetrics
<1>3. CASE m \notin ForRacing.Lines
  <2>1. s = <<Racing!Request("panel", m)>> BY <1>0, <1>2, <1>3 DEF Racing!BaseEffect
  <2>2. Racing!Request("panel", m) \in PageRequest(RacingMetrics, ForRacing.Ranges) /\ Racing!Request("panel", m).what = "panel"
        /\ Racing!Request("panel", m).of = m
    BY RacingRequest DEF Slots
  <2>3. BaseOf(ForRacing.Lines, RacingMetrics, ForRacing.Ranges, m, v, rg, pr, cyc, s)
    BY <1>3, <2>1, <2>2 DEF BaseOf
  <2> QED BY <1>0, <2>3
<1>4. CASE m \in ForRacing.Lines /\ v = "cycles" /\ cyc = Racing!Null
  <2>1. s = <<Racing!Request("cycles", m)>> BY <1>0, <1>1, <1>2, <1>4 DEF Racing!BaseEffect
  <2>2. Racing!Request("cycles", m) \in PageRequest(RacingMetrics, ForRacing.Ranges) /\ Racing!Request("cycles", m).what = "cycles"
        /\ Racing!Request("cycles", m).of = m
    BY RacingRequest DEF Slots
  <2>3. BaseOf(ForRacing.Lines, RacingMetrics, ForRacing.Ranges, m, v, rg, pr, cyc, s)
    BY <1>4, <2>1, <2>2 DEF BaseOf
  <2> QED BY <1>0, <2>3
<1>5. CASE m \in ForRacing.Lines /\ v = "cycles" /\ cyc # Racing!Null
  <2>1. s = <<>> BY <1>0, <1>1, <1>2, <1>5 DEF Racing!BaseEffect
  <2>2. BaseOf(ForRacing.Lines, RacingMetrics, ForRacing.Ranges, m, v, rg, pr, cyc, s) BY <1>5, <2>1 DEF BaseOf
  <2> QED BY <1>0, <2>2
<1>6. CASE m \in ForRacing.Lines /\ v = "series"
  <2> DEFINE q == [Racing!Request("data", m) EXCEPT !.range = rg, !.price = pr]
  <2>1. Racing!Request("data", m) \in PageRequest(RacingMetrics, ForRacing.Ranges) /\ Racing!Request("data", m).what = "data"
        /\ Racing!Request("data", m).of = m
    BY RacingRequest DEF Slots
  <2>2. q \in PageRequest(RacingMetrics, ForRacing.Ranges) /\ q.what = "data" /\ q.of = m /\ q.range = rg /\ q.price = pr
    BY <2>1 DEF PageRequest
  <2>3. s = <<q>> BY <1>0, <1>2, <1>6 DEF Racing!BaseEffect
  <2> HIDE DEF q
  <2>4. BaseOf(ForRacing.Lines, RacingMetrics, ForRacing.Ranges, m, v, rg, pr, cyc, s)
    BY <1>6, <2>2, <2>3 DEF BaseOf
  <2> QED BY <1>0, <2>4
<1> QED BY <1>3, <1>4, <1>5, <1>6

LEMMA RacingEmptied ==
  ASSUME NEW X, NEW h \in [Slots -> X], Racing!Null \in X, NEW asked
  PROVE  /\ Racing!Emptied(h, asked) \in [Slots -> X]
         /\ \A s \in Slots \ {"data", "panel"} : Racing!Emptied(h, asked)[s] = h[s]
         /\ asked = <<>> => Racing!Emptied(h, asked) = h
<1>1. Racing!Null = Racing!Null BY DEF Racing!Null, Racing!Null
<1>2. DOMAIN h = Slots OBVIOUS
<1>3. asked = <<>> => DOMAIN asked = {} OBVIOUS
<1> QED BY <1>1, <1>2, <1>3 DEF Racing!Emptied

LEMMA ChoosingRequest ==
  ASSUME range \in ForChoosing.Ranges, price \in BOOLEAN, NEW what \in Slots, NEW m \in ChoosingMetrics
  PROVE  /\ Choosing!Request(what, m) \in PageRequest(ChoosingMetrics, ForChoosing.Ranges)
         /\ Choosing!Request(what, m).what = what /\ Choosing!Request(what, m).of = m
BY DEF Choosing!Request, PageRequest

LEMMA ChoosingStory ==
  ASSUME range \in ForChoosing.Ranges, price \in BOOLEAN, NEW m \in ChoosingMetrics, NEW n \in Nat
  PROVE  /\ Choosing!StoryEffect(m, n) \in Seq(PageRequest(ChoosingMetrics, ForChoosing.Ranges))
         /\ \A x \in Among(Choosing!StoryEffect(m, n)) : x.what = "story" /\ x.of = m /\ x.live = n
         /\ \A what : what # "story" => NoneOf(Choosing!StoryEffect(m, n), what)
<1> DEFINE q == [Choosing!Request("story", m) EXCEPT !.live = n]
<1>1. Choosing!Request("story", m) \in PageRequest(ChoosingMetrics, ForChoosing.Ranges) /\ Choosing!Request("story", m).what = "story"
      /\ Choosing!Request("story", m).of = m
  BY ChoosingRequest DEF Slots
<1>2. q \in PageRequest(ChoosingMetrics, ForChoosing.Ranges) /\ q.what = "story" /\ q.of = m /\ q.live = n
  BY <1>1 DEF PageRequest
<1>3. Choosing!StoryEffect(m, n) = <<q>> \/ Choosing!StoryEffect(m, n) = <<>> BY DEF Choosing!StoryEffect
<1> HIDE DEF q
<1>4. PICK P : P = PageRequest(ChoosingMetrics, ForChoosing.Ranges) OBVIOUS
<1>5. PICK e : e = Choosing!StoryEffect(m, n) OBVIOUS
<1>6. q \in P BY <1>2, <1>4
<1>7. CASE e = <<q>>
  <2>1. e \in Seq(P) /\ Among(e) = {q} BY <1>6, <1>7, PageShown
  <2>2. \A what : what # "story" => NoneOf(e, what) BY <1>2, <1>6, <1>7, Single
  <2> QED BY <1>2, <1>4, <1>5, <2>1, <2>2
<1>8. CASE e = <<>>
  <2>1. e \in Seq(P) /\ Among(e) = {} /\ \A what : NoneOf(e, what) BY <1>8, Nothing
  <2> QED BY <1>4, <1>5, <2>1
<1> QED BY <1>3, <1>5, <1>7, <1>8

LEMMA ChoosingSma ==
  ASSUME range \in ForChoosing.Ranges, price \in BOOLEAN, NEW m \in ChoosingMetrics, NEW v, NEW on, NEW src
  PROVE  SmaOf(ChoosingMetrics, ForChoosing.Ranges, Choosing!SmaEffect(m, v, on, src))
<1> DEFINE q == Choosing!Request("sma", m)
<1>1. q \in PageRequest(ChoosingMetrics, ForChoosing.Ranges) /\ q.what = "sma" BY ChoosingRequest DEF Slots
<1>0. PICK s : s = Choosing!SmaEffect(m, v, on, src) OBVIOUS
<1>2. s = <<q>> \/ s = <<>> BY <1>0 DEF Choosing!SmaEffect
<1> HIDE DEF q
<1>3. PICK P : P = PageRequest(ChoosingMetrics, ForChoosing.Ranges) OBVIOUS
<1>4. q \in P BY <1>1, <1>3
<1>5. CASE s = <<q>>
  <2>1. s \in Seq(P) /\ Among(s) = {q} BY <1>4, <1>5, PageShown
  <2>2. \A what : what # "sma" => NoneOf(s, what) BY <1>1, <1>4, <1>5, Single
  <2>3. SmaOf(ChoosingMetrics, ForChoosing.Ranges, s) BY <1>1, <1>3, <1>5, <2>1, <2>2 DEF SmaOf
  <2> QED BY <1>0, <2>3
<1>6. CASE s = <<>>
  <2>1. s \in Seq(P) /\ Among(s) = {} /\ \A what : NoneOf(s, what) BY <1>6, Nothing
  <2>2. SmaOf(ChoosingMetrics, ForChoosing.Ranges, s) BY <1>3, <1>6, <2>1 DEF SmaOf
  <2> QED BY <1>0, <2>2
<1> QED BY <1>2, <1>5, <1>6

\* The series, the panel or the cycles of a metric are one request, unless they
\* are cycles that are held.
LEMMA ChoosingBase ==
  ASSUME range \in ForChoosing.Ranges, price \in BOOLEAN, NEW m \in ChoosingMetrics,
       NEW v \in {"series", "cycles"}, NEW rg \in ForChoosing.Ranges, NEW pr \in BOOLEAN,
         NEW cyc
  PROVE  BaseOf(ForChoosing.Lines, ChoosingMetrics, ForChoosing.Ranges, m, v, rg, pr, cyc, Choosing!BaseEffect(m, v, rg, pr, cyc))
<1>0. PICK s : s = Choosing!BaseEffect(m, v, rg, pr, cyc) OBVIOUS
<1>1. Choosing!Null = Racing!Null BY DEF Choosing!Null, Racing!Null
<1>2. m \in ForChoosing.Panels <=> m \notin ForChoosing.Lines
  BY PagesAssumption DEF PagesAssumption, Choosing!PageAssumption, ChoosingMetrics
<1>3. CASE m \notin ForChoosing.Lines
  <2>1. s = <<Choosing!Request("panel", m)>> BY <1>0, <1>2, <1>3 DEF Choosing!BaseEffect
  <2>2. Choosing!Request("panel", m) \in PageRequest(ChoosingMetrics, ForChoosing.Ranges) /\ Choosing!Request("panel", m).what = "panel"
        /\ Choosing!Request("panel", m).of = m
    BY ChoosingRequest DEF Slots
  <2>3. BaseOf(ForChoosing.Lines, ChoosingMetrics, ForChoosing.Ranges, m, v, rg, pr, cyc, s)
    BY <1>3, <2>1, <2>2 DEF BaseOf
  <2> QED BY <1>0, <2>3
<1>4. CASE m \in ForChoosing.Lines /\ v = "cycles" /\ cyc = Racing!Null
  <2>1. s = <<Choosing!Request("cycles", m)>> BY <1>0, <1>1, <1>2, <1>4 DEF Choosing!BaseEffect
  <2>2. Choosing!Request("cycles", m) \in PageRequest(ChoosingMetrics, ForChoosing.Ranges) /\ Choosing!Request("cycles", m).what = "cycles"
        /\ Choosing!Request("cycles", m).of = m
    BY ChoosingRequest DEF Slots
  <2>3. BaseOf(ForChoosing.Lines, ChoosingMetrics, ForChoosing.Ranges, m, v, rg, pr, cyc, s)
    BY <1>4, <2>1, <2>2 DEF BaseOf
  <2> QED BY <1>0, <2>3
<1>5. CASE m \in ForChoosing.Lines /\ v = "cycles" /\ cyc # Racing!Null
  <2>1. s = <<>> BY <1>0, <1>1, <1>2, <1>5 DEF Choosing!BaseEffect
  <2>2. BaseOf(ForChoosing.Lines, ChoosingMetrics, ForChoosing.Ranges, m, v, rg, pr, cyc, s)
    BY <1>5, <2>1 DEF BaseOf
  <2> QED BY <1>0, <2>2
<1>6. CASE m \in ForChoosing.Lines /\ v = "series"
  <2> DEFINE q == [Choosing!Request("data", m) EXCEPT !.range = rg, !.price = pr]
  <2>1. Choosing!Request("data", m) \in PageRequest(ChoosingMetrics, ForChoosing.Ranges) /\ Choosing!Request("data", m).what = "data"
        /\ Choosing!Request("data", m).of = m
    BY ChoosingRequest DEF Slots
  <2>2. q \in PageRequest(ChoosingMetrics, ForChoosing.Ranges) /\ q.what = "data" /\ q.of = m /\ q.range = rg /\ q.price = pr
    BY <2>1 DEF PageRequest
  <2>3. s = <<q>> BY <1>0, <1>2, <1>6 DEF Choosing!BaseEffect
  <2> HIDE DEF q
  <2>4. BaseOf(ForChoosing.Lines, ChoosingMetrics, ForChoosing.Ranges, m, v, rg, pr, cyc, s)
    BY <1>6, <2>2, <2>3 DEF BaseOf
  <2> QED BY <1>0, <2>4
<1> QED BY <1>3, <1>4, <1>5, <1>6

LEMMA ChoosingEmptied ==
  ASSUME NEW X, NEW h \in [Slots -> X], Racing!Null \in X, NEW asked
  PROVE  /\ Choosing!Emptied(h, asked) \in [Slots -> X]
         /\ \A s \in Slots \ {"data", "panel"} : Choosing!Emptied(h, asked)[s] = h[s]
         /\ asked = <<>> => Choosing!Emptied(h, asked) = h
<1>1. Choosing!Null = Racing!Null BY DEF Choosing!Null, Racing!Null
<1>2. DOMAIN h = Slots OBVIOUS
<1>3. asked = <<>> => DOMAIN asked = {} OBVIOUS
<1> QED BY <1>1, <1>2, <1>3 DEF Choosing!Emptied

\* What follows a sequence of requests.
FiveOf(S, f, a, b, c, d, e, what, wanted, z) ==
  /\ z \in Seq(S)
  /\ Among(z) = Among(f) \cup Among(a) \cup Among(b) \cup Among(c) \cup Among(d) \cup Among(e)
  /\ LastIs(e, what, wanted) => LastIs(z, what, wanted)
  /\ LastIs(c, what, wanted) /\ NoneOf(d, what) /\ NoneOf(e, what) => LastIs(z, what, wanted)

LEMMA FiveAppended ==
  ASSUME NEW S, NEW f \in Seq(S), NEW a \in Seq(S), NEW b \in Seq(S), NEW c \in Seq(S), NEW d \in Seq(S),
         NEW e \in Seq(S), NEW what, NEW wanted,
         NEW z, z = f \o a \o b \o c \o d \o e
  PROVE  FiveOf(S, f, a, b, c, d, e, what, wanted, z)
<1>1. PICK p : p = f \o a OBVIOUS
<1>2. p \in Seq(S) /\ Among(p) = Among(f) \cup Among(a) BY <1>1, Appended
<1>3. PICK q : q = p \o b OBVIOUS
<1>4. q \in Seq(S) /\ Among(q) = Among(p) \cup Among(b) BY <1>2, <1>3, Appended
<1>5. PICK r : r = q \o c OBVIOUS
<1>6. /\ r \in Seq(S) /\ Among(r) = Among(q) \cup Among(c)
      /\ LastIs(c, what, wanted) => LastIs(r, what, wanted)
  BY <1>4, <1>5, Appended, LastAppended
<1>7. PICK t : t = r \o d OBVIOUS
<1>8. /\ t \in Seq(S) /\ Among(t) = Among(r) \cup Among(d)
      /\ LastIs(r, what, wanted) /\ NoneOf(d, what) => LastIs(t, what, wanted)
  BY <1>6, <1>7, Appended, LastAppended
<1>9. PICK u : u = t \o e OBVIOUS
<1>10. /\ u \in Seq(S) /\ Among(u) = Among(t) \cup Among(e)
       /\ LastIs(e, what, wanted) => LastIs(u, what, wanted)
       /\ LastIs(t, what, wanted) /\ NoneOf(e, what) => LastIs(u, what, wanted)
  BY <1>8, <1>9, Appended, LastAppended
<1>11. u = z BY <1>1, <1>3, <1>5, <1>7, <1>9
<1> QED BY <1>2, <1>4, <1>6, <1>8, <1>10, <1>11 DEF FiveOf

LEMMA OneMapped == ASSUME NEW z PROVE [i \in 1..1 |-> z] = <<z>>
OBVIOUS

\* Averages are asked for with the range and the overlay chosen.
WithChoice(s, rg, pr) == [i \in DOMAIN s |-> [s[i] EXCEPT !.range = rg, !.price = pr]]

LEMMA RedrawnOne ==
  ASSUME NEW rg, NEW pr, NEW q, NEW s, s = <<q>>
  PROVE  WithChoice(s, rg, pr)
           = <<[q EXCEPT !.range = rg, !.price = pr]>>
<1>1. DOMAIN s = 1..1 /\ \A i \in 1..1 : s[i] = q OBVIOUS
<1>2. PICK z : z = [q EXCEPT !.range = rg, !.price = pr] OBVIOUS
<1>3. [i \in 1..1 |-> [s[i] EXCEPT !.range = rg, !.price = pr]] = [i \in 1..1 |-> z] BY <1>1, <1>2, Zenon
<1>4. [i \in DOMAIN s |-> [s[i] EXCEPT !.range = rg, !.price = pr]] = [i \in 1..1 |-> z]
  BY <1>1, <1>3, Zenon
<1>5. [i \in 1..1 |-> z] = <<z>> BY OneMapped
<1>6. WithChoice(s, rg, pr) = [i \in DOMAIN s |-> [s[i] EXCEPT !.range = rg, !.price = pr]]
  BY Zenon DEF WithChoice
<1> QED BY <1>2, <1>4, <1>5, <1>6, Zenon

LEMMA RedrawnNone ==
  ASSUME NEW rg, NEW pr, NEW s, s = <<>>
  PROVE  WithChoice(s, rg, pr) = <<>>
BY DEF WithChoice

LEMMA Redrawn ==
  ASSUME NEW metrics, NEW ranges, NEW rg \in ranges, NEW pr \in BOOLEAN, NEW s, SmaOf(metrics, ranges, s)
  PROVE  SmaOf(metrics, ranges, WithChoice(s, rg, pr))
<1>1. PICK P : P = PageRequest(metrics, ranges) OBVIOUS
<1>2. ASSUME NEW q \in P, q.what = "sma", NEW z, z = [q EXCEPT !.range = rg, !.price = pr]
      PROVE  SmaOf(metrics, ranges, <<z>>)
  <2>1. z \in P /\ z.what = "sma" BY <1>1, <1>2 DEF PageRequest
  <2>2. <<z>> \in Seq(P) /\ Among(<<z>>) = {z} BY <2>1, PageShown
  <2>3. \A what : what # "sma" => NoneOf(<<z>>, what) BY <2>1, Single
  <2> QED BY <1>1, <2>1, <2>2, <2>3 DEF SmaOf
<1>3. SmaOf(metrics, ranges, <<>>)
  <2>1. <<>> \in Seq(P) /\ Among(<<>>) = {} /\ \A what : NoneOf(<<>>, what) BY Nothing
  <2> QED BY <1>1, <2>1 DEF SmaOf
<1>4. s = <<>> \/ \E q \in P : s = <<q>> /\ q.what = "sma" BY <1>1 DEF SmaOf
<1>5. CASE s = <<>> BY <1>3, <1>5, RedrawnNone, Zenon
<1>6. ASSUME NEW q \in P, s = <<q>>, q.what = "sma"
      PROVE  SmaOf(metrics, ranges, WithChoice(s, rg, pr))
  <2>1. PICK z : z = [q EXCEPT !.range = rg, !.price = pr] OBVIOUS
  <2>2. SmaOf(metrics, ranges, <<z>>) BY <1>2, <1>6, <2>1
  <2>3. WithChoice(s, rg, pr) = <<z>>
    BY <1>6, <2>1, RedrawnOne, Zenon
  <2> QED BY <2>2, <2>3, Zenon
<1> QED BY <1>4, <1>5, <1>6

LEMMA RacingOpen ==
  ASSUME PageTyped(RacingMetrics, ForRacing.Ranges), NEW m \in RacingMetrics, Racing!Open(m)
  PROVE  Opened(ForRacing.Lines, RacingMetrics, ForRacing.Ranges) /\ PageTyped(RacingMetrics, ForRacing.Ranges)'
<1>1. PICK P : P = PageRequest(RacingMetrics, ForRacing.Ranges) OBVIOUS
<1>2. PICK n : n = Racing!OnMetric(m) OBVIOUS
<1>3. /\ n.view = "series" /\ n.price = FALSE /\ n.smaOn = (m \in ForRacing.Active)
      /\ n.held = [held EXCEPT !["cycles"] = Racing!Null, !["sma"] = Racing!Null, !["story"] = Racing!Null]
  BY <1>2 DEF Racing!OnMetric
<1>4. Racing!Null = Racing!Null BY DEF Racing!Null, Racing!Null
<1>5. held \in [Slots -> P \cup {Racing!Null, Racing!NoRows}] BY <1>1 DEF PageTyped
<1>6. n.held \in [Slots -> P \cup {Racing!Null, Racing!NoRows}] /\ n.held["story"] = Racing!Null
  BY <1>3, <1>4, <1>5 DEF Slots
<1>7. PICK a : a = Racing!StoryEffect(m, live') OBVIOUS
<1>34. PICK sma0 : sma0 = held.sma OBVIOUS
<1>35. PICK cyc0 : cyc0 = held.cycles OBVIOUS
<1>36. PICK sma1 : sma1 = n.held.sma OBVIOUS
<1>37. PICK cyc1 : cyc1 = n.held.cycles OBVIOUS
<1>38. PICK on1 : on1 = n.smaOn OBVIOUS
<1>8. PICK b : b = Racing!SmaEffect(m, view, smaOn, sma0) OBVIOUS
<1>9. PICK c : c = Racing!BaseEffect(m, view, range, price, cyc0) OBVIOUS
<1>10. PICK d : d = Racing!SmaEffect(m, "series", on1, sma1) OBVIOUS
<1>11. PICK e : e = IF n.view # view \/ n.price # price
                    THEN Racing!BaseEffect(m, "series", range, FALSE, cyc1) ELSE <<>>
  OBVIOUS
<1>12. /\ metric' = m /\ view' = n.view /\ price' = n.price /\ smaOn' = n.smaOn /\ live' = live + 1
       /\ flight' = flight \o a \o b \o c \o d \o e
       /\ held' = Racing!Emptied(n.held, c \o e) /\ err' = Racing!ErrAfter(c \o e)
       /\ range' = range
  BY <1>2, <1>3, <1>7, <1>8, <1>9, <1>10, <1>11, <1>34, <1>35, <1>36, <1>37, <1>38 DEF Racing!Open
<1>13. live \in Nat /\ live' \in Nat /\ flight \in Seq(P) /\ range \in ForRacing.Ranges /\ view \in {"series", "cycles"} /\ price \in BOOLEAN
  BY <1>1, <1>12 DEF PageTyped
<1>14. /\ a \in Seq(P) /\ \A x \in Among(a) : x.what = "story" /\ x.of = m /\ x.live = live'
  BY <1>1, <1>7, <1>13, RacingStory
<1>45. SmaOf(RacingMetrics, ForRacing.Ranges, b) BY <1>8, <1>13, RacingSma
<1>46. SmaOf(RacingMetrics, ForRacing.Ranges, d) BY <1>10, <1>13, RacingSma
<1>15. b \in Seq(P) /\ \A x \in Among(b) : x.what = "sma" BY <1>1, <1>45 DEF SmaOf
<1>16. /\ d \in Seq(P) /\ \A x \in Among(d) : x.what = "sma"
       /\ \A what : what # "sma" => NoneOf(d, what)
  BY <1>1, <1>46 DEF SmaOf
<1>17. PICK D : D = IF m \notin ForRacing.Lines THEN "panel" ELSE "data" OBVIOUS
<1>18. DrawnOf(ForRacing.Lines)' = D BY <1>3, <1>12, <1>17 DEF DrawnOf
<1>19. PICK W : W = WantedOf(ForRacing.Lines, RacingMetrics, ForRacing.Ranges)' OBVIOUS
<1>20. W = {x \in P : x.what = D /\ x.of = m /\ (x.what = "data" => x.range = range /\ x.price = FALSE)}
  BY <1>1, <1>3, <1>12, <1>18, <1>19 DEF WantedOf
\* The two runs of the effect.
<1>21. /\ c \in Seq(P) /\ \A x \in Among(c) : x.what # "story"
       /\ (view = "series" /\ price = FALSE) => LastIs(c, D, W)
  <2>1. CASE c = <<>> /\ view = "cycles"
    <3>1. c \in Seq(P) /\ Among(c) = {} BY <2>1, Nothing
    <3> QED BY <2>1, <3>1
  <2>2. ASSUME NEW q \in P, c = <<q>>, q.of = m,
               q.what = (IF m \notin ForRacing.Lines THEN "panel" ELSE IF view = "cycles" THEN "cycles" ELSE "data"),
               q.what = "data" => q.range = range /\ q.price = price
        PROVE  /\ c \in Seq(P) /\ \A x \in Among(c) : x.what # "story"
               /\ (view = "series" /\ price = FALSE) => LastIs(c, D, W)
    <3>1. c \in Seq(P) /\ Among(c) = {q} BY <2>2, PageShown
    <3>2. q.what # "story" BY <2>2
    <3>3. ASSUME view = "series", price = FALSE PROVE LastIs(c, D, W)
      <4>1. q.what = D /\ q \in W BY <1>17, <1>20, <2>2, <3>3
      <4> QED BY <2>2, <4>1, Single
    <3> QED BY <3>1, <3>2, <3>3
  <2>3. BaseOf(ForRacing.Lines, RacingMetrics, ForRacing.Ranges, m, view, range, price, cyc0, c)
    BY <1>9, <1>13, RacingBase
  <2>4. (c = <<>> /\ view = "cycles") \/ \E q \in P :
             /\ c = <<q>> /\ q.of = m
             /\ q.what = IF m \notin ForRacing.Lines THEN "panel" ELSE IF view = "cycles" THEN "cycles" ELSE "data"
             /\ q.what = "data" => q.range = range /\ q.price = price
    BY <1>1, <2>3 DEF BaseOf
  <2> QED BY <2>1, <2>2, <2>4
<1>24. /\ e \in Seq(P) /\ \A x \in Among(e) : x.what # "story"
       /\ LastIs(e, D, W) \/ (LastIs(c, D, W) /\ NoneOf(d, D) /\ NoneOf(e, D))
  <2>1. CASE n.view # view \/ n.price # price
    <3>1. e = Racing!BaseEffect(m, "series", range, FALSE, cyc1) BY <1>11, <2>1
    <3>2. BaseOf(ForRacing.Lines, RacingMetrics, ForRacing.Ranges, m, "series", range, FALSE, cyc1, e)
      BY <1>13, <3>1, RacingBase
    <3>3. PICK q \in P :
               /\ e = <<q>> /\ q.of = m
               /\ q.what = IF m \notin ForRacing.Lines THEN "panel" ELSE "data"
               /\ q.what = "data" => q.range = range /\ q.price = FALSE
      BY <1>1, <3>2 DEF BaseOf
    <3>4. e \in Seq(P) /\ Among(e) = {q} BY <3>3, PageShown
    <3>5. q.what = D /\ q \in W /\ q.what # "story" BY <1>17, <1>20, <3>3
    <3>6. LastIs(e, D, W) BY <3>3, <3>5, Single
    <3> QED BY <3>4, <3>5, <3>6
  <2>2. CASE ~(n.view # view \/ n.price # price)
    <3>1. e = <<>> BY <1>11, <2>2
    <3>2. e \in Seq(P) /\ Among(e) = {} /\ NoneOf(e, D) BY <3>1, Nothing
    <3>3. D # "sma" BY <1>17
    <3>4. LastIs(c, D, W) /\ NoneOf(d, D) BY <1>3, <1>16, <1>21, <2>2, <3>3
    <3> QED BY <3>2, <3>4
  <2> QED BY <2>1, <2>2
<1>39. flight \in Seq(P) /\ a \in Seq(P) /\ b \in Seq(P) /\ c \in Seq(P) /\ d \in Seq(P) /\ e \in Seq(P)
  BY <1>13, <1>14, <1>15, <1>16, <1>21, <1>24
<1>40. PICK u : u = flight \o a \o b \o c \o d \o e OBVIOUS
<1>41. /\ u \in Seq(P)
       /\ Among(u) = Among(flight) \cup Among(a) \cup Among(b) \cup Among(c) \cup Among(d) \cup Among(e)
       /\ LastIs(e, D, W) => LastIs(u, D, W)
       /\ LastIs(c, D, W) /\ NoneOf(d, D) /\ NoneOf(e, D) => LastIs(u, D, W)
  <2>1. FiveOf(P, flight, a, b, c, d, e, D, W, u) BY <1>39, <1>40, FiveAppended
  <2> QED BY <2>1 DEF FiveOf
<1>25. /\ flight' \in Seq(P) /\ LastIs(flight', D, W)
       /\ Among(flight') = Among(flight) \cup Among(a) \cup Among(b) \cup Among(c) \cup Among(d) \cup Among(e)
  BY <1>12, <1>24, <1>40, <1>41
<1>26. ASSUME NEW x \in Among(flight'), x \notin Among(flight), x.what = "story"
       PROVE  x.of = m /\ x.live = live'
  <2>1. x \in Among(a) BY <1>15, <1>16, <1>21, <1>24, <1>25, <1>26
  <2> QED BY <1>14, <2>1
<1>27. held' \in [Slots -> P \cup {Racing!Null, Racing!NoRows}] /\ held'["story"] = Racing!Null
  <2>1. PICK h : h = n.held OBVIOUS
  <2>2. PICK X : X = P \cup {Racing!Null, Racing!NoRows} OBVIOUS
  <2>3. h \in [Slots -> X] /\ Racing!Null \in X /\ h["story"] = Racing!Null BY <1>6, <2>1, <2>2
  <2>4. PICK g : g = c \o e OBVIOUS
  <2>5. /\ Racing!Emptied(h, g) \in [Slots -> X]
        /\ \A s \in Slots \ {"data", "panel"} : Racing!Emptied(h, g)[s] = h[s]
    BY <2>3, RacingEmptied
  <2>6. held' = Racing!Emptied(h, g) BY <1>12, <2>1, <2>4
  <2>7. "story" \in Slots \ {"data", "panel"} BY DEF Slots
  <2>8. held'["story"] = h["story"] BY <2>5, <2>6, <2>7
  <2> QED BY <2>2, <2>3, <2>5, <2>6, <2>8
<1>28. err' \in BOOLEAN BY <1>12 DEF Racing!ErrAfter, PageTyped
<1>42. (m \in ForRacing.Active) \in BOOLEAN OBVIOUS
<1>43. smaOn' = (m \in ForRacing.Active) BY <1>3, <1>12, Zenon
<1>44. smaOn' \in BOOLEAN BY <1>42, <1>43, Zenon
<1>29. smaOn' \in BOOLEAN /\ price' \in BOOLEAN BY <1>3, <1>12, <1>44
<1>30. PageTyped(RacingMetrics, ForRacing.Ranges)'
  BY <1>1, <1>3, <1>12, <1>13, <1>25, <1>27, <1>28, <1>29 DEF PageTyped, PageRequest
<1>31. \A x \in Among(flight') : x \notin Among(flight) => (x.what = "story" => x.of = metric' /\ x.live = live')
  BY <1>12, <1>26
<1>32. LastIs(flight', DrawnOf(ForRacing.Lines)', WantedOf(ForRacing.Lines, RacingMetrics, ForRacing.Ranges)')
  BY <1>18, <1>19, <1>25
<1> QED BY <1>12, <1>27, <1>30, <1>31, <1>32 DEF Opened

LEMMA ChoosingOpen ==
  ASSUME PageTyped(ChoosingMetrics, ForChoosing.Ranges), NEW m \in ChoosingMetrics, Choosing!Open(m)
  PROVE  Opened(ForChoosing.Lines, ChoosingMetrics, ForChoosing.Ranges) /\ PageTyped(ChoosingMetrics, ForChoosing.Ranges)'
<1>1. PICK P : P = PageRequest(ChoosingMetrics, ForChoosing.Ranges) OBVIOUS
<1>2. PICK n : n = Choosing!OnMetric(m) OBVIOUS
<1>3. /\ n.view = "series" /\ n.price = FALSE /\ n.smaOn = (m \in ForChoosing.Active)
      /\ n.held = [held EXCEPT !["cycles"] = Choosing!Null, !["sma"] = Choosing!Null, !["story"] = Choosing!Null]
  BY <1>2 DEF Choosing!OnMetric
<1>4. Choosing!Null = Racing!Null BY DEF Choosing!Null, Racing!Null
<1>5. held \in [Slots -> P \cup {Racing!Null, Racing!NoRows}] BY <1>1 DEF PageTyped
<1>6. n.held \in [Slots -> P \cup {Racing!Null, Racing!NoRows}] /\ n.held["story"] = Racing!Null
  BY <1>3, <1>4, <1>5 DEF Slots
<1>7. PICK a : a = Choosing!StoryEffect(m, live') OBVIOUS
<1>34. PICK sma0 : sma0 = held.sma OBVIOUS
<1>35. PICK cyc0 : cyc0 = held.cycles OBVIOUS
<1>36. PICK sma1 : sma1 = n.held.sma OBVIOUS
<1>37. PICK cyc1 : cyc1 = n.held.cycles OBVIOUS
<1>38. PICK on1 : on1 = n.smaOn OBVIOUS
<1>8. PICK b : b = Choosing!SmaEffect(m, view, smaOn, sma0) OBVIOUS
<1>9. PICK c : c = Choosing!BaseEffect(m, view, range, price, cyc0) OBVIOUS
<1>10. PICK d : d = Choosing!SmaEffect(m, "series", on1, sma1) OBVIOUS
<1>11. PICK e : e = IF n.view # view \/ n.price # price
                    THEN Choosing!BaseEffect(m, "series", range, FALSE, cyc1) ELSE <<>>
  OBVIOUS
<1>12. /\ metric' = m /\ view' = n.view /\ price' = n.price /\ smaOn' = n.smaOn /\ live' = live + 1
       /\ flight' = flight \o a \o b \o c \o d \o e
       /\ held' = Choosing!Emptied(n.held, c \o e) /\ err' = Choosing!ErrAfter(c \o e)
       /\ range' = range
  BY <1>2, <1>3, <1>7, <1>8, <1>9, <1>10, <1>11, <1>34, <1>35, <1>36, <1>37, <1>38 DEF Choosing!Open
<1>13. live \in Nat /\ live' \in Nat /\ flight \in Seq(P) /\ range \in ForChoosing.Ranges /\ view \in {"series", "cycles"} /\ price \in BOOLEAN
  BY <1>1, <1>12 DEF PageTyped
<1>14. /\ a \in Seq(P) /\ \A x \in Among(a) : x.what = "story" /\ x.of = m /\ x.live = live'
  BY <1>1, <1>7, <1>13, ChoosingStory
<1>45. SmaOf(ChoosingMetrics, ForChoosing.Ranges, b) BY <1>8, <1>13, ChoosingSma
<1>46. SmaOf(ChoosingMetrics, ForChoosing.Ranges, d) BY <1>10, <1>13, ChoosingSma
<1>15. b \in Seq(P) /\ \A x \in Among(b) : x.what = "sma" BY <1>1, <1>45 DEF SmaOf
<1>16. /\ d \in Seq(P) /\ \A x \in Among(d) : x.what = "sma"
       /\ \A what : what # "sma" => NoneOf(d, what)
  BY <1>1, <1>46 DEF SmaOf
<1>17. PICK D : D = IF m \notin ForChoosing.Lines THEN "panel" ELSE "data" OBVIOUS
<1>18. DrawnOf(ForChoosing.Lines)' = D BY <1>3, <1>12, <1>17 DEF DrawnOf
<1>19. PICK W : W = WantedOf(ForChoosing.Lines, ChoosingMetrics, ForChoosing.Ranges)' OBVIOUS
<1>20. W = {x \in P : x.what = D /\ x.of = m /\ (x.what = "data" => x.range = range /\ x.price = FALSE)}
  BY <1>1, <1>3, <1>12, <1>18, <1>19 DEF WantedOf
\* The two runs of the effect.
<1>21. /\ c \in Seq(P) /\ \A x \in Among(c) : x.what # "story"
       /\ (view = "series" /\ price = FALSE) => LastIs(c, D, W)
  <2>1. CASE c = <<>> /\ view = "cycles"
    <3>1. c \in Seq(P) /\ Among(c) = {} BY <2>1, Nothing
    <3> QED BY <2>1, <3>1
  <2>2. ASSUME NEW q \in P, c = <<q>>, q.of = m,
               q.what = (IF m \notin ForChoosing.Lines THEN "panel" ELSE IF view = "cycles" THEN "cycles" ELSE "data"),
               q.what = "data" => q.range = range /\ q.price = price
        PROVE  /\ c \in Seq(P) /\ \A x \in Among(c) : x.what # "story"
               /\ (view = "series" /\ price = FALSE) => LastIs(c, D, W)
    <3>1. c \in Seq(P) /\ Among(c) = {q} BY <2>2, PageShown
    <3>2. q.what # "story" BY <2>2
    <3>3. ASSUME view = "series", price = FALSE PROVE LastIs(c, D, W)
      <4>1. q.what = D /\ q \in W BY <1>17, <1>20, <2>2, <3>3
      <4> QED BY <2>2, <4>1, Single
    <3> QED BY <3>1, <3>2, <3>3
  <2>3. BaseOf(ForChoosing.Lines, ChoosingMetrics, ForChoosing.Ranges, m, view, range, price, cyc0, c)
    BY <1>9, <1>13, ChoosingBase
  <2>4. (c = <<>> /\ view = "cycles") \/ \E q \in P :
             /\ c = <<q>> /\ q.of = m
             /\ q.what = IF m \notin ForChoosing.Lines THEN "panel" ELSE IF view = "cycles" THEN "cycles" ELSE "data"
             /\ q.what = "data" => q.range = range /\ q.price = price
    BY <1>1, <2>3 DEF BaseOf
  <2> QED BY <2>1, <2>2, <2>4
<1>24. /\ e \in Seq(P) /\ \A x \in Among(e) : x.what # "story"
       /\ LastIs(e, D, W) \/ (LastIs(c, D, W) /\ NoneOf(d, D) /\ NoneOf(e, D))
  <2>1. CASE n.view # view \/ n.price # price
    <3>1. e = Choosing!BaseEffect(m, "series", range, FALSE, cyc1) BY <1>11, <2>1
    <3>2. BaseOf(ForChoosing.Lines, ChoosingMetrics, ForChoosing.Ranges, m, "series", range, FALSE, cyc1, e)
      BY <1>13, <3>1, ChoosingBase
    <3>3. PICK q \in P :
               /\ e = <<q>> /\ q.of = m
               /\ q.what = IF m \notin ForChoosing.Lines THEN "panel" ELSE "data"
               /\ q.what = "data" => q.range = range /\ q.price = FALSE
      BY <1>1, <3>2 DEF BaseOf
    <3>4. e \in Seq(P) /\ Among(e) = {q} BY <3>3, PageShown
    <3>5. q.what = D /\ q \in W /\ q.what # "story" BY <1>17, <1>20, <3>3
    <3>6. LastIs(e, D, W) BY <3>3, <3>5, Single
    <3> QED BY <3>4, <3>5, <3>6
  <2>2. CASE ~(n.view # view \/ n.price # price)
    <3>1. e = <<>> BY <1>11, <2>2
    <3>2. e \in Seq(P) /\ Among(e) = {} /\ NoneOf(e, D) BY <3>1, Nothing
    <3>3. D # "sma" BY <1>17
    <3>4. LastIs(c, D, W) /\ NoneOf(d, D) BY <1>3, <1>16, <1>21, <2>2, <3>3
    <3> QED BY <3>2, <3>4
  <2> QED BY <2>1, <2>2
<1>39. flight \in Seq(P) /\ a \in Seq(P) /\ b \in Seq(P) /\ c \in Seq(P) /\ d \in Seq(P) /\ e \in Seq(P)
  BY <1>13, <1>14, <1>15, <1>16, <1>21, <1>24
<1>40. PICK u : u = flight \o a \o b \o c \o d \o e OBVIOUS
<1>41. /\ u \in Seq(P)
       /\ Among(u) = Among(flight) \cup Among(a) \cup Among(b) \cup Among(c) \cup Among(d) \cup Among(e)
       /\ LastIs(e, D, W) => LastIs(u, D, W)
       /\ LastIs(c, D, W) /\ NoneOf(d, D) /\ NoneOf(e, D) => LastIs(u, D, W)
  <2>1. FiveOf(P, flight, a, b, c, d, e, D, W, u) BY <1>39, <1>40, FiveAppended
  <2> QED BY <2>1 DEF FiveOf
<1>25. /\ flight' \in Seq(P) /\ LastIs(flight', D, W)
       /\ Among(flight') = Among(flight) \cup Among(a) \cup Among(b) \cup Among(c) \cup Among(d) \cup Among(e)
  BY <1>12, <1>24, <1>40, <1>41
<1>26. ASSUME NEW x \in Among(flight'), x \notin Among(flight), x.what = "story"
       PROVE  x.of = m /\ x.live = live'
  <2>1. x \in Among(a) BY <1>15, <1>16, <1>21, <1>24, <1>25, <1>26
  <2> QED BY <1>14, <2>1
<1>27. held' \in [Slots -> P \cup {Racing!Null, Racing!NoRows}] /\ held'["story"] = Racing!Null
  <2>1. PICK h : h = n.held OBVIOUS
  <2>2. PICK X : X = P \cup {Racing!Null, Racing!NoRows} OBVIOUS
  <2>3. h \in [Slots -> X] /\ Racing!Null \in X /\ h["story"] = Racing!Null BY <1>6, <2>1, <2>2
  <2>4. PICK g : g = c \o e OBVIOUS
  <2>5. /\ Choosing!Emptied(h, g) \in [Slots -> X]
        /\ \A s \in Slots \ {"data", "panel"} : Choosing!Emptied(h, g)[s] = h[s]
    BY <2>3, ChoosingEmptied
  <2>6. held' = Choosing!Emptied(h, g) BY <1>12, <2>1, <2>4
  <2>7. "story" \in Slots \ {"data", "panel"} BY DEF Slots
  <2>8. held'["story"] = h["story"] BY <2>5, <2>6, <2>7
  <2> QED BY <2>2, <2>3, <2>5, <2>6, <2>8
<1>28. err' \in BOOLEAN BY <1>12 DEF Choosing!ErrAfter, PageTyped
<1>42. (m \in ForChoosing.Active) \in BOOLEAN OBVIOUS
<1>43. smaOn' = (m \in ForChoosing.Active) BY <1>3, <1>12, Zenon
<1>44. smaOn' \in BOOLEAN BY <1>42, <1>43, Zenon
<1>29. smaOn' \in BOOLEAN /\ price' \in BOOLEAN BY <1>3, <1>12, <1>44
<1>30. PageTyped(ChoosingMetrics, ForChoosing.Ranges)'
  BY <1>1, <1>3, <1>12, <1>13, <1>25, <1>27, <1>28, <1>29 DEF PageTyped, PageRequest
<1>31. \A x \in Among(flight') : x \notin Among(flight) => (x.what = "story" => x.of = metric' /\ x.live = live')
  BY <1>12, <1>26
<1>32. LastIs(flight', DrawnOf(ForChoosing.Lines)', WantedOf(ForChoosing.Lines, ChoosingMetrics, ForChoosing.Ranges)')
  BY <1>18, <1>19, <1>25
<1> QED BY <1>12, <1>27, <1>30, <1>31, <1>32 DEF Opened

LEMMA RacingChoose ==
  ASSUME PageTyped(RacingMetrics, ForRacing.Ranges), NEW rg \in ForRacing.Ranges, NEW pr \in BOOLEAN,
       NEW v \in {"series", "cycles"}, NEW on \in BOOLEAN,
         Racing!Choose(rg, pr, v, on)
  PROVE  Chose(ForRacing.Lines, RacingMetrics, ForRacing.Ranges) /\ PageTyped(RacingMetrics, ForRacing.Ranges)'
<1>1. PICK P : P = PageRequest(RacingMetrics, ForRacing.Ranges) OBVIOUS
<1>2. PICK asked : asked = Racing!Asks(rg, pr, v) OBVIOUS
<1>3. PICK sma0 : sma0 = held.sma OBVIOUS
<1>4. PICK s : s = IF <<v, on>> = <<view, smaOn>> THEN <<>> ELSE Racing!SmaEffect(metric, v, on, sma0) OBVIOUS
<1>5. PICK t : t = WithChoice(s, rg, pr) OBVIOUS
<1>6. /\ metric \in ForRacing.Lines /\ UNCHANGED <<metric, live>>
      /\ range' = rg /\ price' = pr /\ view' = v /\ smaOn' = on
      /\ flight' = flight \o t \o asked
      /\ held' = Racing!Emptied(held, asked) /\ err' = Racing!ErrAfter(asked)
  BY <1>2, <1>3, <1>4, <1>5 DEF Racing!Choose, Racing!Line, WithChoice
<1>7. metric \in RacingMetrics /\ range \in ForRacing.Ranges /\ price \in BOOLEAN /\ flight \in Seq(P) /\ held \in [Slots -> P \cup {Racing!Null, Racing!NoRows}] /\ err \in BOOLEAN
  BY <1>1 DEF PageTyped
<1>8. SmaOf(RacingMetrics, ForRacing.Ranges, s)
  <2>1. CASE s = <<>>
    <3>1. <<>> \in Seq(P) /\ Among(<<>>) = {} /\ \A what : NoneOf(<<>>, what) BY Nothing
    <3> QED BY <1>1, <2>1, <3>1 DEF SmaOf
  <2>2. CASE s = Racing!SmaEffect(metric, v, on, sma0) BY <1>7, <2>2, RacingSma
  <2> QED BY <1>4, <2>1, <2>2
<1>9. SmaOf(RacingMetrics, ForRacing.Ranges, t) BY <1>5, <1>8, Redrawn
<1>10. /\ t \in Seq(P)
       /\ \A x \in Among(t) : x.what = "sma"
       /\ \A what : what # "sma" => NoneOf(t, what)
  BY <1>1, <1>9 DEF SmaOf
<1>11. PICK D : D = IF v = "cycles" THEN "cycles" ELSE "data" OBVIOUS
<1>12. DrawnOf(ForRacing.Lines)' = D BY <1>6, <1>11 DEF DrawnOf
<1>13. PICK W : W = WantedOf(ForRacing.Lines, RacingMetrics, ForRacing.Ranges)' OBVIOUS
<1>14. W = {x \in P : x.what = D /\ x.of = metric /\ (x.what = "data" => x.range = rg /\ x.price = pr)}
  BY <1>1, <1>6, <1>12, <1>13 DEF WantedOf
<1>15. PICK cyc0 : cyc0 = held.cycles OBVIOUS
<1>16. \/ asked = <<>> /\ <<rg, pr, v>> = <<range, price, view>>
       \/ asked = <<>> /\ v = "cycles" /\ held["cycles"] # Racing!Null
       \/ \E q \in P : asked = <<q>> /\ q.what = D /\ q \in W
  <2>1. CASE <<rg, pr, v>> = <<range, price, view>> BY <1>2, <2>1 DEF Racing!Asks
  <2>2. CASE <<rg, pr, v>> # <<range, price, view>>
    <3>1. asked = Racing!BaseEffect(metric, v, rg, pr, cyc0) BY <1>2, <1>15, <2>2 DEF Racing!Asks
    <3>2. BaseOf(ForRacing.Lines, RacingMetrics, ForRacing.Ranges, metric, v, rg, pr, cyc0, asked)
      BY <1>7, <3>1, RacingBase
    <3> QED BY <1>1, <1>6, <1>11, <1>14, <1>15, <3>2 DEF BaseOf
  <2> QED BY <2>1, <2>2
<1>17. \/ asked = <<>>
       \/ \E q \in P : asked = <<q>> /\ q.what = D /\ q \in W
  BY <1>16
<1>18. /\ asked \in Seq(P) /\ \A x \in Among(asked) : x.what # "story"
       /\ asked = <<>> \/ LastIs(asked, D, W)
  <2>1. CASE asked = <<>>
    <3>1. asked \in Seq(P) /\ Among(asked) = {} BY <2>1, Nothing
    <3> QED BY <2>1, <3>1
  <2>2. ASSUME NEW q \in P, asked = <<q>>, q.what = D, q \in W
        PROVE  asked \in Seq(P) /\ (\A x \in Among(asked) : x.what # "story") /\ LastIs(asked, D, W)
    <3>1. asked \in Seq(P) /\ Among(asked) = {q} BY <2>2, PageShown
    <3>2. LastIs(asked, D, W) BY <2>2, Single
    <3>3. D # "story" BY <1>11
    <3> QED BY <2>2, <3>1, <3>2, <3>3
  <2> QED BY <1>17, <2>1, <2>2
<1>19. PICK z : z = flight \o t OBVIOUS
<1>20. z \in Seq(P) /\ Among(z) = Among(flight) \cup Among(t) BY <1>7, <1>10, <1>19, Appended
<1>21. flight' = z \o asked BY <1>6, <1>19
<1>22. flight' \in Seq(P) /\ Among(flight') = Among(z) \cup Among(asked) BY <1>18, <1>20, <1>21, Appended
<1>23. LastIs(asked, D, W) => LastIs(flight', D, W) BY <1>18, <1>20, <1>21, LastAppended
<1>24. \A x \in Among(flight') : x \notin Among(flight) => x.what # "story" BY <1>10, <1>18, <1>20, <1>22
<1>25. /\ held' \in [Slots -> P \cup {Racing!Null, Racing!NoRows}]
       /\ \A sl \in Slots \ {"data", "panel"} : held'[sl] = held[sl]
       /\ asked = <<>> => held' = held
  <2>1. PICK X : X = P \cup {Racing!Null, Racing!NoRows} OBVIOUS
  <2>2. held \in [Slots -> X] /\ Racing!Null \in X BY <1>7, <2>1
  <2>3. /\ Racing!Emptied(held, asked) \in [Slots -> X]
        /\ \A sl \in Slots \ {"data", "panel"} : Racing!Emptied(held, asked)[sl] = held[sl]
        /\ asked = <<>> => Racing!Emptied(held, asked) = held
    BY <2>2, RacingEmptied
  <2> QED BY <1>6, <2>1, <2>3
<1>26. err' \in BOOLEAN /\ (asked = <<>> => err' = err) BY <1>6, <1>7 DEF Racing!ErrAfter
<1>27. live \in Nat BY DEF PageTyped
<1>28. PageTyped(RacingMetrics, ForRacing.Ranges)'
  BY <1>1, <1>6, <1>7, <1>22, <1>25, <1>26, <1>27 DEF PageTyped, PageRequest
<1>29. CASE asked = <<>> /\ <<rg, pr, v>> = <<range, price, view>>
  <2>1. UNCHANGED <<view, range, price, held, err>> BY <1>6, <1>25, <1>26, <1>29
  <2>2. ASSUME NEW what \in {"data", "panel"}, NEW wanted \in SUBSET P
        PROVE  /\ LastIs(flight, what, wanted) => LastIs(flight', what, wanted)
               /\ NoneOf(flight, what) => NoneOf(flight', what)
    <3>1. NoneOf(t, what) BY <1>10
    <3>2. /\ LastIs(flight, what, wanted) => LastIs(z, what, wanted)
          /\ NoneOf(flight, what) => NoneOf(z, what)
      BY <1>7, <1>10, <1>19, <3>1, LastAppended
    <3>3. asked \in Seq(P) /\ NoneOf(asked, what) BY <1>29, Nothing
    <3> QED BY <1>20, <1>21, <3>2, <3>3, LastAppended
  <2>3. held'["story"] = held["story"] BY <2>1
  <2>4. Among(flight) \subseteq Among(flight') BY <1>20, <1>22
  <2> QED BY <1>1, <1>6, <1>24, <1>28, <2>1, <2>2, <2>3, <2>4 DEF Chose
<1>30. CASE asked = <<>> /\ v = "cycles" /\ held["cycles"] # Racing!Null
  <2>1. held' = held /\ DrawnOf(ForRacing.Lines)' = "cycles" BY <1>11, <1>12, <1>25, <1>30
  <2>2. Among(flight) \subseteq Among(flight') BY <1>20, <1>22
  <2> QED BY <1>6, <1>24, <1>28, <1>30, <2>1, <2>2 DEF Chose
<1>31. CASE LastIs(asked, D, W)
  <2>1. LastIs(flight', DrawnOf(ForRacing.Lines)', WantedOf(ForRacing.Lines, RacingMetrics, ForRacing.Ranges)')
    BY <1>12, <1>13, <1>23, <1>31
  <2>2. Among(flight) \subseteq Among(flight') BY <1>20, <1>22
  <2>3. held'["story"] = held["story"] BY <1>25 DEF Slots
  <2> QED BY <1>6, <1>24, <1>28, <2>1, <2>2, <2>3 DEF Chose
<1>32. \/ asked = <<>> /\ <<rg, pr, v>> = <<range, price, view>>
       \/ asked = <<>> /\ v = "cycles" /\ held["cycles"] # Racing!Null
       \/ LastIs(asked, D, W)
  <2>1. ASSUME NEW q \in P, asked = <<q>>, q.what = D, q \in W PROVE LastIs(asked, D, W) BY <2>1, Single
  <2> QED BY <1>16, <2>1
<1> QED BY <1>29, <1>30, <1>31, <1>32

LEMMA RacingAnswers ==
  ASSUME PageTyped(RacingMetrics, ForRacing.Ranges), NEW i \in DOMAIN flight, Racing!Reply(i) \/ Racing!Fail(i)
  PROVE  (Replied(i) \/ FailedAt(i)) /\ PageTyped(RacingMetrics, ForRacing.Ranges)'
<1>1. PICK P : P = PageRequest(RacingMetrics, ForRacing.Ranges) OBVIOUS
<1>2. flight \in Seq(P) /\ held \in [Slots -> P \cup {Racing!Null, Racing!NoRows}] /\ err \in BOOLEAN /\ live \in Nat
  BY <1>1 DEF PageTyped
<1>3. flight[i] \in P BY <1>2
<1>4. flight[i].what \in Slots BY <1>1, <1>3 DEF PageRequest
<1>5. Racing!Null = Racing!Null /\ Racing!NoRows = Racing!NoRows
  BY DEF Racing!Null, Racing!Null, Racing!NoRows, Racing!NoRows
<1>6. Racing!RemoveAt(flight, i) = Racing!RemoveAt(flight, i) BY DEF Racing!RemoveAt, Racing!RemoveAt
<1>7. Racing!RemoveAt(flight, i) \in Seq(P) BY <1>2, Without
<1>8. CASE Racing!Reply(i)
  <2>1. /\ flight' = Racing!RemoveAt(flight, i) /\ UNCHANGED <<metric, view, range, price, smaOn, err, live>>
        /\ held' = IF Racing!Wanted(flight[i]) THEN [held EXCEPT ![flight[i].what] = flight[i]] ELSE held
    BY <1>6, <1>8 DEF Racing!Reply, Racing!chosen
  <2>2. Replied(i) BY <2>1 DEF Replied, Racing!Wanted
  <2>3. held' \in [Slots -> P \cup {Racing!Null, Racing!NoRows}] BY <1>2, <1>3, <1>4, <2>1
  <2>4. PageTyped(RacingMetrics, ForRacing.Ranges)' BY <1>1, <1>7, <2>1, <2>3 DEF PageTyped, PageRequest
  <2> QED BY <2>2, <2>4
<1>9. CASE Racing!Fail(i)
  <2>1. /\ flight' = Racing!RemoveAt(flight, i) /\ UNCHANGED <<metric, view, range, price, smaOn, live>>
        /\ held' = CASE flight[i].what = "sma" -> [held EXCEPT !["sma"] = Racing!NoRows]
                     [] flight[i].what = "story" /\ Racing!Wanted(flight[i]) -> [held EXCEPT !["story"] = Racing!Null]
                     [] OTHER -> held
    BY <1>5, <1>6, <1>9 DEF Racing!Fail, Racing!chosen
  <2>2. err' = (err \/ flight[i].what \notin {"sma", "story"}) BY <1>9 DEF Racing!Fail
  <2>3. (err => err') /\ (flight[i].what \notin {"sma", "story"} => err') BY <2>2, Zenon
  <2>4. err' \in BOOLEAN
    <3>1. (err \/ flight[i].what \notin {"sma", "story"}) \in BOOLEAN OBVIOUS
    <3> QED BY <2>2, <3>1, Zenon
  <2>5. /\ held' \in [Slots -> P \cup {Racing!Null, Racing!NoRows}]
        /\ \A s \in Slots \ {"sma", "story"} : held'[s] = held[s]
        /\ held'["story"] \in {held["story"], Racing!Null}
    <3>1. CASE flight[i].what = "sma"
      <4>1. held' = [held EXCEPT !["sma"] = Racing!NoRows] BY <2>1, <3>1
      <4> QED BY <1>2, <4>1 DEF Slots
    <3>2. CASE flight[i].what = "story" /\ Racing!Wanted(flight[i])
      <4>1. held' = [held EXCEPT !["story"] = Racing!Null] BY <2>1, <3>2
      <4> QED BY <1>2, <4>1 DEF Slots
    <3>3. CASE ~(flight[i].what = "sma") /\ ~(flight[i].what = "story" /\ Racing!Wanted(flight[i]))
      <4>1. held' = held BY <2>1, <3>3
      <4> QED BY <1>2, <4>1
    <3> QED BY <3>1, <3>2, <3>3
  <2>6. FailedAt(i) BY <2>1, <2>3, <2>5 DEF FailedAt
  <2>7. PageTyped(RacingMetrics, ForRacing.Ranges)' BY <1>1, <1>7, <2>1, <2>4, <2>5 DEF PageTyped, PageRequest
  <2> QED BY <2>6, <2>7
<1> QED BY <1>8, <1>9

LEMMA RacingSteps ==
  ASSUME PageTyped(RacingMetrics, ForRacing.Ranges), Racing!Next
  PROVE  PageStep(ForRacing.Lines, RacingMetrics, ForRacing.Ranges, Racing!Next1) /\ PageTyped(RacingMetrics, ForRacing.Ranges)'
<1>1. CASE \E m \in RacingMetrics : Racing!Open(m) BY <1>1, RacingOpen DEF PageStep
<1>2. CASE \E rg \in ForRacing.Ranges, pr, on \in BOOLEAN, v \in {"series", "cycles"} : Racing!Choose(rg, pr, v, on)
  BY <1>2, RacingChoose DEF PageStep
<1>3. CASE \E i \in Racing!Next1 : Racing!Reply(i) \/ Racing!Fail(i)
  <2>1. PICK i \in Racing!Next1 : Racing!Reply(i) \/ Racing!Fail(i) BY <1>3
  <2>2. i \in DOMAIN flight BY <2>1 DEF Racing!Next1
  <2> QED BY <2>1, <2>2, RacingAnswers DEF PageStep
<1>4. CASE Racing!Flash \/ Racing!Clear
  <2>1. UNCHANGED <<metric, view, range, price, smaOn, held, err, flight, live>>
    BY <1>4 DEF Racing!Flash, Racing!Clear, Racing!chosen
  <2> QED BY <2>1 DEF PageStep, PageTyped, PageRequest
<1> QED BY <1>1, <1>2, <1>3, <1>4 DEF Racing!Next, RacingMetrics

LEMMA ChoosingChoose ==
  ASSUME PageTyped(ChoosingMetrics, ForChoosing.Ranges), NEW rg \in ForChoosing.Ranges, NEW pr \in BOOLEAN,
       NEW v \in {"series", "cycles"}, NEW on \in BOOLEAN,
         Choosing!Choose(rg, pr, v, on)
  PROVE  Chose(ForChoosing.Lines, ChoosingMetrics, ForChoosing.Ranges) /\ PageTyped(ChoosingMetrics, ForChoosing.Ranges)'
<1>1. PICK P : P = PageRequest(ChoosingMetrics, ForChoosing.Ranges) OBVIOUS
<1>2. PICK asked : asked = Choosing!Asks(rg, pr, v) OBVIOUS
<1>3. PICK sma0 : sma0 = held.sma OBVIOUS
<1>4. PICK s : s = IF <<v, on>> = <<view, smaOn>> THEN <<>> ELSE Choosing!SmaEffect(metric, v, on, sma0) OBVIOUS
<1>5. PICK t : t = WithChoice(s, rg, pr) OBVIOUS
<1>6. /\ metric \in ForChoosing.Lines /\ UNCHANGED <<metric, live>>
      /\ range' = rg /\ price' = pr /\ view' = v /\ smaOn' = on
      /\ flight' = flight \o t \o asked
      /\ held' = Choosing!Emptied(held, asked) /\ err' = Choosing!ErrAfter(asked)
  BY <1>2, <1>3, <1>4, <1>5 DEF Choosing!Choose, Choosing!Line, WithChoice
<1>7. metric \in ChoosingMetrics /\ range \in ForChoosing.Ranges /\ price \in BOOLEAN /\ flight \in Seq(P) /\ held \in [Slots -> P \cup {Racing!Null, Racing!NoRows}] /\ err \in BOOLEAN
  BY <1>1 DEF PageTyped
<1>8. SmaOf(ChoosingMetrics, ForChoosing.Ranges, s)
  <2>1. CASE s = <<>>
    <3>1. <<>> \in Seq(P) /\ Among(<<>>) = {} /\ \A what : NoneOf(<<>>, what) BY Nothing
    <3> QED BY <1>1, <2>1, <3>1 DEF SmaOf
  <2>2. CASE s = Choosing!SmaEffect(metric, v, on, sma0) BY <1>7, <2>2, ChoosingSma
  <2> QED BY <1>4, <2>1, <2>2
<1>9. SmaOf(ChoosingMetrics, ForChoosing.Ranges, t) BY <1>5, <1>8, Redrawn
<1>10. /\ t \in Seq(P)
       /\ \A x \in Among(t) : x.what = "sma"
       /\ \A what : what # "sma" => NoneOf(t, what)
  BY <1>1, <1>9 DEF SmaOf
<1>11. PICK D : D = IF v = "cycles" THEN "cycles" ELSE "data" OBVIOUS
<1>12. DrawnOf(ForChoosing.Lines)' = D BY <1>6, <1>11 DEF DrawnOf
<1>13. PICK W : W = WantedOf(ForChoosing.Lines, ChoosingMetrics, ForChoosing.Ranges)' OBVIOUS
<1>14. W = {x \in P : x.what = D /\ x.of = metric /\ (x.what = "data" => x.range = rg /\ x.price = pr)}
  BY <1>1, <1>6, <1>12, <1>13 DEF WantedOf
<1>15. PICK cyc0 : cyc0 = held.cycles OBVIOUS
<1>16. \/ asked = <<>> /\ <<rg, pr, v>> = <<range, price, view>>
       \/ asked = <<>> /\ v = "cycles" /\ held["cycles"] # Racing!Null
       \/ \E q \in P : asked = <<q>> /\ q.what = D /\ q \in W
  <2>1. CASE <<rg, pr, v>> = <<range, price, view>> BY <1>2, <2>1 DEF Choosing!Asks
  <2>2. CASE <<rg, pr, v>> # <<range, price, view>>
    <3>1. asked = Choosing!BaseEffect(metric, v, rg, pr, cyc0) BY <1>2, <1>15, <2>2 DEF Choosing!Asks
    <3>2. BaseOf(ForChoosing.Lines, ChoosingMetrics, ForChoosing.Ranges, metric, v, rg, pr, cyc0, asked)
      BY <1>7, <3>1, ChoosingBase
    <3> QED BY <1>1, <1>6, <1>11, <1>14, <1>15, <3>2 DEF BaseOf
  <2> QED BY <2>1, <2>2
<1>17. \/ asked = <<>>
       \/ \E q \in P : asked = <<q>> /\ q.what = D /\ q \in W
  BY <1>16
<1>18. /\ asked \in Seq(P) /\ \A x \in Among(asked) : x.what # "story"
       /\ asked = <<>> \/ LastIs(asked, D, W)
  <2>1. CASE asked = <<>>
    <3>1. asked \in Seq(P) /\ Among(asked) = {} BY <2>1, Nothing
    <3> QED BY <2>1, <3>1
  <2>2. ASSUME NEW q \in P, asked = <<q>>, q.what = D, q \in W
        PROVE  asked \in Seq(P) /\ (\A x \in Among(asked) : x.what # "story") /\ LastIs(asked, D, W)
    <3>1. asked \in Seq(P) /\ Among(asked) = {q} BY <2>2, PageShown
    <3>2. LastIs(asked, D, W) BY <2>2, Single
    <3>3. D # "story" BY <1>11
    <3> QED BY <2>2, <3>1, <3>2, <3>3
  <2> QED BY <1>17, <2>1, <2>2
<1>19. PICK z : z = flight \o t OBVIOUS
<1>20. z \in Seq(P) /\ Among(z) = Among(flight) \cup Among(t) BY <1>7, <1>10, <1>19, Appended
<1>21. flight' = z \o asked BY <1>6, <1>19
<1>22. flight' \in Seq(P) /\ Among(flight') = Among(z) \cup Among(asked) BY <1>18, <1>20, <1>21, Appended
<1>23. LastIs(asked, D, W) => LastIs(flight', D, W) BY <1>18, <1>20, <1>21, LastAppended
<1>24. \A x \in Among(flight') : x \notin Among(flight) => x.what # "story" BY <1>10, <1>18, <1>20, <1>22
<1>25. /\ held' \in [Slots -> P \cup {Racing!Null, Racing!NoRows}]
       /\ \A sl \in Slots \ {"data", "panel"} : held'[sl] = held[sl]
       /\ asked = <<>> => held' = held
  <2>1. PICK X : X = P \cup {Racing!Null, Racing!NoRows} OBVIOUS
  <2>2. held \in [Slots -> X] /\ Racing!Null \in X BY <1>7, <2>1
  <2>3. /\ Choosing!Emptied(held, asked) \in [Slots -> X]
        /\ \A sl \in Slots \ {"data", "panel"} : Choosing!Emptied(held, asked)[sl] = held[sl]
        /\ asked = <<>> => Choosing!Emptied(held, asked) = held
    BY <2>2, ChoosingEmptied
  <2> QED BY <1>6, <2>1, <2>3
<1>26. err' \in BOOLEAN /\ (asked = <<>> => err' = err) BY <1>6, <1>7 DEF Choosing!ErrAfter
<1>27. live \in Nat BY DEF PageTyped
<1>28. PageTyped(ChoosingMetrics, ForChoosing.Ranges)'
  BY <1>1, <1>6, <1>7, <1>22, <1>25, <1>26, <1>27 DEF PageTyped, PageRequest
<1>29. CASE asked = <<>> /\ <<rg, pr, v>> = <<range, price, view>>
  <2>1. UNCHANGED <<view, range, price, held, err>> BY <1>6, <1>25, <1>26, <1>29
  <2>2. ASSUME NEW what \in {"data", "panel"}, NEW wanted \in SUBSET P
        PROVE  /\ LastIs(flight, what, wanted) => LastIs(flight', what, wanted)
               /\ NoneOf(flight, what) => NoneOf(flight', what)
    <3>1. NoneOf(t, what) BY <1>10
    <3>2. /\ LastIs(flight, what, wanted) => LastIs(z, what, wanted)
          /\ NoneOf(flight, what) => NoneOf(z, what)
      BY <1>7, <1>10, <1>19, <3>1, LastAppended
    <3>3. asked \in Seq(P) /\ NoneOf(asked, what) BY <1>29, Nothing
    <3> QED BY <1>20, <1>21, <3>2, <3>3, LastAppended
  <2>3. held'["story"] = held["story"] BY <2>1
  <2>4. Among(flight) \subseteq Among(flight') BY <1>20, <1>22
  <2> QED BY <1>1, <1>6, <1>24, <1>28, <2>1, <2>2, <2>3, <2>4 DEF Chose
<1>30. CASE asked = <<>> /\ v = "cycles" /\ held["cycles"] # Racing!Null
  <2>1. held' = held /\ DrawnOf(ForChoosing.Lines)' = "cycles" BY <1>11, <1>12, <1>25, <1>30
  <2>2. Among(flight) \subseteq Among(flight') BY <1>20, <1>22
  <2> QED BY <1>6, <1>24, <1>28, <1>30, <2>1, <2>2 DEF Chose
<1>31. CASE LastIs(asked, D, W)
  <2>1. LastIs(flight', DrawnOf(ForChoosing.Lines)', WantedOf(ForChoosing.Lines, ChoosingMetrics, ForChoosing.Ranges)')
    BY <1>12, <1>13, <1>23, <1>31
  <2>2. Among(flight) \subseteq Among(flight') BY <1>20, <1>22
  <2>3. held'["story"] = held["story"] BY <1>25 DEF Slots
  <2> QED BY <1>6, <1>24, <1>28, <2>1, <2>2, <2>3 DEF Chose
<1>32. \/ asked = <<>> /\ <<rg, pr, v>> = <<range, price, view>>
       \/ asked = <<>> /\ v = "cycles" /\ held["cycles"] # Racing!Null
       \/ LastIs(asked, D, W)
  <2>1. ASSUME NEW q \in P, asked = <<q>>, q.what = D, q \in W PROVE LastIs(asked, D, W) BY <2>1, Single
  <2> QED BY <1>16, <2>1
<1> QED BY <1>29, <1>30, <1>31, <1>32

LEMMA ChoosingAnswers ==
  ASSUME PageTyped(ChoosingMetrics, ForChoosing.Ranges), NEW i \in DOMAIN flight,
       Choosing!Reply(i) \/ Choosing!Fail(i)
  PROVE  (Replied(i) \/ FailedAt(i)) /\ PageTyped(ChoosingMetrics, ForChoosing.Ranges)'
<1>1. PICK P : P = PageRequest(ChoosingMetrics, ForChoosing.Ranges) OBVIOUS
<1>2. flight \in Seq(P) /\ held \in [Slots -> P \cup {Racing!Null, Racing!NoRows}] /\ err \in BOOLEAN /\ live \in Nat
  BY <1>1 DEF PageTyped
<1>3. flight[i] \in P BY <1>2
<1>4. flight[i].what \in Slots BY <1>1, <1>3 DEF PageRequest
<1>5. Choosing!Null = Racing!Null /\ Choosing!NoRows = Racing!NoRows
  BY DEF Choosing!Null, Racing!Null, Choosing!NoRows, Racing!NoRows
<1>6. Choosing!RemoveAt(flight, i) = Racing!RemoveAt(flight, i) BY DEF Choosing!RemoveAt, Racing!RemoveAt
<1>7. Racing!RemoveAt(flight, i) \in Seq(P) BY <1>2, Without
<1>8. CASE Choosing!Reply(i)
  <2>1. /\ flight' = Racing!RemoveAt(flight, i) /\ UNCHANGED <<metric, view, range, price, smaOn, err, live>>
        /\ held' = IF Choosing!Wanted(flight[i]) THEN [held EXCEPT ![flight[i].what] = flight[i]] ELSE held
    BY <1>6, <1>8 DEF Choosing!Reply, Choosing!chosen
  <2>2. Replied(i) BY <2>1 DEF Replied, Choosing!Wanted
  <2>3. held' \in [Slots -> P \cup {Racing!Null, Racing!NoRows}] BY <1>2, <1>3, <1>4, <2>1
  <2>4. PageTyped(ChoosingMetrics, ForChoosing.Ranges)' BY <1>1, <1>7, <2>1, <2>3 DEF PageTyped, PageRequest
  <2> QED BY <2>2, <2>4
<1>9. CASE Choosing!Fail(i)
  <2>1. /\ flight' = Racing!RemoveAt(flight, i) /\ UNCHANGED <<metric, view, range, price, smaOn, live>>
        /\ held' = CASE flight[i].what = "sma" -> [held EXCEPT !["sma"] = Racing!NoRows]
                     [] flight[i].what = "story" /\ Choosing!Wanted(flight[i]) -> [held EXCEPT !["story"] = Racing!Null]
                     [] OTHER -> held
    BY <1>5, <1>6, <1>9 DEF Choosing!Fail, Choosing!chosen
  <2>2. err' = (err \/ flight[i].what \notin {"sma", "story"}) BY <1>9 DEF Choosing!Fail
  <2>3. (err => err') /\ (flight[i].what \notin {"sma", "story"} => err') BY <2>2, Zenon
  <2>4. err' \in BOOLEAN
    <3>1. (err \/ flight[i].what \notin {"sma", "story"}) \in BOOLEAN OBVIOUS
    <3> QED BY <2>2, <3>1, Zenon
  <2>5. /\ held' \in [Slots -> P \cup {Racing!Null, Racing!NoRows}]
        /\ \A s \in Slots \ {"sma", "story"} : held'[s] = held[s]
        /\ held'["story"] \in {held["story"], Racing!Null}
    <3>1. CASE flight[i].what = "sma"
      <4>1. held' = [held EXCEPT !["sma"] = Racing!NoRows] BY <2>1, <3>1
      <4> QED BY <1>2, <4>1 DEF Slots
    <3>2. CASE flight[i].what = "story" /\ Choosing!Wanted(flight[i])
      <4>1. held' = [held EXCEPT !["story"] = Racing!Null] BY <2>1, <3>2
      <4> QED BY <1>2, <4>1 DEF Slots
    <3>3. CASE ~(flight[i].what = "sma") /\ ~(flight[i].what = "story" /\ Choosing!Wanted(flight[i]))
      <4>1. held' = held BY <2>1, <3>3
      <4> QED BY <1>2, <4>1
    <3> QED BY <3>1, <3>2, <3>3
  <2>6. FailedAt(i) BY <2>1, <2>3, <2>5 DEF FailedAt
  <2>7. PageTyped(ChoosingMetrics, ForChoosing.Ranges)'
    BY <1>1, <1>7, <2>1, <2>4, <2>5 DEF PageTyped, PageRequest
  <2> QED BY <2>6, <2>7
<1> QED BY <1>8, <1>9

LEMMA ChoosingSteps ==
  ASSUME PageTyped(ChoosingMetrics, ForChoosing.Ranges), Choosing!Next
  PROVE  PageStep(ForChoosing.Lines, ChoosingMetrics, ForChoosing.Ranges, Choosing!Next1) /\ PageTyped(ChoosingMetrics, ForChoosing.Ranges)'
<1>1. CASE \E m \in ChoosingMetrics : Choosing!Open(m) BY <1>1, ChoosingOpen DEF PageStep
<1>2. CASE \E rg \in ForChoosing.Ranges, pr, on \in BOOLEAN, v \in {"series", "cycles"} : Choosing!Choose(rg, pr, v, on)
  BY <1>2, ChoosingChoose DEF PageStep
<1>3. CASE \E i \in Choosing!Next1 : Choosing!Reply(i) \/ Choosing!Fail(i)
  <2>1. PICK i \in Choosing!Next1 : Choosing!Reply(i) \/ Choosing!Fail(i) BY <1>3
  <2>2. i \in DOMAIN flight BY <2>1 DEF Choosing!Next1
  <2> QED BY <2>1, <2>2, ChoosingAnswers DEF PageStep
<1>4. CASE Choosing!Flash \/ Choosing!Clear
  <2>1. UNCHANGED <<metric, view, range, price, smaOn, held, err, flight, live>>
    BY <1>4 DEF Choosing!Flash, Choosing!Clear, Choosing!chosen
  <2> QED BY <2>1 DEF PageStep, PageTyped, PageRequest
<1> QED BY <1>1, <1>2, <1>3, <1>4 DEF Choosing!Next, ChoosingMetrics

---------------------------------------------------------------------------
(* What the page shows, for any lines, metrics and ranges. *)

\* The story that is held is the metric's, and so is any that will be kept.
StoriesOwn ==
  /\ held["story"] # Racing!Null => held["story"].of = metric
  /\ \A x \in Among(flight) : x.what = "story" => x.live <= live /\ (x.live = live => x.of = metric)

\* What is drawn is held, or has been asked for, or has failed.
Loads(lines) ==
  (held[DrawnOf(lines)] = Racing!Null /\ ~err) => \E x \in Among(flight) : x.what = DrawnOf(lines) /\ x.of = metric

\* The last answer to what is drawn will be, or was, what is wanted.
Settles(lines, metrics, ranges) ==
  (~err /\ DrawnOf(lines) # "cycles") =>
    \/ LastIs(flight, DrawnOf(lines), WantedOf(lines, metrics, ranges))
    \/ NoneOf(flight, DrawnOf(lines)) /\ held[DrawnOf(lines)] \in WantedOf(lines, metrics, ranges)

LEMMA DrawnIsASlot ==
  ASSUME NEW lines
  PROVE  /\ DrawnOf(lines) \in {"data", "cycles", "panel"} /\ DrawnOf(lines)' \in {"data", "cycles", "panel"}
         /\ UNCHANGED <<metric, view>> => DrawnOf(lines)' = DrawnOf(lines)
BY DEF DrawnOf

LEMMA LastIsAmong ==
  ASSUME NEW s, NEW what, NEW wanted, LastIs(s, what, wanted)
  PROVE  \E x \in Among(s) : x.what = what /\ x \in wanted
BY DEF LastIs, Among

LEMMA StoriesStep ==
  ASSUME NEW lines, NEW metrics, NEW ranges, NEW next, next \subseteq DOMAIN flight, PageTyped(metrics, ranges),
         StoriesOwn, PageStep(lines, metrics, ranges, next)
  PROVE  StoriesOwn'
<1>1. PICK P : P = PageRequest(metrics, ranges) OBVIOUS
<1>2. live \in Nat /\ flight \in Seq(P) /\ held \in [Slots -> P \cup {Racing!Null, Racing!NoRows}]
  BY <1>1 DEF PageTyped
<1>3. \A x \in Among(flight) : x \in P BY <1>2 DEF Among
<1>4. \A x \in P : x.live \in Nat BY <1>1 DEF PageRequest
<1>5. CASE Opened(lines, metrics, ranges)
  <2>1. \A x \in Among(flight') : x.what = "story" => x.live <= live' /\ (x.live = live' => x.of = metric')
    <3> SUFFICES ASSUME NEW x \in Among(flight'), x.what = "story"
                 PROVE  x.live <= live' /\ (x.live = live' => x.of = metric')
      OBVIOUS
    <3>1. CASE x \in Among(flight) BY <1>2, <1>3, <1>4, <1>5, <3>1 DEF Opened, StoriesOwn
    <3>2. CASE x \notin Among(flight)
      <4>1. x.of = metric' /\ x.live = live' BY <1>5, <3>2 DEF Opened
      <4> QED BY <1>2, <1>5, <4>1 DEF Opened
    <3> QED BY <3>1, <3>2
  <2> QED BY <1>5, <2>1 DEF Opened, StoriesOwn
<1>6. CASE Chose(lines, metrics, ranges) BY <1>6 DEF Chose, StoriesOwn
<1>7. ASSUME NEW i \in next, Replied(i) \/ FailedAt(i) PROVE StoriesOwn'
  <2>1. i \in DOMAIN flight /\ flight[i] \in Among(flight) BY DEF Among
  <2>2. flight' = Racing!RemoveAt(flight, i) /\ UNCHANGED <<metric, live>> BY <1>7 DEF Replied, FailedAt
  <2>3. Among(flight') \subseteq Among(flight) BY <1>2, <2>1, <2>2, Without
  <2>4. held'["story"] # Racing!Null => held'["story"].of = metric
    <3>1. flight[i] \in P BY <1>3, <2>1
    <3>2. CASE held'["story"] \in {held["story"], Racing!Null} BY <3>2 DEF StoriesOwn
    <3>3. CASE held' = [held EXCEPT ![flight[i].what] = flight[i]] /\ (flight[i].what = "story" => flight[i].live = live)
      <4>1. CASE flight[i].what = "story"
        <5>1. held'["story"] = flight[i] BY <1>2, <3>3, <4>1 DEF Slots
        <5> QED BY <2>1, <3>3, <4>1, <5>1 DEF StoriesOwn
      <4>2. CASE flight[i].what # "story"
        <5>1. held'["story"] = held["story"] BY <1>2, <3>3, <4>2 DEF Slots
        <5> QED BY <5>1 DEF StoriesOwn
      <4> QED BY <4>1, <4>2
    <3> QED BY <1>7, <3>2, <3>3 DEF Replied, FailedAt
  <2> QED BY <2>2, <2>3, <2>4 DEF StoriesOwn
<1>8. CASE UNCHANGED <<metric, view, range, price, smaOn, held, err, flight, live>> BY <1>8 DEF StoriesOwn
<1> QED BY <1>5, <1>6, <1>7, <1>8 DEF PageStep

LEMMA LoadsStep ==
  ASSUME NEW lines, NEW metrics, NEW ranges, NEW next, next \subseteq DOMAIN flight, PageTyped(metrics, ranges),
         Loads(lines), PageStep(lines, metrics, ranges, next)
  PROVE  Loads(lines)'
<1>1. PICK P : P = PageRequest(metrics, ranges) OBVIOUS
<1>2. flight \in Seq(P) /\ held \in [Slots -> P \cup {Racing!Null, Racing!NoRows}] /\ err \in BOOLEAN
  BY <1>1 DEF PageTyped
<1>3. PICK D : D = DrawnOf(lines) OBVIOUS
<1>4. D \in {"data", "cycles", "panel"} BY <1>3, DrawnIsASlot
<1>5. ASSUME LastIs(flight', DrawnOf(lines)', WantedOf(lines, metrics, ranges)') PROVE Loads(lines)'
  <2>1. \E x \in Among(flight') : x.what = DrawnOf(lines)' /\ x \in WantedOf(lines, metrics, ranges)'
    BY <1>5, LastIsAmong
  <2>2. \A x \in WantedOf(lines, metrics, ranges)' : x.of = metric' BY DEF WantedOf
  <2> QED BY <2>1, <2>2 DEF Loads
<1>6. CASE Opened(lines, metrics, ranges) BY <1>5, <1>6 DEF Opened
<1>7. CASE Chose(lines, metrics, ranges)
  <2>1. CASE DrawnOf(lines)' = "cycles" /\ held'["cycles"] # Racing!Null BY <2>1 DEF Loads
  <2>2. CASE UNCHANGED <<view, range, price, held, err>>
    <3>1. UNCHANGED <<metric, view>> /\ Among(flight) \subseteq Among(flight') BY <1>7, <2>2 DEF Chose
    <3>2. DrawnOf(lines)' = DrawnOf(lines) BY <3>1, DrawnIsASlot
    <3> QED BY <2>2, <3>1, <3>2 DEF Loads
  <2> QED BY <1>5, <1>7, <2>1, <2>2 DEF Chose
<1>8. ASSUME NEW i \in next, Replied(i) \/ FailedAt(i) PROVE Loads(lines)'
  <2>1. i \in DOMAIN flight /\ flight[i] \in P BY <1>2
  <2>2. flight' = Racing!RemoveAt(flight, i) /\ UNCHANGED <<metric, view>> BY <1>8 DEF Replied, FailedAt
  <2>3. DrawnOf(lines)' = D BY <1>3, <2>2, DrawnIsASlot
  <2>4. \A x \in Among(flight) : x # flight[i] => x \in Among(flight') BY <1>2, <2>1, <2>2, Without
  <2> SUFFICES ASSUME held'[D] = Racing!Null, ~err'
               PROVE  \E x \in Among(flight') : x.what = D /\ x.of = metric'
    BY <2>3 DEF Loads
  <2>5. held[D] = Racing!Null /\ ~err /\ flight[i].what # D
    <3>1. CASE held' = [held EXCEPT ![flight[i].what] = flight[i]] /\ UNCHANGED err
      <4>1. flight[i] # Racing!Null BY <1>1, <2>1 DEF PageRequest, Racing!Null
      <4>2. flight[i].what # D BY <1>2, <1>4, <3>1, <4>1 DEF Slots
      <4>3. held'[D] = held[D] BY <1>2, <1>4, <3>1, <4>2 DEF Slots
      <4> QED BY <3>1, <4>2, <4>3
    <3>2. CASE held' = held /\ flight[i].what = "story" /\ UNCHANGED err BY <1>4, <3>2
    <3>3. CASE FailedAt(i)
      <4>1. flight[i].what \in {"sma", "story"} /\ ~err BY <3>3 DEF FailedAt
      <4>2. D \in Slots \ {"sma", "story"} BY <1>4 DEF Slots
      <4>3. held'[D] = held[D] BY <3>3, <4>2 DEF FailedAt
      <4> QED BY <1>4, <4>1, <4>3
    <3> QED BY <1>8, <3>1, <3>2, <3>3 DEF Replied
  <2>6. PICK x \in Among(flight) : x.what = D /\ x.of = metric BY <1>3, <2>5 DEF Loads
  <2>7. x \in Among(flight') BY <2>4, <2>5, <2>6
  <2> QED BY <2>2, <2>6, <2>7
<1>9. CASE UNCHANGED <<metric, view, range, price, smaOn, held, err, flight, live>>
  BY <1>9 DEF Loads, DrawnOf
<1> QED BY <1>6, <1>7, <1>8, <1>9 DEF PageStep

LEMMA SettlesStep ==
  ASSUME NEW lines, NEW metrics, NEW ranges, NEW next, next \subseteq {1} \cap DOMAIN flight,
         PageTyped(metrics, ranges), Settles(lines, metrics, ranges), PageStep(lines, metrics, ranges, next)
  PROVE  Settles(lines, metrics, ranges)'
<1>1. PICK P : P = PageRequest(metrics, ranges) OBVIOUS
<1>2. flight \in Seq(P) /\ held \in [Slots -> P \cup {Racing!Null, Racing!NoRows}] /\ err \in BOOLEAN
  BY <1>1 DEF PageTyped
<1>3. PICK D : D = DrawnOf(lines) OBVIOUS
<1>4. D \in {"data", "cycles", "panel"} BY <1>3, DrawnIsASlot
<1>5. PICK W : W = WantedOf(lines, metrics, ranges) OBVIOUS
<1>6. ASSUME LastIs(flight', DrawnOf(lines)', WantedOf(lines, metrics, ranges)')
      PROVE  Settles(lines, metrics, ranges)'
  BY <1>6 DEF Settles
<1>7. CASE Opened(lines, metrics, ranges) BY <1>6, <1>7 DEF Opened
<1>8. CASE Chose(lines, metrics, ranges)
  <2>1. CASE DrawnOf(lines)' = "cycles" BY <2>1 DEF Settles
  <2>2. CASE /\ UNCHANGED <<view, range, price, held, err>>
             /\ \A what \in {"data", "panel"}, wanted \in SUBSET PageRequest(metrics, ranges) :
                  /\ LastIs(flight, what, wanted) => LastIs(flight', what, wanted)
                  /\ NoneOf(flight, what) => NoneOf(flight', what)
    <3>1. UNCHANGED <<metric, view, range, price>> BY <1>8, <2>2 DEF Chose
    <3>2. DrawnOf(lines)' = D BY <1>3, <3>1, DrawnIsASlot
    <3>3. WantedOf(lines, metrics, ranges)' = W BY <1>3, <1>5, <3>1, <3>2 DEF WantedOf, PageRequest
    <3>4. W \in SUBSET PageRequest(metrics, ranges) BY <1>5 DEF WantedOf
    <3>5. CASE D = "cycles" BY <3>2, <3>5 DEF Settles
    <3>6. CASE D # "cycles"
      <4>1. /\ LastIs(flight, D, W) => LastIs(flight', D, W)
            /\ NoneOf(flight, D) => NoneOf(flight', D)
        BY <1>4, <2>2, <3>4, <3>6
      <4> QED BY <1>3, <1>5, <2>2, <3>2, <3>3, <4>1 DEF Settles
    <3> QED BY <3>5, <3>6
  <2> QED BY <1>6, <1>8, <2>1, <2>2 DEF Chose
<1>9. ASSUME NEW i \in next, Replied(i) \/ FailedAt(i) PROVE Settles(lines, metrics, ranges)'
  <2>1. i = 1 /\ 1 \in DOMAIN flight /\ flight[1] \in P BY <1>2
  <2>2. flight' = Racing!RemoveAt(flight, 1) /\ UNCHANGED <<metric, view, range, price>>
    BY <1>9, <2>1 DEF Replied, FailedAt
  <2>3. DrawnOf(lines)' = D BY <1>3, <2>2, DrawnIsASlot
  <2>4. WantedOf(lines, metrics, ranges)' = W BY <1>3, <1>5, <2>2, <2>3 DEF WantedOf, PageRequest
  <2> SUFFICES ASSUME ~err', D # "cycles"
               PROVE  LastIs(flight', D, W) \/ (NoneOf(flight', D) /\ held'[D] \in W)
    BY <2>3, <2>4 DEF Settles
  <2>5. /\ NoneOf(flight, D) => NoneOf(flight', D)
        /\ LastIs(flight, D, W) =>
             LastIs(flight', D, W) \/ (NoneOf(flight', D) /\ flight[1].what = D /\ flight[1] \in W)
    BY <1>2, <2>1, <2>2, LastWithoutFirst
  <2>6. D # "story" /\ D # "sma" /\ D \in Slots BY <1>4 DEF Slots
  <2>7. ~err /\ (flight[1].what = D => held'[D] = flight[1]) /\ (flight[1].what # D => held'[D] = held[D])
    <3>1. CASE held' = [held EXCEPT ![flight[1].what] = flight[1]] /\ UNCHANGED err BY <1>2, <2>6, <3>1
    <3>2. CASE held' = held /\ flight[1].what = "story" /\ UNCHANGED err BY <2>6, <3>2
    <3>3. CASE FailedAt(1)
      <4>1. flight[1].what \in {"sma", "story"} /\ ~err BY <3>3 DEF FailedAt
      <4>2. held'[D] = held[D] BY <2>6, <3>3 DEF FailedAt
      <4> QED BY <2>6, <4>1, <4>2
    <3> QED BY <1>9, <2>1, <3>1, <3>2, <3>3 DEF Replied
  <2>8. LastIs(flight, D, W) \/ (NoneOf(flight, D) /\ held[D] \in W) BY <1>3, <1>5, <2>7 DEF Settles
  <2>9. NoneOf(flight, D) => flight[1].what # D BY <2>1 DEF NoneOf
  <2> QED BY <2>5, <2>7, <2>8, <2>9
<1>10. CASE UNCHANGED <<metric, view, range, price, smaOn, held, err, flight, live>>
  BY <1>10 DEF Settles, DrawnOf, WantedOf, PageRequest
<1> QED BY <1>7, <1>8, <1>9, <1>10 DEF PageStep

FourOf(S, f, a, b, c, what, wanted, z) ==
  /\ z \in Seq(S) /\ Among(z) = Among(f) \cup Among(a) \cup Among(b) \cup Among(c)
  /\ LastIs(b, what, wanted) /\ NoneOf(c, what) => LastIs(z, what, wanted)

LEMMA FourAppended ==
  ASSUME NEW S, NEW f \in Seq(S), NEW a \in Seq(S), NEW b \in Seq(S), NEW c \in Seq(S), NEW what, NEW wanted,
         NEW z, z = f \o a \o b \o c
  PROVE  FourOf(S, f, a, b, c, what, wanted, z)
<1>1. PICK p : p = f \o a OBVIOUS
<1>2. p \in Seq(S) /\ Among(p) = Among(f) \cup Among(a) BY <1>1, Appended
<1>3. PICK q : q = p \o b OBVIOUS
<1>4. /\ q \in Seq(S) /\ Among(q) = Among(p) \cup Among(b)
      /\ LastIs(b, what, wanted) => LastIs(q, what, wanted)
  BY <1>2, <1>3, Appended, LastAppended
<1>5. z = q \o c BY <1>1, <1>3
<1>6. /\ z \in Seq(S) /\ Among(z) = Among(q) \cup Among(c)
      /\ LastIs(q, what, wanted) /\ NoneOf(c, what) => LastIs(z, what, wanted)
  BY <1>4, <1>5, Appended, LastAppended
<1> QED BY <1>2, <1>4, <1>6 DEF FourOf

LEMMA RacingInit ==
  ASSUME Racing!Init
  PROVE  /\ PageTyped(RacingMetrics, ForRacing.Ranges) /\ StoriesOwn /\ Loads(ForRacing.Lines) /\ Settles(ForRacing.Lines, RacingMetrics, ForRacing.Ranges)
<1>1. PICK P : P = PageRequest(RacingMetrics, ForRacing.Ranges) OBVIOUS
<1>2. Racing!Null = Racing!Null BY DEF Racing!Null, Racing!Null
<1>3. PICK a : a = Racing!StoryEffect(metric, 1) OBVIOUS
<1>4. PICK b : b = Racing!SmaEffect(metric, view, smaOn, Racing!Null) OBVIOUS
<1>5. PICK c : c = Racing!BaseEffect(metric, "series", range, FALSE, Racing!Null) OBVIOUS
<1>6. /\ metric \in RacingMetrics /\ view = "series" /\ range \in ForRacing.Ranges /\ price = FALSE
      /\ smaOn = (metric \in ForRacing.Active)
      /\ held = [s \in Slots |-> Racing!Null] /\ err = FALSE /\ live = 1 /\ flight = a \o b \o c \o b
  BY <1>2, <1>3, <1>4, <1>5 DEF Racing!Init, Slots, RacingMetrics
<1>7. smaOn \in BOOLEAN
  <2>1. (metric \in ForRacing.Active) \in BOOLEAN OBVIOUS
  <2> QED BY <1>6, <2>1, Zenon
<1>8. PICK D : D = IF metric \notin ForRacing.Lines THEN "panel" ELSE "data" OBVIOUS
<1>9. DrawnOf(ForRacing.Lines) = D BY <1>6, <1>8 DEF DrawnOf
<1>10. PICK W : W = WantedOf(ForRacing.Lines, RacingMetrics, ForRacing.Ranges) OBVIOUS
<1>11. W = {x \in P : x.what = D /\ x.of = metric /\ (x.what = "data" => x.range = range /\ x.price = FALSE)}
  BY <1>1, <1>6, <1>9, <1>10 DEF WantedOf
<1>12. /\ a \in Seq(P)
       /\ \A x \in Among(a) : x.what = "story" /\ x.of = metric /\ x.live = 1
  BY <1>1, <1>3, <1>6, RacingStory
<1>13. SmaOf(RacingMetrics, ForRacing.Ranges, b) BY <1>4, <1>6, RacingSma
<1>14. /\ b \in Seq(P)
       /\ \A x \in Among(b) : x.what = "sma"
       /\ \A what : what # "sma" => NoneOf(b, what)
  BY <1>1, <1>13 DEF SmaOf
<1>15. BaseOf(ForRacing.Lines, RacingMetrics, ForRacing.Ranges, metric, "series", range, FALSE, Racing!Null, c)
  BY <1>5, <1>6, RacingBase
<1>16. PICK q \in P : c = <<q>> /\ q.what = D /\ q \in W BY <1>1, <1>8, <1>11, <1>15 DEF BaseOf
<1>17. c \in Seq(P) /\ Among(c) = {q} /\ LastIs(c, D, W) BY <1>16, PageShown, Single
<1>18. NoneOf(b, D) /\ D # "story" BY <1>8, <1>14
<1>19. /\ flight \in Seq(P) /\ Among(flight) = Among(a) \cup Among(b) \cup Among(c) \cup Among(b)
       /\ LastIs(flight, D, W)
  <2>1. a \in Seq(P) /\ b \in Seq(P) /\ c \in Seq(P) BY <1>12, <1>14, <1>17
  <2>2. PICK z : z = a \o b \o c \o b OBVIOUS
  <2>5. FourOf(P, a, b, c, b, D, W, z)
    BY <2>1, <2>2, FourAppended
  <2>3. /\ z \in Seq(P) /\ Among(z) = Among(a) \cup Among(b) \cup Among(c) \cup Among(b)
        /\ LastIs(c, D, W) /\ NoneOf(b, D) => LastIs(z, D, W)
    BY <2>5 DEF FourOf
  <2>4. flight = z BY <1>6, <2>2
  <2> QED BY <1>17, <1>18, <2>3, <2>4
<1>20. held \in [Slots -> P \cup {Racing!Null, Racing!NoRows}] BY <1>6
<1>21. PageTyped(RacingMetrics, ForRacing.Ranges) BY <1>1, <1>6, <1>7, <1>19, <1>20 DEF PageTyped
<1>22. \A x \in Among(flight) : x.what = "story" => x.of = metric /\ x.live = 1
  BY <1>12, <1>14, <1>16, <1>17, <1>18, <1>19
<1>23. StoriesOwn BY <1>6, <1>22 DEF StoriesOwn, Slots
<1>24. \E x \in Among(flight) : x.what = D /\ x \in W BY <1>19, LastIsAmong
<1>25. Loads(ForRacing.Lines) BY <1>9, <1>11, <1>24 DEF Loads
<1> QED BY <1>9, <1>10, <1>19, <1>21, <1>23, <1>25 DEF Settles

LEMMA ChoosingInit ==
  ASSUME Choosing!Init
  PROVE  /\ PageTyped(ChoosingMetrics, ForChoosing.Ranges) /\ StoriesOwn /\ Loads(ForChoosing.Lines) /\ Settles(ForChoosing.Lines, ChoosingMetrics, ForChoosing.Ranges)
<1>1. PICK P : P = PageRequest(ChoosingMetrics, ForChoosing.Ranges) OBVIOUS
<1>2. Choosing!Null = Racing!Null BY DEF Choosing!Null, Racing!Null
<1>3. PICK a : a = Choosing!StoryEffect(metric, 1) OBVIOUS
<1>4. PICK b : b = Choosing!SmaEffect(metric, view, smaOn, Racing!Null) OBVIOUS
<1>5. PICK c : c = Choosing!BaseEffect(metric, "series", range, FALSE, Racing!Null) OBVIOUS
<1>6. /\ metric \in ChoosingMetrics /\ view = "series" /\ range \in ForChoosing.Ranges /\ price = FALSE
      /\ smaOn = (metric \in ForChoosing.Active)
      /\ held = [s \in Slots |-> Racing!Null] /\ err = FALSE /\ live = 1 /\ flight = a \o b \o c \o b
  BY <1>2, <1>3, <1>4, <1>5 DEF Choosing!Init, Slots, ChoosingMetrics
<1>7. smaOn \in BOOLEAN
  <2>1. (metric \in ForChoosing.Active) \in BOOLEAN OBVIOUS
  <2> QED BY <1>6, <2>1, Zenon
<1>8. PICK D : D = IF metric \notin ForChoosing.Lines THEN "panel" ELSE "data" OBVIOUS
<1>9. DrawnOf(ForChoosing.Lines) = D BY <1>6, <1>8 DEF DrawnOf
<1>10. PICK W : W = WantedOf(ForChoosing.Lines, ChoosingMetrics, ForChoosing.Ranges) OBVIOUS
<1>11. W = {x \in P : x.what = D /\ x.of = metric /\ (x.what = "data" => x.range = range /\ x.price = FALSE)}
  BY <1>1, <1>6, <1>9, <1>10 DEF WantedOf
<1>12. /\ a \in Seq(P)
       /\ \A x \in Among(a) : x.what = "story" /\ x.of = metric /\ x.live = 1
  BY <1>1, <1>3, <1>6, ChoosingStory
<1>13. SmaOf(ChoosingMetrics, ForChoosing.Ranges, b) BY <1>4, <1>6, ChoosingSma
<1>14. /\ b \in Seq(P)
       /\ \A x \in Among(b) : x.what = "sma"
       /\ \A what : what # "sma" => NoneOf(b, what)
  BY <1>1, <1>13 DEF SmaOf
<1>15. BaseOf(ForChoosing.Lines, ChoosingMetrics, ForChoosing.Ranges, metric, "series", range, FALSE, Racing!Null, c)
  BY <1>5, <1>6, ChoosingBase
<1>16. PICK q \in P : c = <<q>> /\ q.what = D /\ q \in W BY <1>1, <1>8, <1>11, <1>15 DEF BaseOf
<1>17. c \in Seq(P) /\ Among(c) = {q} /\ LastIs(c, D, W) BY <1>16, PageShown, Single
<1>18. NoneOf(b, D) /\ D # "story" BY <1>8, <1>14
<1>19. /\ flight \in Seq(P) /\ Among(flight) = Among(a) \cup Among(b) \cup Among(c) \cup Among(b)
       /\ LastIs(flight, D, W)
  <2>1. a \in Seq(P) /\ b \in Seq(P) /\ c \in Seq(P) BY <1>12, <1>14, <1>17
  <2>2. PICK z : z = a \o b \o c \o b OBVIOUS
  <2>5. FourOf(P, a, b, c, b, D, W, z)
    BY <2>1, <2>2, FourAppended
  <2>3. /\ z \in Seq(P) /\ Among(z) = Among(a) \cup Among(b) \cup Among(c) \cup Among(b)
        /\ LastIs(c, D, W) /\ NoneOf(b, D) => LastIs(z, D, W)
    BY <2>5 DEF FourOf
  <2>4. flight = z BY <1>6, <2>2
  <2> QED BY <1>17, <1>18, <2>3, <2>4
<1>20. held \in [Slots -> P \cup {Racing!Null, Racing!NoRows}] BY <1>6
<1>21. PageTyped(ChoosingMetrics, ForChoosing.Ranges) BY <1>1, <1>6, <1>7, <1>19, <1>20 DEF PageTyped
<1>22. \A x \in Among(flight) : x.what = "story" => x.of = metric /\ x.live = 1
  BY <1>12, <1>14, <1>16, <1>17, <1>18, <1>19
<1>23. StoriesOwn BY <1>6, <1>22 DEF StoriesOwn, Slots
<1>24. \E x \in Among(flight) : x.what = D /\ x \in W BY <1>19, LastIsAmong
<1>25. Loads(ForChoosing.Lines) BY <1>9, <1>11, <1>24 DEF Loads
<1> QED BY <1>9, <1>10, <1>19, <1>21, <1>23, <1>25 DEF Settles

RacingInv ==
  PageTyped(RacingMetrics, ForRacing.Ranges) /\ StoriesOwn /\ Loads(ForRacing.Lines)

\* In order, the first answer comes first.
ChoosingInv ==
  /\ PageTyped(ChoosingMetrics, ForChoosing.Ranges)
  /\ ForChoosing.InOrder => Settles(ForChoosing.Lines, ChoosingMetrics, ForChoosing.Ranges)

LEMMA RacingNext == RacingInv /\ Racing!Next => RacingInv'
<1> SUFFICES ASSUME RacingInv, Racing!Next PROVE RacingInv' OBVIOUS
<1>1. PICK metrics : metrics = RacingMetrics OBVIOUS
<1>2. PageTyped(metrics, ForRacing.Ranges) /\ StoriesOwn /\ Loads(ForRacing.Lines) BY <1>1 DEF RacingInv
<1>3. PageStep(ForRacing.Lines, metrics, ForRacing.Ranges, Racing!Next1) /\ PageTyped(metrics, ForRacing.Ranges)'
  BY <1>1, RacingSteps DEF RacingInv
<1>4. Racing!Next1 \subseteq DOMAIN flight BY DEF Racing!Next1
<1>5. StoriesOwn' BY <1>2, <1>3, <1>4, StoriesStep
<1>6. Loads(ForRacing.Lines)' BY <1>2, <1>3, <1>4, LoadsStep
<1> QED BY <1>1, <1>3, <1>5, <1>6 DEF RacingInv

LEMMA ChoosingNext == ChoosingInv /\ Choosing!Next => ChoosingInv'
<1> SUFFICES ASSUME ChoosingInv, Choosing!Next PROVE ChoosingInv' OBVIOUS
<1>1. PICK metrics : metrics = ChoosingMetrics OBVIOUS
<1>2. PageTyped(metrics, ForChoosing.Ranges) BY <1>1 DEF ChoosingInv
<1>3. PageStep(ForChoosing.Lines, metrics, ForChoosing.Ranges, Choosing!Next1) /\ PageTyped(metrics, ForChoosing.Ranges)'
  BY <1>1, ChoosingSteps DEF ChoosingInv
<1>4. ASSUME ForChoosing.InOrder PROVE Settles(ForChoosing.Lines, metrics, ForChoosing.Ranges)'
  <2>1. Choosing!Next1 \subseteq {1} \cap DOMAIN flight BY <1>4 DEF Choosing!Next1
  <2>2. Settles(ForChoosing.Lines, metrics, ForChoosing.Ranges) BY <1>1, <1>4 DEF ChoosingInv
  <2> QED BY <1>2, <1>3, <2>1, <2>2, SettlesStep
<1> QED BY <1>1, <1>3, <1>4 DEF ChoosingInv

LEMMA PageUnchanged ==
  ASSUME UNCHANGED metricPage
  PROVE  (RacingInv => RacingInv') /\ (ChoosingInv => ChoosingInv')
<1>1. UNCHANGED <<metric, view, range, price, smaOn, held, err, flight, live>> BY DEF metricPage
<1>2. \A l : DrawnOf(l)' = DrawnOf(l) BY <1>1 DEF DrawnOf
<1>3. \A l, m, r : WantedOf(l, m, r)' = WantedOf(l, m, r)
  BY <1>1, <1>2 DEF WantedOf, PageRequest
<1>4. \A m, r : PageTyped(m, r) => PageTyped(m, r)' BY <1>1 DEF PageTyped, PageRequest
<1>5. StoriesOwn => StoriesOwn' BY <1>1 DEF StoriesOwn
<1>6. \A l : Loads(l) => Loads(l)' BY <1>1, <1>2 DEF Loads
<1>7. \A l, m, r : Settles(l, m, r) => Settles(l, m, r)' BY <1>1, <1>2, <1>3 DEF Settles
<1> QED BY <1>4, <1>5, <1>6, <1>7 DEF RacingInv, ChoosingInv

\* What the pages promise.
LEMMA RacingShows == RacingInv => Racing!StoryIsTheMetric /\ Racing!LoadingIsAsked
<1> SUFFICES ASSUME RacingInv PROVE Racing!StoryIsTheMetric /\ Racing!LoadingIsAsked OBVIOUS
<1>1. Racing!StoryIsTheMetric BY DEF RacingInv, StoriesOwn, Racing!StoryIsTheMetric
<1>2. Racing!Drawn = DrawnOf(ForRacing.Lines) BY DEF Racing!Drawn, Racing!Line, DrawnOf
<1>3. Racing!LoadingIsAsked BY <1>2 DEF RacingInv, Loads, Among, Racing!LoadingIsAsked
<1> QED BY <1>1, <1>3

LEMMA ChoosingShows == ChoosingInv => Choosing!SettledIsChosen
<1> SUFFICES ASSUME ChoosingInv PROVE Choosing!SettledIsChosen OBVIOUS
<1>1. PICK metrics : metrics = ChoosingMetrics OBVIOUS
<1>2. PICK D : D = DrawnOf(ForChoosing.Lines) OBVIOUS
<1>3. Choosing!Drawn = D BY <1>2 DEF Choosing!Drawn, Choosing!Line, DrawnOf
<1> SUFFICES ASSUME ForChoosing.InOrder, ~err, D # "cycles", NoneOf(flight, D)
             PROVE  held[D].of = metric /\ (D = "data" => held.data.range = range /\ held.data.price = price)
  BY <1>3 DEF Choosing!SettledIsChosen, NoneOf
<1>4. ~LastIs(flight, D, WantedOf(ForChoosing.Lines, metrics, ForChoosing.Ranges)) BY DEF LastIs, NoneOf
<1>5. held[D] \in WantedOf(ForChoosing.Lines, metrics, ForChoosing.Ranges)
  BY <1>1, <1>2, <1>4 DEF ChoosingInv, Settles
<1> QED BY <1>2, <1>5 DEF WantedOf

---------------------------------------------------------------------------
(* The cache of cards. *)

CardTodo(q) ==
  \/ \E S \in SUBSET {"spark", "row", "pct"} : q.left = <<S, {"png"}>>
  \/ q.left = <<{"png"}>> /\ q.oldest # Card!Null

\* A request for a card is not older than a build, nor is what it has read older
\* than it.
CardRequest(q, t) ==
  /\ q = [kind |-> q.kind, left |-> q.left, since |-> q.since, oldest |-> q.oldest, got |-> q.got]
  /\ q.since \in Nat /\ q.oldest \in Int /\ q.since <= t
  /\ q.kind = "card" =>
       t - q.since <= ForCard.MaxBuild /\ (q.oldest = Card!Null \/ q.since <= q.oldest) /\ CardTodo(q)

CardInv ==
  /\ now \in Nat /\ card.at \in Int /\ card.oldest \in Int
  /\ card.at - card.oldest <= ForCard.MaxBuild
  /\ req = [r \in ForCard.Requests |-> req[r]]
  /\ \A r \in ForCard.Requests : req[r] = Card!None \/ CardRequest(req[r], now)

LEMMA CardBounds == ForCard.MaxBuild \in Nat /\ ForCard.TTL \in Nat \ {0}
BY PagesAssumption DEF PagesAssumption, Card!ReadAssumption

LEMMA CardInit == Card!Init => CardInv
BY CardBounds DEF Card!Init, CardInv, Card!NoCard, Card!Null

LEMMA OfTwo ==
  ASSUME NEW a, NEW b
  PROVE  Tail(<<a, b>>) = <<b>> /\ <<a>> \o <<b>> = <<a, b>> /\ <<a, b>>[1] = a
<1>1. PICK S : S = {a, b} OBVIOUS
<1>2. <<a, b>> \in Seq(S) /\ <<a>> \in Seq(S) /\ <<b>> \in Seq(S) BY <1>1
<1>3. Len(<<a, b>>) = 2 /\ Len(<<a>>) = 1 /\ Len(<<b>>) = 1 /\ <<a, b>>[1] = a /\ <<a, b>>[2] = b OBVIOUS
<1>4. PICK u : u = Tail(<<a, b>>) OBVIOUS
<1>5. u \in Seq(S) /\ Len(u) = 1 /\ u[1] = b BY <1>2, <1>3, <1>4
<1>6. u = <<b>> BY <1>2, <1>5, SeqEqual
<1>7. PICK w : w = <<a>> \o <<b>> OBVIOUS
<1>8. w \in Seq(S) /\ Len(w) = 2 /\ w[1] = a /\ w[2] = b BY <1>2, <1>3, <1>7, ConcatProperties
<1>9. w = <<a, b>> BY <1>2, <1>8, SeqEqual
<1> QED BY <1>3, <1>4, <1>6, <1>7, <1>9

\* One request goes on, or ends.
LEMMA OneRequestMoves ==
  ASSUME CardInv, NEW r \in ForCard.Requests, NEW q, q = Card!None \/ CardRequest(q, now),
         req' = [req EXCEPT ![r] = q], UNCHANGED <<now, card>>
  PROVE  CardInv'
<1>2. req' = [x \in ForCard.Requests |-> req'[x]] BY DEF CardInv
<1>3. ASSUME NEW x \in ForCard.Requests PROVE req'[x] = Card!None \/ CardRequest(req'[x], now')
  <2>1. req'[x] = q \/ req'[x] = req[x] BY DEF CardInv
  <2>2. req'[x] = Card!None \/ CardRequest(req'[x], now)
    <3>1. CASE req'[x] = q BY <3>1
    <3>2. CASE req'[x] = req[x] BY <3>2 DEF CardInv
    <3> QED BY <2>1, <3>1, <3>2
  <2> QED BY <2>2
<1> QED BY <1>2, <1>3 DEF CardInv

\* A statement is answered.
LEMMA ReadsOn ==
  ASSUME CardInv, NEW q, CardRequest(q, now), NEW s, NEW a, q.kind = "card" => s \in q.left[1] /\ s # "png"
  PROVE  CardRequest(Card!Reads(q, s, a), now)
<1>1. PICK l : l = Card!Left(q, s) OBVIOUS
<1>2. PICK g : g = Card!Got(q, s, a) OBVIOUS
<1>3. PICK o : o = IF q.oldest = Card!Null THEN now ELSE q.oldest OBVIOUS
<1>4. PICK z : z = Card!Reads(q, s, a) OBVIOUS
<1>5. z = [q EXCEPT !.left = l, !.got = g, !.oldest = o]
  BY <1>1, <1>2, <1>3, <1>4 DEF Card!Reads
<1>6. q = [kind |-> q.kind, left |-> q.left, since |-> q.since, oldest |-> q.oldest, got |-> q.got]
  BY DEF CardRequest
<1>7. z = [kind |-> q.kind, left |-> l, since |-> q.since, oldest |-> o, got |-> g] BY <1>5, <1>6
<1>8. z.kind = q.kind /\ z.left = l /\ z.since = q.since /\ z.oldest = o /\ z.got = g BY <1>7
<1>9. z = [kind |-> z.kind, left |-> z.left, since |-> z.since, oldest |-> z.oldest, got |-> z.got]
  BY <1>7, <1>8
<1>10. now \in Nat /\ q.since \in Nat /\ q.oldest \in Int /\ q.since <= now BY DEF CardInv, CardRequest
<1>11. o \in Int /\ o # Card!Null BY <1>3, <1>10 DEF Card!Null
<1>12. ASSUME q.kind = "card"
       PROVE  now - q.since <= ForCard.MaxBuild /\ q.since <= o /\ CardTodo(z)
  <2>1. now - q.since <= ForCard.MaxBuild /\ (q.oldest = Card!Null \/ q.since <= q.oldest) /\ CardTodo(q)
    BY <1>12 DEF CardRequest
  <2>2. q.since <= o BY <1>3, <1>10, <2>1
  <2>3. s \in q.left[1] /\ s # "png" BY <1>12
  <2>4. q.left # <<{"png"}>> BY <2>3
  <2>5. PICK S \in SUBSET {"spark", "row", "pct"} : q.left = <<S, {"png"}>> BY <2>1, <2>4 DEF CardTodo
  <2>6. Tail(q.left) = <<{"png"}>> /\ q.left[1] = S BY <2>5, OfTwo
  <2>7. l = IF S = {s} THEN <<{"png"}>> ELSE <<S \ {s}>> \o <<{"png"}>> BY <1>1, <2>6 DEF Card!Left
  <2>8. <<S \ {s}>> \o <<{"png"}>> = <<S \ {s}, {"png"}>> BY OfTwo
  <2>9. S \ {s} \in SUBSET {"spark", "row", "pct"} OBVIOUS
  <2>10. l = <<{"png"}>> \/ l = <<S \ {s}, {"png"}>> BY <2>7, <2>8
  <2>11. CardTodo(z)
    <3>1. CASE l = <<{"png"}>> BY <1>8, <1>11, <3>1 DEF CardTodo
    <3>2. CASE l = <<S \ {s}, {"png"}>> BY <1>8, <2>9, <3>2 DEF CardTodo
    <3> QED BY <2>10, <3>1, <3>2
  <2> QED BY <2>1, <2>2, <2>11
<1>13. CardRequest(z, now) BY <1>8, <1>9, <1>10, <1>11, <1>12 DEF CardRequest
<1> QED BY <1>4, <1>13

\* A request that comes.
LEMMA Asked ==
  ASSUME CardInv, NEW k, NEW q,
         q = [kind |-> k, left |-> Card!Statements(k), since |-> now, oldest |-> Card!Null, got |-> [s \in {} |-> {}]]
  PROVE  CardRequest(q, now)
<1>1. PICK g : g = [s \in {} |-> {}] OBVIOUS
<1>2. PICK l : l = Card!Statements(k) OBVIOUS
<1>3. q = [kind |-> k, left |-> l, since |-> now, oldest |-> Card!Null, got |-> g] BY <1>1, <1>2
<1>4. q.kind = k /\ q.left = l /\ q.since = now /\ q.oldest = Card!Null /\ q.got = g BY <1>3
<1>5. q = [kind |-> q.kind, left |-> q.left, since |-> q.since, oldest |-> q.oldest, got |-> q.got]
  BY <1>3, <1>4
<1>6. now \in Nat /\ Card!Null \in Int BY DEF CardInv, Card!Null
<1>7. k = "card" => l = <<{"spark", "row", "pct"}, {"png"}>> BY <1>2 DEF Card!Statements
<1>8. {"spark", "row", "pct"} \in SUBSET {"spark", "row", "pct"} OBVIOUS
<1>9. k = "card" => CardTodo(q) BY <1>4, <1>7, <1>8 DEF CardTodo
<1> QED BY <1>4, <1>5, <1>6, <1>9, CardBounds DEF CardRequest

CardGood == CardInv' /\ Card!CardIsOfTheHour

LEMMA CardStep == CardInv /\ Card!Next => CardGood
<1> SUFFICES ASSUME CardInv, Card!Next PROVE CardGood OBVIOUS
<1>1. CASE (\E v \in ForCard.Readings \cup {Card!Null} : Card!Finalize(v)) \/ (\E d \in 0..(Len(tbl) - 1) : Card!Rewind(d))
  <2>1. UNCHANGED <<now, req, card, reply>> BY <1>1 DEF Card!Finalize, Card!Rewind
  <2> QED BY <2>1 DEF CardGood, CardInv, CardRequest, CardTodo, Card!CardIsOfTheHour
<1>2. CASE Card!Tick
  <2>1. /\ now' = now + 1 /\ UNCHANGED <<req, card, reply>>
        /\ \A r \in ForCard.Requests : req[r].kind = "card" => now' - req[r].since <= ForCard.MaxBuild
    BY <1>2 DEF Card!Tick
  <2>2. now \in Nat /\ now' \in Nat BY <2>1 DEF CardInv
  <2>3. ASSUME NEW r \in ForCard.Requests, CardRequest(req[r], now) PROVE CardRequest(req[r], now')
    BY <2>1, <2>2, <2>3 DEF CardRequest, CardTodo
  <2> QED BY <2>1, <2>2, <2>3 DEF CardGood, CardInv, Card!CardIsOfTheHour
<1>3. ASSUME NEW r \in ForCard.Requests, NEW k \in ForCard.Kinds, Card!Ask(r, k) PROVE CardGood
  <2>1. CASE k = "card" /\ Card!IsFresh
    <3>1. /\ reply' = [kind |-> k, oldest |-> card.oldest] /\ UNCHANGED <<now, req, card>>
          /\ now - card.at < ForCard.TTL
      BY <1>3, <2>1 DEF Card!Ask, Card!IsFresh
    <3>2. CardInv' BY <3>1 DEF CardInv, CardRequest, CardTodo
    <3>3. reply'.oldest = card.oldest BY <3>1
    <3>4. now - reply'.oldest < ForCard.TTL + ForCard.MaxBuild BY <3>1, <3>3, CardBounds DEF CardInv
    <3> QED BY <3>2, <3>4 DEF CardGood, Card!CardIsOfTheHour
  <2>2. CASE ~(k = "card" /\ Card!IsFresh)
    <3> DEFINE q == [kind |-> k, left |-> Card!Statements(k), since |-> now, oldest |-> Card!Null, got |-> [s \in {} |-> {}]]
    <3>1. reply' = reply /\ req' = [req EXCEPT ![r] = q] /\ UNCHANGED <<now, card>> BY <1>3, <2>2 DEF Card!Ask
    <3>2. CardRequest(q, now) BY Asked
    <3> HIDE DEF q
    <3>3. CardInv' BY <3>1, <3>2, OneRequestMoves
    <3> QED BY <3>1, <3>3 DEF CardGood, Card!CardIsOfTheHour
  <2> QED BY <2>1, <2>2
\* A request ends, or is left as it is.
<1>4. ASSUME NEW r \in ForCard.Requests, req' = [req EXCEPT ![r] = Card!None], UNCHANGED <<now,
     card>> PROVE CardInv'
  BY <1>4, OneRequestMoves
<1>5. ASSUME NEW r \in ForCard.Requests, NEW s, NEW a, CardRequest(req[r], now),
     req[r].kind = "card" => s \in req[r].left[1] /\ s # "png",
             req' = [req EXCEPT ![r] = Card!Reads(req[r], s, a)], UNCHANGED <<now, card>>
      PROVE  CardInv'
  <2>1. PICK q : q = Card!Reads(req[r], s, a) OBVIOUS
  <2>2. PICK p : p = req[r] OBVIOUS
  <2>3. CardRequest(Card!Reads(p, s, a), now) BY <1>5, <2>2, ReadsOn
  <2>4. CardRequest(q, now) BY <2>1, <2>2, <2>3
  <2> QED BY <1>5, <2>1, <2>4, OneRequestMoves
<1>6. \A r \in ForCard.Requests : req[r].kind # "none" => CardRequest(req[r], now) BY DEF CardInv, Card!None
<1>7. ASSUME NEW r \in ForCard.Requests, NEW s \in {"row", "spark", "pct"}, Card!ReadLatest(r, s) PROVE CardGood
  <2>1. req[r].kind = "latest" /\ UNCHANGED <<now, card>> BY <1>7 DEF Card!ReadLatest
  <2>2. PICK a : a = Card!Answer(s) OBVIOUS
  <2>3. \/ req' = [req EXCEPT ![r] = Card!None] /\ reply'.kind \in {"empty", "latest"}
        \/ req' = [req EXCEPT ![r] = Card!Reads(req[r], s, a)] /\ reply' = reply
    BY <1>7, <2>2 DEF Card!ReadLatest
  <2>4. CardInv' BY <1>4, <1>5, <1>6, <2>1, <2>3
  <2> QED BY <2>3, <2>4 DEF CardGood, Card!CardIsOfTheHour
<1>8. ASSUME NEW r \in ForCard.Requests, NEW s \in {"row", "spark", "pct"}, Card!ReadCard(r, s) PROVE CardGood
  <2>1. /\ req[r].kind = "card" /\ s \in req[r].left[1] /\ s # "png" /\ UNCHANGED <<now, card, reply>>
        /\ req' = [req EXCEPT ![r] = Card!Reads(req[r], s, {})]
    BY <1>8 DEF Card!ReadCard
  <2>2. CardInv' BY <1>5, <1>6, <2>1
  <2> QED BY <2>1, <2>2 DEF CardGood, Card!CardIsOfTheHour
<1>9. ASSUME NEW r \in ForCard.Requests, Card!ReadAsOf(r) PROVE CardGood
  <2>1. req[r].kind = "heatmap" /\ UNCHANGED <<now, card>> BY <1>9 DEF Card!ReadAsOf
  <2>2. PICK a : a = Card!Newest OBVIOUS
  <2>3. \/ req' = [req EXCEPT ![r] = Card!None] /\ reply'.kind \in {"empty", "heatmap"}
        \/ req' = [req EXCEPT ![r] = Card!Reads(req[r], "asOf", a)] /\ reply' = reply
    BY <1>9, <2>2 DEF Card!ReadAsOf, Card!Heat
  <2>4. CardInv' BY <1>4, <1>5, <1>6, <2>1, <2>3
  <2> QED BY <2>3, <2>4 DEF CardGood, Card!CardIsOfTheHour
<1>10. ASSUME NEW r \in ForCard.Requests, Card!ReadRows(r) \/ Card!Fail(r) PROVE CardGood
  <2>1. req' = [req EXCEPT ![r] = Card!None] /\ reply'.kind \in {"heatmap", "error"} /\ UNCHANGED <<now, card>>
    BY <1>10 DEF Card!ReadRows, Card!Fail, Card!Heat
  <2> QED BY <1>4, <2>1 DEF CardGood, Card!CardIsOfTheHour
<1>11. ASSUME NEW r \in ForCard.Requests, Card!DrawCard(r) PROVE CardGood
  <2>1. /\ req[r].kind = "card" /\ req[r].left[1] = {"png"} /\ now' = now
        /\ card' = [at |-> now, oldest |-> req[r].oldest]
        /\ req' = [req EXCEPT ![r] = Card!None] /\ reply' = [kind |-> "card", oldest |-> req[r].oldest]
    BY <1>11 DEF Card!DrawCard
  <2>2. CardRequest(req[r], now) BY <1>6, <2>1
  <2>3. req[r].oldest # Card!Null
    <3>1. CASE \E S \in SUBSET {"spark", "row", "pct"} : req[r].left = <<S, {"png"}>>
      <4>1. PICK S \in SUBSET {"spark", "row", "pct"} : req[r].left = <<S, {"png"}>> BY <3>1
      <4>2. S = {"png"} BY <2>1, <4>1, OfTwo
      <4> QED BY <4>2
    <3> QED BY <2>1, <2>2, <3>1 DEF CardRequest, CardTodo
  <2>4. /\ now \in Nat /\ req[r].oldest \in Int /\ now - req[r].oldest <= ForCard.MaxBuild
    BY <2>1, <2>2, <2>3, CardBounds DEF CardRequest, CardInv
  <2>5. card'.at = now /\ card'.oldest = req[r].oldest /\ reply'.oldest = req[r].oldest BY <2>1
  <2>6. CardInv'
    <3>1. req' = [x \in ForCard.Requests |-> req'[x]] BY <2>1 DEF CardInv
    <3>2. ASSUME NEW x \in ForCard.Requests PROVE req'[x] = Card!None \/ CardRequest(req'[x], now')
      <4>1. req'[x] = Card!None \/ req'[x] = req[x] BY <2>1 DEF CardInv
      <4>2. req[x] = Card!None \/ CardRequest(req[x], now) BY DEF CardInv
      <4> QED BY <2>1, <4>1, <4>2
    <3> QED BY <2>1, <2>4, <2>5, <3>1, <3>2 DEF CardInv
  <2>7. now - reply'.oldest < ForCard.TTL + ForCard.MaxBuild BY <2>4, <2>5, CardBounds
  <2> QED BY <2>6, <2>7 DEF CardGood, Card!CardIsOfTheHour
<1> QED BY <1>1, <1>2, <1>3, <1>7, <1>8, <1>9, <1>10, <1>11 DEF Card!Next

LEMMA CardUnchanged == UNCHANGED api => (CardInv => CardInv')
BY DEF api, CardInv, CardRequest, CardTodo

---------------------------------------------------------------------------
(* The answers that take several statements. *)

Stored == [v : ForLatest.Readings \cup {Latest!Null}, by : Nat]

RowIn(s, d) == [day |-> d, v |-> s[d].v, by |-> s[d].by]

\* The days a heatmap is asked for.
WantedIn(s, asOf) ==
  {RowIn(s, d) : d \in {x \in DOMAIN s :
     s[x].v # Latest!Null /\ x <= asOf /\ (x % ForLatest.Week = 0 \/ x = asOf)}}

HeatOf(s, asOf, rows) == asOf \in 0..Len(s) /\ WantedIn(s, asOf) \subseteq rows
RowOf(s, top) == \E d \in 1..Len(s) : top = RowIn(s, d)
SparkOf(top, spark) ==
  /\ \E x \in spark : x.day >= top.day
  /\ \A x \in spark : x.day = top.day => x = top

LatestTodo(q, s) ==
  \/ q.left = <<{"row"}, {"spark"}, {"pct"}>>
  \/ q.left = <<{"spark"}, {"pct"}>> /\ "row" \in DOMAIN q.got /\ RowOf(s, q.got["row"])
  \/ /\ q.left = <<{"pct"}>> /\ "row" \in DOMAIN q.got /\ "spark" \in DOMAIN q.got
     /\ RowOf(s, q.got["row"]) /\ SparkOf(q.got["row"], q.got["spark"])

HeatmapTodo(q, s) ==
  \/ q.left = <<{"asOf"}, {"rows"}>>
  \/ q.left = <<{"rows"}>> /\ q.got["asOf"] \in 0..Len(s)

\* What a request has read is what is stored now: no day it names has gone.
LatestRequest(q, s) ==
  /\ q = [kind |-> q.kind, left |-> q.left, since |-> q.since, oldest |-> q.oldest, got |-> q.got]
  /\ q.kind = "latest" => LatestTodo(q, s)
  /\ q.kind = "heatmap" => HeatmapTodo(q, s)

AnswerOf(a, s) ==
  /\ a.kind = "heatmap" => HeatOf(s, a.asOf, a.rows)
  /\ a.kind = "latest" => RowOf(s, a.got["row"]) /\ SparkOf(a.got["row"], a.got["spark"])

\* While no day is taken back.
Whole(s, m, q, a) ==
  /\ s \in Seq(Stored) /\ HeatOf(s, m.asOf, m.rows)
  /\ q = [r \in ForLatest.Requests |-> q[r]]
  /\ \A r \in ForLatest.Requests : q[r] = Latest!None \/ LatestRequest(q[r], s)
  /\ AnswerOf(a, s)

LatestInv == rewinds \in Nat /\ commits \in Nat /\ (rewinds = 0 => Whole(tbl, memo, req, reply))

LEMMA LatestBounds == ForLatest.Week \in Nat \ {0} /\ ForLatest.SparkDays \in Nat \ {0} /\ ForLatest.Readings \subseteq Nat
BY PagesAssumption DEF PagesAssumption, Latest!ReadAssumption

LEMMA LatestInit == Latest!Init => LatestInv
<1> SUFFICES ASSUME Latest!Init PROVE LatestInv OBVIOUS
<1>1. /\ tbl = <<>> /\ rewinds = 0 /\ commits = 0 /\ memo.asOf = 0 /\ memo.rows = {}
      /\ req = [r \in ForLatest.Requests |-> Latest!None] /\ reply.kind = "none"
  BY DEF Latest!Init, Latest!NoMemo, Latest!None
<1>2. tbl \in Seq(Stored) /\ Len(tbl) = 0 /\ DOMAIN tbl = {} BY <1>1
<1>3. HeatOf(tbl, memo.asOf, memo.rows) BY <1>1, <1>2 DEF HeatOf, WantedIn
<1> QED BY <1>1, <1>2, <1>3 DEF LatestInv, Whole, AnswerOf

\* A day more takes nothing from what was read.
LEMMA DayMore ==
  ASSUME NEW s \in Seq(Stored), NEW e \in Stored, NEW t, t = Append(s, e)
  PROVE  /\ t \in Seq(Stored) /\ Len(t) = Len(s) + 1
         /\ \A d \in 1..Len(s) : RowIn(t, d) = RowIn(s, d)
         /\ \A a, rows : HeatOf(s, a, rows) => HeatOf(t, a, rows)
         /\ \A top : RowOf(s, top) => RowOf(t, top)
         /\ \A q : LatestRequest(q, s) => LatestRequest(q, t)
         /\ \A a : AnswerOf(a, s) => AnswerOf(a, t)
<1>1. t \in Seq(Stored) /\ Len(t) = Len(s) + 1 /\ Len(s) \in Nat /\ DOMAIN t = 1..Len(t) /\ DOMAIN s = 1..Len(s)
  OBVIOUS
<1>2. ASSUME NEW d \in 1..Len(s) PROVE t[d] = s[d] /\ RowIn(t, d) = RowIn(s, d)
  <2>1. t[d] = s[d] OBVIOUS
  <2> QED BY <2>1 DEF RowIn
<1>3. ASSUME NEW a \in 0..Len(s) PROVE WantedIn(t, a) = WantedIn(s, a)
  <2>1. \A x \in DOMAIN t : x <= a => x \in 1..Len(s) BY <1>1
  <2>2. {x \in DOMAIN t : t[x].v # Latest!Null /\ x <= a /\ (x % ForLatest.Week = 0 \/ x = a)}
        = {x \in DOMAIN s : s[x].v # Latest!Null /\ x <= a /\ (x % ForLatest.Week = 0 \/ x = a)}
    BY <1>1, <1>2, <2>1
  <2> QED BY <1>1, <1>2, <2>2 DEF WantedIn
<1>4. \A a, rows : HeatOf(s, a, rows) => HeatOf(t, a, rows) BY <1>1, <1>3 DEF HeatOf
<1>5. ASSUME NEW top, RowOf(s, top) PROVE RowOf(t, top) BY <1>1, <1>2, <1>5 DEF RowOf
<1>6. ASSUME NEW q, LatestRequest(q, s) PROVE LatestRequest(q, t)
  <2>1. LatestTodo(q, s) => LatestTodo(q, t) BY <1>5 DEF LatestTodo
  <2>2. HeatmapTodo(q, s) => HeatmapTodo(q, t) BY <1>1 DEF HeatmapTodo
  <2> QED BY <1>6, <2>1, <2>2 DEF LatestRequest
<1>7. \A a : AnswerOf(a, s) => AnswerOf(a, t) BY <1>4, <1>5 DEF AnswerOf
<1> QED BY <1>1, <1>2, <1>4, <1>5, <1>6, <1>7

LEMMA GreatestStored ==
  ASSUME NEW S, NEW n \in Nat, S \subseteq 1..n, S # {}
  PROVE  Latest!Max(S) \in S
<1> DEFINE gaps == {n - x : x \in S}
<1>1. \A x \in S : x \in 1..n /\ n - x \in Nat OBVIOUS
<1>2. gaps \subseteq Nat /\ gaps # {} BY <1>1
<1>3. PICK g \in gaps : \A h \in gaps : <<h, g>> \notin OpToRel(<, Nat)
  BY <1>2, NatLessThanWellFounded, WFMin
<1>4. PICK x \in S : g = n - x OBVIOUS
<1>5. ASSUME NEW y \in S PROVE x >= y
  <2>1. n - y \in gaps /\ n - y \in Nat /\ g \in Nat BY <1>1, <1>2
  <2>2. ~(n - y < g) BY <1>3, <2>1 DEF OpToRel
  <2> QED BY <1>1, <1>4, <2>1, <2>2
<1>6. \E z \in S : \A y \in S : z >= y BY <1>5
<1> QED BY <1>6 DEF Latest!Max

LEMMA NewestIsStored == ASSUME tbl \in Seq(Stored) PROVE Latest!Newest \in 0..Len(tbl)
<1>1. Latest!Valued \subseteq 1..Len(tbl) /\ Len(tbl) \in Nat BY DEF Latest!Valued
<1>2. Latest!Valued # {} => Latest!Max(Latest!Valued) \in Latest!Valued BY <1>1, GreatestStored
<1>3. CASE Latest!Valued = {} BY <1>1, <1>3 DEF Latest!Newest
<1>4. CASE Latest!Valued # {}
  <2>1. PICK m : m = Latest!Max(Latest!Valued) OBVIOUS
  <2>2. Latest!Newest = m BY <1>4, <2>1 DEF Latest!Newest
  <2>3. m \in 1..Len(tbl)
    <3>1. PICK V : V = Latest!Valued OBVIOUS
    <3>2. m \in V /\ V \subseteq 1..Len(tbl) BY <1>1, <1>2, <1>4, <2>1, <3>1
    <3> QED BY <3>2
  <2> QED BY <1>1, <2>2, <2>3
<1> QED BY <1>3, <1>4

LEMMA OfThree ==
  ASSUME NEW a, NEW b, NEW c
  PROVE  /\ Tail(<<a, b, c>>) = <<b, c>> /\ <<a, b, c>>[1] = a /\ Tail(<<a>>) = <<>> /\ <<a>>[1] = a
         /\ <<b, c>> # <<>> /\ <<b>> # <<>>
<1>1. PICK S : S = {a, b, c} OBVIOUS
<1>2. <<a, b, c>> \in Seq(S) /\ <<b, c>> \in Seq(S) /\ <<a>> \in Seq(S) BY <1>1
<1>3. /\ Len(<<a, b, c>>) = 3 /\ Len(<<b, c>>) = 2 /\ Len(<<a>>) = 1 /\ <<a, b, c>>[1] = a
      /\ <<a, b, c>>[2] = b /\ <<a, b, c>>[3] = c /\ <<b, c>>[1] = b /\ <<b, c>>[2] = c
  OBVIOUS
<1>4. PICK u : u = Tail(<<a, b, c>>) OBVIOUS
<1>5. u \in Seq(S) /\ Len(u) = 2 /\ u[1] = b /\ u[2] = c BY <1>2, <1>3, <1>4
<1>6. \A i \in 1..2 : u[i] = <<b, c>>[i] BY <1>3, <1>5
<1>7. u = <<b, c>> BY <1>2, <1>3, <1>5, <1>6, SeqEqual
<1> QED BY <1>3, <1>4, <1>7

\* A request goes on, or ends.
LEMMA LatestMoves ==
  ASSUME NEW s, NEW m, NEW f, NEW a, Whole(s, m, f, a), NEW r \in ForLatest.Requests,
         NEW q, q = Latest!None \/ LatestRequest(q, s),
         NEW n, HeatOf(s, n.asOf, n.rows), NEW b, AnswerOf(b, s),
         NEW g, g = [f EXCEPT ![r] = q]
  PROVE  Whole(s, n, g, b)
<1>1. f = [x \in ForLatest.Requests |-> f[x]] BY DEF Whole
<1>2. g = [x \in ForLatest.Requests |-> g[x]] BY <1>1
<1>3. ASSUME NEW x \in ForLatest.Requests PROVE g[x] = Latest!None \/ LatestRequest(g[x], s)
  <2>1. g[x] = q \/ g[x] = f[x] BY <1>1
  <2>2. CASE g[x] = q BY <2>2
  <2>3. CASE g[x] = f[x] BY <2>3 DEF Whole
  <2> QED BY <2>1, <2>2, <2>3
<1> QED BY <1>2, <1>3 DEF Whole

\* A request has one statement left fewer, and its answer.
LEMMA LatestReads ==
  ASSUME NEW q, q = [kind |-> q.kind, left |-> q.left, since |-> q.since, oldest |-> q.oldest, got |-> q.got],
         NEW s, NEW a, NEW z, z = Latest!Reads(q, s, a)
  PROVE  /\ z = [kind |-> z.kind, left |-> z.left, since |-> z.since, oldest |-> z.oldest, got |-> z.got]
         /\ z.kind = q.kind /\ z.left = Latest!Left(q, s)
         /\ s \in DOMAIN z.got /\ z.got[s] = a /\ DOMAIN q.got \subseteq DOMAIN z.got
         /\ \A x \in DOMAIN q.got : x # s => z.got[x] = q.got[x]
<1>1. PICK l : l = Latest!Left(q, s) OBVIOUS
<1>2. PICK g : g = Latest!Got(q, s, a) OBVIOUS
<1>3. PICK o : o = IF q.oldest = Latest!Null THEN now ELSE q.oldest OBVIOUS
<1>4. z = [q EXCEPT !.left = l, !.got = g, !.oldest = o] BY <1>1, <1>2, <1>3 DEF Latest!Reads
<1>5. z = [kind |-> q.kind, left |-> l, since |-> q.since, oldest |-> o, got |-> g] BY <1>4
<1>6. z.kind = q.kind /\ z.left = l /\ z.since = q.since /\ z.oldest = o /\ z.got = g BY <1>5
<1>7. z = [kind |-> z.kind, left |-> z.left, since |-> z.since, oldest |-> z.oldest, got |-> z.got]
  BY <1>5, <1>6
<1>8. g = [x \in DOMAIN q.got \cup {s} |-> IF x = s THEN a ELSE q.got[x]] BY <1>2 DEF Latest!Got
<1>9. /\ s \in DOMAIN g /\ g[s] = a /\ DOMAIN q.got \subseteq DOMAIN g
      /\ \A x \in DOMAIN q.got : x # s => g[x] = q.got[x]
  BY <1>8
<1> QED BY <1>1, <1>6, <1>7, <1>9

\* The newest day is a row, and the sparkline reaches every row there is.
LEMMA RowAndSpark ==
  ASSUME tbl \in Seq(Stored)
  PROVE  /\ tbl # <<>> => RowOf(tbl, Latest!Row(Len(tbl)))
         /\ \A top : RowOf(tbl, top) => SparkOf(top, Latest!Spark)
<1>1. Len(tbl) \in Nat /\ DOMAIN tbl = 1..Len(tbl) OBVIOUS
<1>2. \A d : Latest!Row(d) = RowIn(tbl, d) BY DEF Latest!Row, RowIn
<1>3. tbl # <<>> => Len(tbl) \in 1..Len(tbl) BY <1>1
<1>4. ASSUME NEW top, RowOf(tbl, top) PROVE SparkOf(top, Latest!Spark)
  <2>1. PICK d \in 1..Len(tbl) : top = RowIn(tbl, d) BY <1>4 DEF RowOf
  <2>2. top.day = d BY <2>1 DEF RowIn
  <2>3. Len(tbl) \in {x \in DOMAIN tbl : x > Len(tbl) - ForLatest.SparkDays} BY <1>1, <2>1, LatestBounds
  <2>4. Latest!Row(Len(tbl)) \in Latest!Spark BY <2>3 DEF Latest!Spark
  <2>5. Latest!Row(Len(tbl)).day = Len(tbl) BY DEF Latest!Row
  <2>6. \E x \in Latest!Spark : x.day >= top.day BY <1>1, <2>2, <2>4, <2>5
  <2>7. ASSUME NEW x \in Latest!Spark, x.day = top.day PROVE x = top
    <3>1. PICK e \in DOMAIN tbl : x = Latest!Row(e) BY <2>7 DEF Latest!Spark
    <3>2. x.day = e BY <3>1 DEF Latest!Row
    <3> QED BY <1>2, <2>1, <2>2, <2>7, <3>1, <3>2
  <2> QED BY <2>6, <2>7 DEF SparkOf
<1> QED BY <1>2, <1>3, <1>4 DEF RowOf

\* A statement of /api/latest.
LEMMA LatestStatement ==
  ASSUME Whole(tbl, memo, req, reply), NEW r \in ForLatest.Requests, NEW s, Latest!ReadLatest(r, s)
  PROVE  Whole(tbl, memo', req', reply')
<1>1. PICK q : q = req[r] OBVIOUS
<1>2. PICK z : z = Latest!Reads(q, s, Latest!Answer(s)) OBVIOUS
<1>3. /\ q.kind = "latest" /\ s \in q.left[1] /\ memo' = memo
      /\ IF s = "row" /\ tbl = <<>>
         THEN req' = [req EXCEPT ![r] = Latest!None] /\ reply' = [kind |-> "empty"]
         ELSE IF z.left = <<>>
              THEN req' = [req EXCEPT ![r] = Latest!None] /\ reply' = [kind |-> "latest", got |-> z.got]
              ELSE req' = [req EXCEPT ![r] = z] /\ reply' = reply
  BY <1>1, <1>2 DEF Latest!ReadLatest
<1>4. /\ tbl \in Seq(Stored) /\ HeatOf(tbl, memo.asOf, memo.rows) /\ AnswerOf(reply, tbl)
      /\ q = Latest!None \/ LatestRequest(q, tbl)
  BY <1>1 DEF Whole
<1>5. LatestRequest(q, tbl) BY <1>3, <1>4 DEF Latest!None
<1>6. q = [kind |-> q.kind, left |-> q.left, since |-> q.since, oldest |-> q.oldest, got |-> q.got] /\ LatestTodo(q, tbl)
  BY <1>3, <1>5 DEF LatestRequest
<1>7. /\ z = [kind |-> z.kind, left |-> z.left, since |-> z.since, oldest |-> z.oldest, got |-> z.got]
      /\ z.kind = "latest" /\ z.left = Latest!Left(q, s)
      /\ s \in DOMAIN z.got /\ z.got[s] = Latest!Answer(s) /\ DOMAIN q.got \subseteq DOMAIN z.got
      /\ \A x \in DOMAIN q.got : x # s => z.got[x] = q.got[x]
  BY <1>2, <1>3, <1>6, LatestReads
<1>8. CASE s = "row" /\ tbl = <<>>
  <2>1. AnswerOf(reply', tbl) BY <1>3, <1>8 DEF AnswerOf
  <2> QED BY <1>3, <1>4, <1>8, <2>1, LatestMoves
<1>9. ASSUME ~(s = "row" /\ tbl = <<>>), z.left # <<>>, LatestTodo(z, tbl) PROVE Whole(tbl, memo', req', reply')
  <2>1. LatestRequest(z, tbl) BY <1>7, <1>9 DEF LatestRequest
  <2> QED BY <1>3, <1>4, <1>9, <2>1, LatestMoves
<1>10. CASE q.left = <<{"row"}, {"spark"}, {"pct"}>> /\ ~(s = "row" /\ tbl = <<>>)
  <2>1. q.left[1] = {"row"} /\ Tail(q.left) = <<{"spark"}, {"pct"}>> BY <1>10, OfThree
  <2>2. s = "row" /\ tbl # <<>> BY <1>3, <1>10, <2>1
  <2>3. z.left = <<{"spark"}, {"pct"}>> BY <1>7, <2>1, <2>2 DEF Latest!Left
  <2>4. z.got["row"] = Latest!Row(Len(tbl)) BY <1>7, <2>2 DEF Latest!Answer
  <2>5. LatestTodo(z, tbl) BY <1>4, <1>7, <2>2, <2>3, <2>4, RowAndSpark DEF LatestTodo
  <2> QED BY <1>9, <1>10, <2>3, <2>5, OfThree
<1>11. CASE q.left = <<{"spark"}, {"pct"}>> /\ "row" \in DOMAIN q.got /\ RowOf(tbl, q.got["row"])
  <2>1. q.left[1] = {"spark"} /\ Tail(q.left) = <<{"pct"}>> BY <1>11, OfTwo
  <2>2. s = "spark" BY <1>3, <2>1
  <2>3. z.left = <<{"pct"}>> BY <1>7, <2>1, <2>2 DEF Latest!Left
  <2>4. z.got["row"] = q.got["row"] /\ z.got["spark"] = Latest!Spark BY <1>7, <1>11, <2>2 DEF Latest!Answer
  <2>5. LatestTodo(z, tbl) BY <1>4, <1>7, <1>11, <2>2, <2>3, <2>4, RowAndSpark DEF LatestTodo
  <2> QED BY <1>9, <2>2, <2>3, <2>5, OfThree
<1>12. CASE /\ q.left = <<{"pct"}>> /\ "row" \in DOMAIN q.got /\ "spark" \in DOMAIN q.got
            /\ RowOf(tbl, q.got["row"]) /\ SparkOf(q.got["row"], q.got["spark"])
  <2>1. q.left[1] = {"pct"} /\ Tail(q.left) = <<>> BY <1>12, OfThree
  <2>2. s = "pct" BY <1>3, <2>1
  <2>3. z.left = <<>> BY <1>7, <2>1, <2>2 DEF Latest!Left
  <2>4. z.got["row"] = q.got["row"] /\ z.got["spark"] = q.got["spark"] BY <1>7, <1>12, <2>2
  <2>5. req' = [req EXCEPT ![r] = Latest!None] /\ reply' = [kind |-> "latest", got |-> z.got] BY <1>3, <2>2, <2>3
  <2>6. reply'.kind = "latest" /\ reply'.got = z.got BY <2>5
  <2>7. AnswerOf(reply', tbl) BY <1>12, <2>4, <2>6 DEF AnswerOf
  <2>8. req' = [req EXCEPT ![r] = Latest!None] /\ memo' = memo BY <1>3, <2>5
  <2> QED BY <1>4, <2>7, <2>8, LatestMoves
<1> QED BY <1>6, <1>8, <1>10, <1>11, <1>12 DEF LatestTodo

\* A statement of /api/heatmap.
LEMMA HeatmapStatement ==
  ASSUME Whole(tbl, memo, req, reply), NEW r \in ForLatest.Requests, Latest!ReadAsOf(r) \/ Latest!ReadRows(r)
  PROVE  Whole(tbl, memo', req', reply')
<1>1. PICK q : q = req[r] OBVIOUS
<1>2. /\ tbl \in Seq(Stored) /\ HeatOf(tbl, memo.asOf, memo.rows) /\ AnswerOf(reply, tbl)
      /\ q = Latest!None \/ LatestRequest(q, tbl)
  BY <1>1 DEF Whole
<1>3. q.kind = "heatmap" BY <1>1 DEF Latest!ReadAsOf, Latest!ReadRows
<1>4. LatestRequest(q, tbl) BY <1>2, <1>3 DEF Latest!None
<1>5. q = [kind |-> q.kind, left |-> q.left, since |-> q.since, oldest |-> q.oldest, got |-> q.got] /\ HeatmapTodo(q, tbl)
  BY <1>3, <1>4 DEF LatestRequest
<1>6. CASE Latest!ReadAsOf(r)
  <2>1. PICK z : z = Latest!Reads(q, "asOf", Latest!Newest) OBVIOUS
  <2>2. /\ "asOf" \in q.left[1] /\ memo' = memo
        /\ \/ req' = [req EXCEPT ![r] = Latest!None] /\ reply' = [kind |-> "empty"]
           \/ /\ memo.asOf = Latest!Newest /\ req' = [req EXCEPT ![r] = Latest!None]
              /\ reply' = Latest!Heat(Latest!Newest, memo.rows)
           \/ req' = [req EXCEPT ![r] = z] /\ reply' = reply
    BY <1>1, <1>6, <2>1 DEF Latest!ReadAsOf, Latest!Memoized
  <2>3. CASE req' = [req EXCEPT ![r] = Latest!None] /\ reply' = [kind |-> "empty"]
    <3>1. AnswerOf(reply', tbl) BY <2>3 DEF AnswerOf
    <3> QED BY <1>2, <2>2, <2>3, <3>1, LatestMoves
  <2>4. CASE /\ memo.asOf = Latest!Newest /\ req' = [req EXCEPT ![r] = Latest!None]
             /\ reply' = Latest!Heat(Latest!Newest, memo.rows)
    <3>1. reply'.kind = "heatmap" /\ reply'.asOf = memo.asOf /\ reply'.rows = memo.rows BY <2>4 DEF Latest!Heat
    <3>2. AnswerOf(reply', tbl) BY <1>2, <3>1 DEF AnswerOf
    <3> QED BY <1>2, <2>2, <2>4, <3>2, LatestMoves
  <2>5. CASE req' = [req EXCEPT ![r] = z] /\ reply' = reply
    <3>1. q.left = <<{"asOf"}, {"rows"}>>
      <4>1. q.left # <<{"rows"}>> BY <2>2, OfThree
      <4> QED BY <1>5, <4>1 DEF HeatmapTodo
    <3>2. q.left[1] = {"asOf"} /\ Tail(q.left) = <<{"rows"}>> BY <3>1, OfTwo
    <3>3. /\ z = [kind |-> z.kind, left |-> z.left, since |-> z.since, oldest |-> z.oldest, got |-> z.got]
          /\ z.kind = "heatmap" /\ z.left = Latest!Left(q, "asOf") /\ z.got["asOf"] = Latest!Newest
      BY <1>3, <1>5, <2>1, LatestReads
    <3>4. z.left = <<{"rows"}>> BY <3>2, <3>3 DEF Latest!Left
    <3>5. LatestRequest(z, tbl) BY <1>2, <3>3, <3>4, NewestIsStored DEF LatestRequest, HeatmapTodo
    <3> QED BY <1>2, <2>2, <2>5, <3>5, LatestMoves
  <2> QED BY <2>2, <2>3, <2>4, <2>5
<1>7. CASE Latest!ReadRows(r)
  <2>1. PICK a : a = q.got["asOf"] OBVIOUS
  <2>2. PICK rows : rows = Latest!Sampled(a) OBVIOUS
  <2>3. /\ "rows" \in q.left[1] /\ memo' = [asOf |-> a, rows |-> rows]
        /\ req' = [req EXCEPT ![r] = Latest!None] /\ reply' = Latest!Heat(memo'.asOf, memo'.rows)
    BY <1>1, <1>7, <2>1, <2>2 DEF Latest!ReadRows
  <2>4. q.left # <<{"asOf"}, {"rows"}>> BY <2>3, OfTwo
  <2>5. a \in 0..Len(tbl) BY <1>5, <2>1, <2>4 DEF HeatmapTodo
  <2>6. WantedIn(tbl, a) \subseteq rows BY <2>2 DEF WantedIn, Latest!Sampled, Latest!Valued, RowIn, Latest!Row
  <2>7. memo'.asOf = a /\ memo'.rows = rows BY <2>3
  <2>8. reply'.kind = "heatmap" /\ reply'.asOf = a /\ reply'.rows = rows BY <2>3, <2>7 DEF Latest!Heat
  <2>9. HeatOf(tbl, memo'.asOf, memo'.rows) /\ AnswerOf(reply', tbl) BY <2>5, <2>6, <2>7, <2>8 DEF HeatOf, AnswerOf
  <2>10. req' = [req EXCEPT ![r] = Latest!None] BY <2>3
  <2> QED BY <2>9, <2>10, LatestMoves
<1> QED BY <1>6, <1>7

\* A request comes, and another answer is sent.
LEMMA OthersAnswer ==
  ASSUME Whole(tbl, memo, req, reply), NEW r \in ForLatest.Requests,
         \/ \E k \in ForLatest.Kinds : Latest!Ask(r, k)
         \/ \E s \in {"row", "spark", "pct"} : Latest!ReadCard(r, s)
         \/ Latest!DrawCard(r) \/ Latest!Fail(r)
  PROVE  Whole(tbl, memo', req', reply')
<1>1. HeatOf(tbl, memo.asOf, memo.rows) /\ AnswerOf(reply, tbl) /\ (req[r] = Latest!None \/ LatestRequest(req[r], tbl))
  BY DEF Whole
<1>2. ASSUME NEW k \in ForLatest.Kinds, Latest!Ask(r, k) PROVE Whole(tbl, memo', req', reply')
  <2>1. PICK q : q = [kind |-> k, left |-> Latest!Statements(k), since |-> now, oldest |-> Latest!Null,
                      got |-> [s \in {} |-> {}]]
    OBVIOUS
  <2>2. /\ memo' = memo
        /\ \/ reply' = [kind |-> "card", oldest |-> card.oldest] /\ req' = req
           \/ reply' = reply /\ req' = [req EXCEPT ![r] = q]
    BY <1>2, <2>1 DEF Latest!Ask
  <2>3. CASE reply' = [kind |-> "card", oldest |-> card.oldest] /\ req' = req
    <3>1. AnswerOf(reply', tbl) BY <2>3 DEF AnswerOf
    <3> QED BY <2>2, <2>3, <3>1 DEF Whole
  <2>4. CASE reply' = reply /\ req' = [req EXCEPT ![r] = q]
    <3>1. PICK l : l = Latest!Statements(k) OBVIOUS
    <3>2. PICK g : g = [s \in {} |-> {}] OBVIOUS
    <3>3. q = [kind |-> k, left |-> l, since |-> now, oldest |-> Latest!Null, got |-> g] BY <2>1, <3>1, <3>2
    <3>4. q.kind = k /\ q.left = l /\ q.since = now /\ q.oldest = Latest!Null /\ q.got = g BY <3>3
    <3>5. q = [kind |-> q.kind, left |-> q.left, since |-> q.since, oldest |-> q.oldest, got |-> q.got] BY <3>3, <3>4
    <3>6. /\ k = "latest" => l = <<{"row"}, {"spark"}, {"pct"}>>
          /\ k = "heatmap" => l = <<{"asOf"}, {"rows"}>>
      BY <3>1 DEF Latest!Statements
    <3>7. LatestRequest(q, tbl) BY <3>4, <3>5, <3>6 DEF LatestRequest, LatestTodo, HeatmapTodo
    <3> QED BY <1>1, <2>2, <2>4, <3>7, LatestMoves
  <2> QED BY <2>2, <2>3, <2>4
<1>3. ASSUME NEW s, Latest!ReadCard(r, s) PROVE Whole(tbl, memo', req', reply')
  <2>1. PICK q : q = req[r] OBVIOUS
  <2>2. PICK z : z = Latest!Reads(q, s, {}) OBVIOUS
  <2>3. q.kind = "card" /\ req' = [req EXCEPT ![r] = z] /\ memo' = memo /\ reply' = reply
    BY <1>3, <2>1, <2>2 DEF Latest!ReadCard
  <2>4. LatestRequest(q, tbl) BY <1>1, <2>1, <2>3 DEF Latest!None
  <2>5. q = [kind |-> q.kind, left |-> q.left, since |-> q.since, oldest |-> q.oldest, got |-> q.got]
    BY <2>4 DEF LatestRequest
  <2>6. /\ z = [kind |-> z.kind, left |-> z.left, since |-> z.since, oldest |-> z.oldest, got |-> z.got]
        /\ z.kind = "card"
    BY <2>2, <2>3, <2>5, LatestReads
  <2>7. LatestRequest(z, tbl) BY <2>6 DEF LatestRequest
  <2> QED BY <1>1, <2>3, <2>7, LatestMoves
<1>4. CASE Latest!DrawCard(r) \/ Latest!Fail(r)
  <2>1. req' = [req EXCEPT ![r] = Latest!None] /\ reply'.kind \in {"card", "error"} /\ memo' = memo
    BY <1>4 DEF Latest!DrawCard, Latest!Fail
  <2>2. AnswerOf(reply', tbl) BY <2>1 DEF AnswerOf
  <2> QED BY <1>1, <2>1, <2>2, LatestMoves
<1> QED BY <1>2, <1>3, <1>4

LEMMA LatestStep == LatestInv /\ Latest!Next => LatestInv'
<1> SUFFICES ASSUME LatestInv, Latest!Next PROVE LatestInv' OBVIOUS
<1>1. rewinds \in Nat /\ commits \in Nat BY DEF LatestInv
<1>2. CASE \E d \in 0..(Len(tbl) - 1) : Latest!Rewind(d)
  <2>1. rewinds' = rewinds + 1 /\ commits' = commits BY <1>2 DEF Latest!Rewind
  <2> QED BY <1>1, <2>1 DEF LatestInv
<1>3. ASSUME NEW v \in ForLatest.Readings \cup {Latest!Null}, Latest!Finalize(v) PROVE LatestInv'
  <2>1. rewinds' = rewinds /\ commits' = commits + 1 /\ UNCHANGED <<req, memo, reply>> BY <1>3 DEF Latest!Finalize
  <2>2. tbl' = Append(tbl, [v |-> v, by |-> commits']) BY <1>3 DEF Latest!Finalize
  <2>3. [v |-> v, by |-> commits'] \in Stored BY <1>1, <2>1 DEF Stored
  <2>4. PICK e \in Stored : tbl' = Append(tbl, e) BY <2>2, <2>3
  <2>5. ASSUME Whole(tbl, memo, req, reply) PROVE Whole(tbl', memo, req, reply)
    <3>1. tbl \in Seq(Stored) BY <2>5 DEF Whole
    <3>2. tbl' \in Seq(Stored) /\ HeatOf(tbl', memo.asOf, memo.rows) /\ AnswerOf(reply, tbl')
      BY <2>4, <2>5, <3>1, DayMore DEF Whole
    <3>3. \A q : LatestRequest(q, tbl) => LatestRequest(q, tbl') BY <2>4, <3>1, DayMore
    <3> QED BY <2>5, <3>2, <3>3 DEF Whole
  <2> QED BY <1>1, <2>1, <2>5 DEF LatestInv
<1>4. ASSUME NEW r \in ForLatest.Requests,
             \/ \E k \in ForLatest.Kinds : Latest!Ask(r, k)
             \/ \E s \in {"row", "spark", "pct"} : Latest!ReadLatest(r, s) \/ Latest!ReadCard(r, s)
             \/ Latest!ReadAsOf(r) \/ Latest!ReadRows(r) \/ Latest!DrawCard(r) \/ Latest!Fail(r)
      PROVE  LatestInv'
  <2>1. UNCHANGED <<tbl, commits, rewinds>>
    BY <1>4 DEF Latest!Ask, Latest!ReadLatest, Latest!ReadCard, Latest!ReadAsOf, Latest!ReadRows,
      Latest!DrawCard, Latest!Fail, Latest!table
  <2>2. Whole(tbl, memo, req, reply) => Whole(tbl, memo', req', reply')
    <3> SUFFICES ASSUME Whole(tbl, memo, req, reply) PROVE Whole(tbl, memo', req', reply') OBVIOUS
    <3>1. CASE \E s \in {"row", "spark", "pct"} : Latest!ReadLatest(r, s) BY <3>1, LatestStatement
    <3>2. CASE Latest!ReadAsOf(r) \/ Latest!ReadRows(r) BY <3>2, HeatmapStatement
    <3>3. CASE \/ \E k \in ForLatest.Kinds : Latest!Ask(r, k)
               \/ \E s \in {"row", "spark", "pct"} : Latest!ReadCard(r, s)
               \/ Latest!DrawCard(r) \/ Latest!Fail(r)
      BY <3>3, OthersAnswer
    <3> QED BY <1>4, <3>1, <3>2, <3>3
  <2> QED BY <1>1, <2>1, <2>2 DEF LatestInv
<1>5. CASE Latest!Tick
  <2>1. UNCHANGED <<tbl, commits, rewinds, req, memo, reply>> BY <1>5 DEF Latest!Tick, Latest!table
  <2> QED BY <1>1, <2>1 DEF LatestInv
<1> QED BY <1>2, <1>3, <1>4, <1>5 DEF Latest!Next

LEMMA LatestUnchanged == UNCHANGED api => (LatestInv => LatestInv')
BY DEF api, LatestInv

LEMMA LatestWhole == LatestInv => Latest!HeatmapHasItsDays /\ Latest!SparkReachesTheDay
<1> SUFFICES ASSUME LatestInv PROVE Latest!HeatmapHasItsDays /\ Latest!SparkReachesTheDay OBVIOUS
<1>1. \A d : Latest!Row(d) = RowIn(tbl, d) BY DEF Latest!Row, RowIn
<1>2. ASSUME rewinds = 0, reply.kind = "heatmap"
      PROVE  {Latest!Row(d) : d \in {x \in Latest!Valued : x <= reply.asOf /\ (x % ForLatest.Week = 0 \/ x = reply.asOf)}} \subseteq reply.rows
  <2>1. WantedIn(tbl, reply.asOf) \subseteq reply.rows BY <1>2 DEF LatestInv, Whole, AnswerOf, HeatOf
  <2> QED BY <1>1, <2>1 DEF WantedIn, Latest!Valued
<1>3. ASSUME rewinds = 0, reply.kind = "latest" PROVE SparkOf(reply.got["row"], reply.got["spark"])
  BY <1>3 DEF LatestInv, Whole, AnswerOf
<1> QED BY <1>2, <1>3 DEF Latest!HeatmapHasItsDays, Latest!SparkReachesTheDay, SparkOf

---------------------------------------------------------------------------
(* What the editors promise. *)

LEMMA CopyStart ==
  ASSUME NEW A, builtin = [p \in Editors!Pane |-> 1], row = Editors!NoRow,
         listed = [a \in A |-> Editors!Null], open = [a \in A |-> Editors!Null],
         saving = [a \in A |-> Editors!Null], reading = [a \in A |-> [at |-> "sent"]],
         failed = [a \in A |-> FALSE], typed = {}
  PROVE  CopyInv(A) /\ Unreleased
<1>1. row \in CopyRow /\ ~row.there /\ \A p \in Editors!Pane : row.text[p] = Editors!Unset
  BY DEF Editors!NoRow, Editors!Unset, CopyRow
<1>2. [at |-> "sent"] \in CopyReading BY DEF CopyReading
<1>3. reading \in [A -> CopyReading] /\ \A a \in A : reading[a].at = "sent" BY <1>2
<1>4. CopyTyped(A) BY <1>1, <1>3 DEF CopyTyped
<1>5. Unreleased BY DEF Unreleased
<1>6. RowsDiffer BY <1>1 DEF RowsDiffer, Editors!Unset
<1>7. PanesUntouched(A) BY <1>1, <1>3 DEF PanesUntouched
<1>8. ReadsAreCurrent(A) BY <1>3 DEF ReadsAreCurrent
<1> QED BY <1>4, <1>5, <1>6, <1>7, <1>8 DEF CopyInv

\* What is shown is the built-in text where no row is, and elsewhere only a
\* release has made it so.
LEMMA CopyMarks ==
  ASSUME NEW A, CopyInv(A)
  PROVE  /\ Editors!Effective # builtin => row.there
         /\ row.there /\ Editors!Effective = builtin =>
              \E p \in typed : builtin[p] > 1 /\ row.text[p] = builtin[p]
<1>1. builtin \in [Editors!Pane -> Nat \ {0}] /\ row \in CopyRow /\ typed \subseteq Editors!Pane
  BY DEF CopyInv, CopyTyped
<1>2. /\ Editors!Effective \in CopyText
      /\ \A p \in Editors!Pane :
           Editors!Effective[p] = IF row.text[p] # Editors!Unset THEN row.text[p] ELSE builtin[p]
  BY <1>1, CopyPayload
<1>3. Editors!Effective = builtin <=> \A p \in Editors!Pane : Editors!Effective[p] = builtin[p]
  BY <1>1, <1>2 DEF CopyText
<1>4. RowsDiffer /\ PanesUntouched(A) BY DEF CopyInv
<1>5. Editors!Effective # builtin => row.there BY <1>2, <1>3, <1>4 DEF RowsDiffer
<1>6. ASSUME row.there, Editors!Effective = builtin
      PROVE  \E p \in typed : builtin[p] > 1 /\ row.text[p] = builtin[p]
  <2>1. PICK p \in Editors!Pane : row.text[p] # Editors!Unset BY <1>4, <1>6 DEF RowsDiffer
  <2>2. row.text[p] = builtin[p] BY <1>2, <1>6, <2>1
  <2>3. builtin[p] > 1 BY <1>4, <2>2 DEF RowsDiffer
  <2>4. builtin[p] \in Nat BY <1>1
  <2>5. p \in typed BY <1>4, <2>1, <2>2, <2>4 DEF PanesUntouched
  <2> QED BY <2>2, <2>3, <2>5
<1> QED BY <1>5, <1>6

LEMMA EditorsStart == Editors!Init => CopyInv(ForEditors.Admin) /\ Unreleased
BY CopyStart DEF Editors!Init, Editors!Pane, Editors!NoRow, Editors!Unset, Editors!Null

LEMMA ReleasedStart == Released!Init => CopyInv(ForReleased.Admin) /\ Unreleased
BY CopyStart DEF Released!Init, Released!Pane, Editors!Pane, Released!NoRow, Editors!NoRow, Released!Unset,
     Editors!Unset, Released!Null, Editors!Null

LEMMA EditorStart == Editor!Init => CopyInv(ForEditor.Admin) /\ Unreleased
BY CopyStart DEF Editor!Init, Editor!Pane, Editors!Pane, Editor!NoRow, Editors!NoRow, Editor!Unset,
     Editors!Unset, Editor!Null, Editors!Null

LEMMA EditorsTexts == CopyInv(ForEditors.Admin) => Editors!UntouchedNotStored /\ Editors!EditedMeansDifferent
<1> SUFFICES ASSUME CopyInv(ForEditors.Admin) PROVE Editors!UntouchedNotStored /\ Editors!EditedMeansDifferent
  OBVIOUS
<1>1. Editors!UntouchedNotStored BY DEF CopyInv, PanesUntouched, Editors!UntouchedNotStored
<1>2. Editors!EditedMeansDifferent BY CopyMarks DEF Editors!EditedMeansDifferent
<1> QED BY <1>1, <1>2

LEMMA EditorsSaves == SavesSeen(ForEditors.Admin) => Editors!SaveIsSeen
BY DEF SavesSeen, Editors!SaveIsSeen

LEMMA ReleasedTexts == CopyInv(ForReleased.Admin) => Released!UntouchedNotStored /\ Released!EditedMeansDifferent
<1> SUFFICES ASSUME CopyInv(ForReleased.Admin) PROVE Released!UntouchedNotStored /\ Released!EditedMeansDifferent
  OBVIOUS
<1>1. Released!Pane = Editors!Pane /\ Released!Unset = Editors!Unset /\ Released!Effective = Editors!Effective
  BY DEF Released!Pane, Editors!Pane, Released!Unset, Editors!Unset, Released!Effective, Editors!Effective
<1>2. Released!UntouchedNotStored BY <1>1 DEF CopyInv, PanesUntouched, Released!UntouchedNotStored
<1>3. Released!EditedMeansDifferent BY <1>1, CopyMarks DEF Released!EditedMeansDifferent
<1> QED BY <1>2, <1>3

LEMMA ReleasedSaves == SavesSeen(ForReleased.Admin) => Released!SaveIsSeen
<1>1. Released!Null = Editors!Null BY DEF Released!Null, Editors!Null
<1>2. Released!Effective' = Editors!Effective'
  BY DEF Released!Effective, Editors!Effective, Released!Pane, Editors!Pane, Released!Unset, Editors!Unset
<1> QED BY <1>1, <1>2 DEF SavesSeen, Released!SaveIsSeen

\* Where nothing is released, the built-in texts are the first.
EditorInv == CopyInv(ForEditor.Admin) /\ (ForEditor.MaxDeploys = 0 => Unreleased)

LEMMA EditorNext == EditorInv /\ Editor!Next => EditorInv'
<1> SUFFICES ASSUME EditorInv, Editor!Next PROVE EditorInv' OBVIOUS
<1>1. CopyNext(ForEditor.Admin) BY EditorSteps
<1>2. CopyInv(ForEditor.Admin) BY DEF EditorInv
<1>3. CopyInv(ForEditor.Admin)' BY <1>1, <1>2, CopyStep DEF CopyGood
<1>4. ASSUME ForEditor.MaxDeploys = 0 PROVE Unreleased'
  <2>1. Unreleased BY <1>4 DEF EditorInv
  <2>2. \A p \in Editor!Pane : ~Editor!Deploy(p)
    BY <1>4, <2>1 DEF Unreleased, Editor!Deploy, Editor!Pane, Editors!Pane
  <2>3. builtin' = builtin
    BY <2>2 DEF Editor!Next, Editor!ServePut, Editor!ServeDelete, Editor!ServeList, Editor!Fault, Editor!Edit,
                Editor!Back, Editor!Answer, Editor!AnswerFailed, Editor!Refreshed, Editor!RefreshFailed, Editor!Type,
                Editor!Click
  <2> QED BY <2>1, <2>3 DEF Unreleased
<1> QED BY <1>3, <1>4 DEF EditorInv

LEMMA EditorLists == EditorInv => Editor!ListIsCurrent
<1> SUFFICES ASSUME EditorInv, \A a, b \in ForEditor.Admin : a = b, ForEditor.MaxDeploys = 0,
                    NEW a \in ForEditor.Admin, saving[a] = Editor!Null, reading[a].at = "no", ~failed[a]
             PROVE  listed[a] = Editor!Payload
  BY DEF Editor!ListIsCurrent
<1>1. Editor!Payload = Editors!Payload
  BY DEF Editor!Payload, Editors!Payload, Editor!Effective, Editors!Effective, Editor!Pane, Editors!Pane,
         Editor!Unset, Editors!Unset
<1>2. Editor!Null = Editors!Null BY DEF Editor!Null, Editors!Null
<1>3. ReadsAreCurrent(ForEditor.Admin) /\ Unreleased BY DEF EditorInv, CopyInv
<1> QED BY <1>1, <1>2, <1>3 DEF ReadsAreCurrent

---------------------------------------------------------------------------
(* The pages together: a step is of the part that runs, and what is known  *)
(* of the others stays.                                                    *)

PagesInv ==
  /\ SignInv /\ ComposeInv
  /\ part = "card" => CardInv
  /\ part = "latest" => LatestInv
  /\ part = "racing" => RacingInv
  /\ part = "choosing" => ChoosingInv
  /\ part = "editor" => EditorInv
  /\ part = "editors" => CopyInv(ForEditors.Admin)
  /\ part = "released" => CopyInv(ForReleased.Admin)

PagesHold ==
  /\ part = "compose" => Compose!KeepsItsText
  /\ part = "editors" => Editors!SaveIsSeen
  /\ part = "released" => Released!SaveIsSeen
  /\ part = "card" => Card!CardIsOfTheHour

LEMMA PagesStart == PagesInit => PagesInv
<1> SUFFICES ASSUME PagesInit PROVE PagesInv OBVIOUS
<1>1. SignInv /\ ComposeInv BY SignInit, ComposeInit DEF PagesInit
<1>7. part = "card" => CardInv BY CardInit DEF PagesInit
<1>8. part = "latest" => LatestInv BY LatestInit DEF PagesInit
<1>2. part = "racing" => RacingInv BY RacingInit DEF PagesInit, RacingInv
<1>3. part = "choosing" => ChoosingInv BY ChoosingInit DEF PagesInit, ChoosingInv
<1>4. part = "editors" => CopyInv(ForEditors.Admin) BY EditorsStart DEF PagesInit
<1>5. part = "released" => CopyInv(ForReleased.Admin) BY ReleasedStart DEF PagesInit
<1>6. part = "editor" => EditorInv
  <2> SUFFICES ASSUME part = "editor" PROVE EditorInv OBVIOUS
  <2>1. Editor!Init BY DEF PagesInit
  <2> QED BY <2>1, EditorStart DEF EditorInv
<1> QED BY <1>1, <1>2, <1>3, <1>4, <1>5, <1>6, <1>7, <1>8 DEF PagesInv

\* Nothing that a part promises of its steps is broken by one that leaves it alone.
LEMMA TextsUnchanged ==
  ASSUME UNCHANGED texts
  PROVE  /\ EditorInv => EditorInv'
         /\ CopyInv(ForEditors.Admin) => CopyGood(ForEditors.Admin)
         /\ CopyInv(ForReleased.Admin) => CopyGood(ForReleased.Admin)
<1>1. \A A : CopyInv(A) => CopyGood(A) BY CopyUnchanged
<1>2. Unreleased => Unreleased' BY DEF texts, Unreleased
<1> QED BY <1>1, <1>2 DEF EditorInv, CopyGood

LEMMA CardRests == CardInv /\ UNCHANGED api => CardGood
BY CardUnchanged DEF CardGood, Card!CardIsOfTheHour, api

LEMMA PagesStep == PagesInv /\ [PagesNext]_pageVars => PagesInv' /\ PagesHold
<1> SUFFICES ASSUME PagesInv, [PagesNext]_pageVars PROVE PagesInv' /\ PagesHold OBVIOUS
<1>1. part' = part
  BY DEF PagesNext, InReadApi, InMetricPage, InMetricCopy, InComposer, InSignupForms, pageVars
<1>2. SignInv'
  <2>1. CASE Sign!Next BY <2>1, SignStep DEF PagesInv
  <2>2. CASE UNCHANGED forms BY <2>2, SignUnchanged DEF PagesInv
  <2> QED BY <2>1, <2>2
    DEF PagesNext, InReadApi, InMetricPage, InMetricCopy, InComposer, InSignupForms, pageVars
<1>3. ComposeInv' /\ Compose!KeepsItsText
  <2>1. CASE Compose!Next BY <2>1, ComposeStep DEF PagesInv
  <2>2. CASE UNCHANGED composer BY <2>2, ComposeUnchanged DEF PagesInv
  <2> QED BY <2>1, <2>2
    DEF PagesNext, InReadApi, InMetricPage, InMetricCopy, InComposer, InSignupForms, pageVars
<1>4. (part = "card" => CardGood) /\ (part = "latest" => LatestInv')
  <2>1. CASE part = "card" /\ Card!Next BY <2>1, CardStep DEF PagesInv
  <2>2. CASE part = "latest" /\ Latest!Next BY <2>2, LatestStep DEF PagesInv
  <2>3. CASE UNCHANGED api BY <2>3, CardRests, LatestUnchanged DEF PagesInv
  <2> QED BY <2>1, <2>2, <2>3
    DEF PagesNext, InReadApi, InMetricPage, InMetricCopy, InComposer, InSignupForms, pageVars
<1>5. (part = "racing" => RacingInv') /\ (part = "choosing" => ChoosingInv')
  <2>1. CASE part = "racing" /\ Racing!Next BY <2>1, RacingNext DEF PagesInv
  <2>2. CASE part = "choosing" /\ Choosing!Next BY <2>2, ChoosingNext DEF PagesInv
  <2>3. CASE UNCHANGED metricPage BY <2>3, PageUnchanged DEF PagesInv
  <2> QED BY <2>1, <2>2, <2>3
    DEF PagesNext, InReadApi, InMetricPage, InMetricCopy, InComposer, InSignupForms, pageVars
<1>6. /\ part = "editor" => EditorInv'
      /\ part = "editors" => CopyGood(ForEditors.Admin)
      /\ part = "released" => CopyGood(ForReleased.Admin)
  <2>1. CASE part = "editor" /\ Editor!Next BY <2>1, EditorNext DEF PagesInv
  <2>2. CASE part = "editors" /\ Editors!Next BY <2>2, EditorsSteps, CopyStep DEF PagesInv
  <2>3. CASE part = "released" /\ Released!Next BY <2>3, ReleasedSteps, CopyStep DEF PagesInv
  <2>4. CASE UNCHANGED texts BY <2>4, TextsUnchanged DEF PagesInv
  <2> QED BY <2>1, <2>2, <2>3, <2>4
    DEF PagesNext, InReadApi, InMetricPage, InMetricCopy, InComposer, InSignupForms, pageVars
<1>7. PagesInv' BY <1>1, <1>2, <1>3, <1>4, <1>5, <1>6 DEF PagesInv, CardGood, CopyGood
<1>8. PagesHold BY <1>3, <1>4, <1>6, EditorsSaves, ReleasedSaves DEF PagesHold, CardGood, CopyGood
<1> QED BY <1>7, <1>8

LEMMA PagesInvariant == PagesSpec => []PagesInv
BY PagesStart, PagesStep, PTL DEF PagesSpec

\* A request of a form is under way once and what it reports was accepted; as long
\* as the composer's answers find the editors they are for, two newsletters are
\* of one text only if the create of one was never answered, and an editor
\* without changes shows what is stored.
THEOREM FormsAlwaysSendOnce == PagesSpec => []FormsSendOnce
<1>1. PagesInv => FormsSendOnce BY SignCounts, ComposeSaves DEF PagesInv, FormsSendOnce
<1> QED BY <1>1, PagesInvariant, PTL

\* Through any number of releases, a pane nobody typed in is stored only as the text
\* of an earlier one, a row means another text unless a release has brought
\* what was typed; and without releases a lone admin's list shows what is stored.
THEOREM CopyAlwaysTellsTheTruth == PagesSpec => []CopyTellsTheTruth
<1>1. PagesInv => CopyTellsTheTruth BY EditorLists, EditorsTexts, ReleasedTexts DEF PagesInv, CopyTellsTheTruth
<1> QED BY <1>1, PagesInvariant, PTL

\* What an answer puts together was stored together, until a day is taken back.
THEOREM AnswersAlwaysWhole == PagesSpec => []AnswersAreWhole
<1>1. PagesInv => AnswersAreWhole BY LatestWhole DEF PagesInv, AnswersAreWhole
<1> QED BY <1>1, PagesInvariant, PTL

\* In whatever order its answers come, a metric's page shows that metric.
THEOREM ScreenIsAlwaysTheMetric == PagesSpec => []ScreenIsTheMetric
<1>1. PagesInv => ScreenIsTheMetric BY RacingShows, ChoosingShows DEF PagesInv, ScreenIsTheMetric
<1> QED BY <1>1, PagesInvariant, PTL

\* No step mixes two newsletters up while the composer's answers find their
\* editors, loses what a save stored, or sends a card that is too old.
THEOREM StepsAlwaysHold == PagesSpec => StepsHold
<1>1. PagesInv /\ [PagesNext]_pageVars =>
        [/\ part = "compose" => Compose!KeepsItsText
         /\ part = "editors" => Editors!SaveIsSeen
         /\ part = "released" => Released!SaveIsSeen
         /\ part = "card" => Card!CardIsOfTheHour]_pageVars
  BY PagesStep DEF PagesHold
<1> QED BY <1>1, PagesInvariant, PTL DEF PagesSpec, StepsHold

=============================================================================
