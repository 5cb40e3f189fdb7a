------------------------- MODULE NewslettersProofs --------------------------
(***************************************************************************)
(* What the newsletters promise, for any number of readers, campaigns and  *)
(* overlapping runs, whatever requests, edits and unsubscriptions fall     *)
(* between two statements, and wherever runs are cut short: a campaign is  *)
(* owned by the one run whose UPDATE claimed it, and the list it reads has *)
(* one row per address.                                                    *)
(***************************************************************************)
EXTENDS Newsletters, SumTheorems

---------------------------------------------------------------------------
(* The invariant. *)

Row0 == [email : Address, token : 0..MaxAsks, state : {"asked", "confirmed", "gone"}, reached : BOOLEAN]
Text == 0..MaxEdits
Places == Campaign \cup {"idle", "next"}

ListType ==
  /\ rows \in Seq(Row0)
  /\ IsFiniteSet(asks)
  /\ \A q \in asks : /\ q.email \in Address /\ q.row \in 0..Len(rows)
                     /\ q.row # 0 => rows[q.row].email = q.email
  /\ tokens \in Nat /\ tokens + Cardinality(asks) <= MaxAsks
  /\ links \subseteq Address \X (1..tokens)
  /\ wants \subseteq Address

NewsType ==
  /\ news \in [Campaign -> [status : {"absent", "draft", "scheduled", "sending", "sent"},
                            text : Text, due : BOOLEAN, sent : Nat, failed : Nat]]
  /\ \A n \in Campaign : /\ news[n].text <= edits
                         /\ news[n].due => news[n].status \notin {"absent", "draft"}
  /\ edits \in 0..MaxEdits

TickType ==
  /\ tick \in [Tick -> [at : Places, queue : SUBSET (Campaign \X Text), text : Text,
                        todo : SUBSET Nat, sent : Nat, failed : Nat]]
  /\ \A t \in Tick : tick[t].todo \subseteq DOMAIN rows
  /\ faults \in 0..MaxFaults /\ stops \in 0..MaxStops

MailType ==
  /\ inbox \in [Campaign -> [Address -> Seq(Text)]]
  /\ listed \subseteq Campaign \X Address \X BOOLEAN

Types == ListType /\ NewsType /\ TickType /\ MailType

\* subscribers_active_email: two open rows of an address are one.
OneOpen ==
  \A j, k \in DOMAIN rows :
    rows[j].state # "gone" /\ rows[k].state # "gone" /\ rows[j].email = rows[k].email => j = k

\* A token names the address it was mailed to, and only handed out tokens are
\* in the rows.
TokensName ==
  \A k \in DOMAIN rows :
    /\ rows[k].token <= tokens
    /\ \A link \in links : link[2] = rows[k].token => link[1] = rows[k].email

Wanted == \A k \in DOMAIN rows : rows[k].state = "confirmed" => rows[k].email \in wants

Subscribers == OneOpen /\ TokensName /\ Wanted /\ ConsentFirst

\* Run t has claimed n, and not gone through it yet.
Owns(t, n) == tick[t].at = n \/ \E c \in tick[t].queue : c[1] = n

Untouched(n) == (\A a \in Address : inbox[n][a] = <<>>) /\ (\A l \in listed : l[1] # n)

\* A claim is of one run.
Owners ==
  /\ \A t \in Tick, n \in Campaign : Owns(t, n) => news[n].status = "sending"
  /\ \A t, u \in Tick, n \in Campaign : Owns(t, n) /\ Owns(u, n) => t = u

\* What waits in a queue has not been begun, and the run has the text of the row.
Waiting ==
  \A t \in Tick : \A c \in tick[t].queue :
    c[1] # tick[t].at /\ c[2] = news[c[1]].text /\ Untouched(c[1])

\* What a run still has to send has not been sent, and is one row per address.
Underway ==
  \A t \in Tick : tick[t].at \in Campaign =>
    /\ tick[t].text = news[tick[t].at].text
    /\ \A k \in tick[t].todo : inbox[tick[t].at][rows[k].email] = <<>>
    /\ \A j, k \in tick[t].todo : rows[j].email = rows[k].email => j = k

\* Nothing has gone out before the claim.
Unread == \A n \in Campaign : news[n].status \in {"absent", "draft", "scheduled"} => Untouched(n)

\* What an address received is nothing or the one text.
Copies == \A n \in Campaign : \A a \in Address : inbox[n][a] \in {<<>>, <<news[n].text>>}

Deliveries == Owners /\ Waiting /\ Underway /\ Unread /\ Copies

Listed(n) == {l \in listed : l[1] = n}
Reached(n) == {a \in Address : inbox[n][a] # <<>>}

\* sent and failed count a part of the list of n.
Counts(n, sent, failed, left) ==
  /\ IsFiniteSet(Listed(n)) /\ IsFiniteSet(Reached(n))
  /\ sent + failed + left = Cardinality(Listed(n))
  /\ sent <= Cardinality(Reached(n)) /\ Cardinality(Reached(n)) <= sent + failed
  /\ Cardinality(Listed(n)) <= Len(rows)

Tallies ==
  /\ \A n \in Campaign : news[n].status = "sent" => Counts(n, news[n].sent, news[n].failed, 0)
  /\ \A n \in Campaign : news[n].status # "sent" => news[n].sent = 0 /\ news[n].failed = 0
  /\ \A t \in Tick : tick[t].at \in Campaign =>
       IsFiniteSet(tick[t].todo)
       /\ Counts(tick[t].at, tick[t].sent, tick[t].failed, Cardinality(tick[t].todo))

IInv == NewsAssumption /\ Types /\ Subscribers /\ Deliveries /\ Tallies
---------------------------------------------------------------------------
(* The steps of the mailing list. *)

\* The least element of a set of naturals, as the code takes the first row.
LEMMA LeastOfSet ==
  ASSUME NEW S, S \subseteq Nat, S # {}
  PROVE  Min(S) \in S /\ \A y \in S : Min(S) <= y
<1>1. \E x \in S : \A y \in S : x <= y
  BY LeastNatural
<1> QED
  BY <1>1 DEF Min

\* The bounds are numbers.
LEMMA MaxAsksType == ASSUME IInv PROVE {MaxAsks, MaxEdits, MaxFaults, MaxStops} \subseteq Nat
BY DEF IInv, NewsAssumption

\* An element of the rows is a row.
LEMMA RowsAre ==
  ASSUME ListType
  PROVE  /\ DOMAIN rows = 1..Len(rows) /\ Len(rows) \in Nat
         /\ \A k \in DOMAIN rows : rows[k] \in Row0
BY DEF ListType

\* The steps of the list leave campaigns and runs alone, and no row changes its

\* address; then so do they leave what is promised of deliveries.
LEMMA ListStep ==
  ASSUME IInv, UNCHANGED <<news, sending, edits, stops>>, faults' \in 0..MaxFaults,
         Len(rows) <= Len(rows'), Len(rows') \in Nat, DOMAIN rows' = 1..Len(rows'),
         \A k \in DOMAIN rows : rows'[k].email = rows[k].email
  PROVE  /\ NewsType' /\ TickType' /\ MailType' /\ Deliveries' /\ Tallies' /\ ConsentFirst'
<1>1. DOMAIN rows \subseteq DOMAIN rows' /\ DOMAIN rows = 1..Len(rows) /\ Len(rows) \in Nat
  BY RowsAre DEF IInv, Types
<1>2. NewsType' /\ MailType' /\ ConsentFirst'
  BY DEF IInv, Types, NewsType, MailType, Subscribers, ConsentFirst, sending
<1>3. TickType'
  BY <1>1 DEF IInv, Types, TickType, sending
<1>4. Owners' /\ Unread' /\ Copies'
  BY DEF IInv, Deliveries, Owners, Owns, Unread, Untouched, Copies, sending
<1>5. Waiting'
  BY DEF IInv, Deliveries, Waiting, Untouched, sending
<1>6. Underway'
  <2>1. \A t \in Tick : tick[t].todo \subseteq DOMAIN rows
    BY DEF IInv, Types, TickType
  <2> QED
    BY <2>1 DEF IInv, Deliveries, Underway, sending
<1>7. Tallies'
  <2>1. \A n \in Campaign : Listed(n)' = Listed(n) /\ Reached(n)' = Reached(n)
    BY DEF Listed, Reached, sending
  <2>2. ASSUME NEW n \in Campaign, NEW sent \in Nat, NEW failed \in Nat, NEW left, Counts(n, sent, failed, left)
        PROVE  /\ IsFiniteSet(Listed(n)) /\ IsFiniteSet(Reached(n))
               /\ sent + failed + left = Cardinality(Listed(n))
               /\ sent <= Cardinality(Reached(n)) /\ Cardinality(Reached(n)) <= sent + failed
               /\ Cardinality(Listed(n)) <= Len(rows')
    <3>1. Cardinality(Listed(n)) \in Nat
      BY <2>2, FS_CardinalityType DEF Counts
    <3> QED
      BY <1>1, <2>2, <3>1 DEF Counts
  <2>3. \A n \in Campaign : news[n].sent \in Nat /\ news[n].failed \in Nat
    BY DEF IInv, Types, NewsType
  <2>4. \A t \in Tick : tick[t].sent \in Nat /\ tick[t].failed \in Nat
    BY DEF IInv, Types, TickType
  <2>5. news' = news /\ tick' = tick
    BY DEF sending
  <2>6. \A n \in Campaign : news[n].status = "sent" => Counts(n, news[n].sent, news[n].failed, 0)'
    <3> SUFFICES ASSUME NEW n \in Campaign, news[n].status = "sent"
                 PROVE  Counts(n, news[n].sent, news[n].failed, 0)'
      OBVIOUS
    <3>1. Counts(n, news[n].sent, news[n].failed, 0)
      BY DEF IInv, Tallies
    <3> QED
      BY <2>1, <2>2, <2>3, <2>5, <3>1 DEF Counts
  <2>7. \A t \in Tick : tick[t].at \in Campaign =>
          Counts(tick[t].at, tick[t].sent, tick[t].failed, Cardinality(tick[t].todo))'
    <3> SUFFICES ASSUME NEW t \in Tick, tick[t].at \in Campaign
                 PROVE  Counts(tick[t].at, tick[t].sent, tick[t].failed, Cardinality(tick[t].todo))'
      OBVIOUS
    <3>1. Counts(tick[t].at, tick[t].sent, tick[t].failed, Cardinality(tick[t].todo))
      BY DEF IInv, Tallies
    <3> QED
      BY <2>1, <2>2, <2>4, <2>5, <3>1 DEF Counts
  <2> QED
    BY <2>5, <2>6, <2>7 DEF IInv, Tallies
<1> QED
  BY <1>2, <1>3, <1>4, <1>5, <1>6, <1>7 DEF Deliveries

\* A request reads; what it has read of its row stays true of it.
LEMMA AskKeeps ==
  ASSUME IInv, NEW a \in Address, Ask(a)
  PROVE  IInv'
<1>1. /\ UNCHANGED <<rows, links, tokens, wants, news, sending, edits, faults, stops>>
      /\ tokens + Cardinality(asks) < MaxAsks
  BY DEF Ask
<1> DEFINE q == [email |-> a, row |-> IF OpenRows(a) = {} THEN 0 ELSE Min(OpenRows(a)),
                 id |-> tokens + Cardinality(asks)]
<1>2. asks' = asks \cup {q}
  BY DEF Ask
<1>3. q.email = a /\ q.row \in 0..Len(rows) /\ (q.row # 0 => rows[q.row].email = a)
  <2>1. CASE OpenRows(a) = {}
    BY <2>1, RowsAre DEF IInv, Types
  <2>2. CASE OpenRows(a) # {}
    <3>1. OpenRows(a) \subseteq Nat /\ OpenRows(a) \subseteq 1..Len(rows)
      BY RowsAre DEF IInv, Types, OpenRows
    <3>2. Min(OpenRows(a)) \in OpenRows(a)
      BY <2>2, <3>1, LeastOfSet
    <3> QED
      BY <2>2, <3>1, <3>2 DEF OpenRows
  <2> QED
    BY <2>1, <2>2
<1>4. IsFiniteSet(asks') /\ Cardinality(asks') <= Cardinality(asks) + 1 /\ Cardinality(asks') \in Nat
      /\ Cardinality(asks) \in Nat
  <2> HIDE DEF q
  <2>1. IsFiniteSet(asks)
    BY DEF IInv, Types, ListType
  <2>2. /\ IsFiniteSet(asks') /\ Cardinality(asks) \in Nat
        /\ Cardinality(asks') = IF q \in asks THEN Cardinality(asks) ELSE Cardinality(asks) + 1
    BY <1>2, <2>1, FS_AddElement, FS_CardinalityType
  <2> QED
    BY <2>2
<1>5. ListType'
  <2>1. tokens' + Cardinality(asks') <= MaxAsks
    BY <1>1, <1>4, MaxAsksType DEF IInv, Types, ListType
  <2> HIDE DEF q
  <2> QED
    BY <1>1, <1>2, <1>3, <1>4, <2>1 DEF IInv, Types, ListType
<1>6. OneOpen' /\ TokensName' /\ Wanted'
  BY <1>1 DEF IInv, Subscribers, OneOpen, TokensName, Wanted
<1>7. NewsType' /\ TickType' /\ MailType' /\ Deliveries' /\ Tallies' /\ ConsentFirst'
  BY <1>1, ListStep, RowsAre DEF IInv, Types, TickType
<1> QED
  BY <1>5, <1>6, <1>7 DEF IInv, Types, Subscribers

\* One insert loses the race for the address: nothing is written.
LEMMA RefuseKeeps ==
  ASSUME IInv, NEW q \in asks, Refuse(q)
  PROVE  IInv'
<1>1. /\ UNCHANGED <<rows, links, tokens, wants, news, sending, edits, faults, stops>>
      /\ asks' = asks \ {q}
  BY DEF Refuse
<1>2. IsFiniteSet(asks') /\ Cardinality(asks') = Cardinality(asks) - 1 /\ Cardinality(asks) \in Nat
  BY <1>1, FS_RemoveElement, FS_CardinalityType DEF IInv, Types, ListType
<1>3. ListType'
  BY <1>1, <1>2, MaxAsksType DEF IInv, Types, ListType
<1>4. OneOpen' /\ TokensName' /\ Wanted'
  BY <1>1 DEF IInv, Subscribers, OneOpen, TokensName, Wanted
<1>5. NewsType' /\ TickType' /\ MailType' /\ Deliveries' /\ Tallies' /\ ConsentFirst'
  BY <1>1, ListStep, RowsAre DEF IInv, Types, TickType
<1> QED
  BY <1>3, <1>4, <1>5 DEF IInv, Types, Subscribers
\* The row a request inserts.
AskedRow(a, n) == [FirstRow(a) EXCEPT !.token = n, !.state = "asked"]

\* It is a row of the address, that waits with the token.
LEMMA AskedRowIs ==
  ASSUME NEW a \in Address, NEW n \in 0..MaxAsks, MaxAsks \in Nat
  PROVE  AskedRow(a, n) \in Row0 /\ AskedRow(a, n).email = a /\ AskedRow(a, n).token = n
         /\ AskedRow(a, n).state = "asked"
<1> DEFINE f == FirstRow(a)
<1>1. f \in Row0 /\ f.email = a
  BY DEF FirstRow, Row0
<1>2. AskedRow(a, n) = [f EXCEPT !.token = n, !.state = "asked"]
  BY DEF AskedRow
<1> HIDE DEF f
<1> QED
  BY <1>1, <1>2 DEF Row0

\* A request writes its row, or a new one, with a new token; the token's link

\* goes to the address of that row.
LEMMA AnswerKeeps ==
  ASSUME IInv, NEW q \in asks, NEW outcome \in Outcomes, Answer(q, outcome)
  PROVE  IInv'
<1>1. /\ UNCHANGED <<wants, news, sending, edits, stops>>
      /\ asks' = asks \ {q} /\ tokens' = tokens + 1 /\ faults' \in 0..MaxFaults
      /\ q.row = 0 => Insertable(q.email)
      /\ links' = links \/ links' = links \cup {<<q.email, tokens'>>}
  BY MaxAsksType DEF Answer, Mailing, IInv, Types, TickType
<1>2. /\ IsFiniteSet(asks') /\ Cardinality(asks') = Cardinality(asks) - 1 /\ Cardinality(asks) \in Nat
      /\ Cardinality(asks') \in Nat
  BY <1>1, FS_RemoveElement, FS_CardinalityType DEF IInv, Types, ListType
<1>3. /\ tokens \in Nat /\ tokens' <= MaxAsks /\ tokens' + Cardinality(asks') <= MaxAsks /\ tokens' \in 1..MaxAsks
      /\ MaxAsks \in Nat
  BY <1>1, <1>2, MaxAsksType DEF IInv, Types, ListType
<1>4. /\ q.email \in Address /\ q.row \in 0..Len(rows) /\ (q.row # 0 => rows[q.row].email = q.email)
      /\ rows \in Seq(Row0) /\ DOMAIN rows = 1..Len(rows) /\ Len(rows) \in Nat
      /\ \A k \in DOMAIN rows : rows[k] \in Row0
  BY RowsAre DEF IInv, Types, ListType
<1>5. PICK at \in 1..Len(rows) + 1 :
        /\ rows' \in Seq(Row0) /\ Len(rows') \in Nat /\ at <= Len(rows') /\ Len(rows) <= Len(rows')
        /\ rows'[at].email = q.email /\ rows'[at].token = tokens'
        /\ \A k \in DOMAIN rows' : k # at => k \in DOMAIN rows /\ rows'[k] = rows[k]
        /\ IF at \in DOMAIN rows
           THEN rows'[at].state = rows[at].state /\ rows[at].email = q.email
           ELSE rows'[at].state = "asked" /\ Insertable(q.email)
  <2>1. CASE q.row = 0
    <3> DEFINE r == AskedRow(q.email, tokens')
    <3>1. rows' = Append(rows, r)
      BY <2>1 DEF Answer, AskedRow
    <3>1a. tokens' \in 0..MaxAsks
      BY <1>3
    <3>2. r \in Row0 /\ r.email = q.email /\ r.token = tokens' /\ r.state = "asked"
      BY <1>3, <1>4, <3>1a, AskedRowIs
    <3> HIDE DEF r
    <3>3. /\ rows' \in Seq(Row0) /\ Len(rows') = Len(rows) + 1 /\ rows'[Len(rows) + 1] = r
          /\ \A k \in 1..Len(rows) : rows'[k] = rows[k]
      BY <1>4, <3>1, <3>2
    <3> WITNESS Len(rows) + 1 \in 1..Len(rows) + 1
    <3> QED
      BY <1>1, <1>4, <2>1, <3>2, <3>3
  <2>2. CASE q.row # 0
    <3>1. rows' = [rows EXCEPT ![q.row].token = tokens'] /\ q.row \in 1..Len(rows)
      BY <1>4, <2>2 DEF Answer
    <3>2. rows[q.row] \in Row0
      BY <1>4, <3>1
    <3>3. [rows[q.row] EXCEPT !.token = tokens'] \in Row0
      BY <1>3, <3>2 DEF Row0
    <3>4. rows' = [rows EXCEPT ![q.row] = [rows[q.row] EXCEPT !.token = tokens']]
      BY <3>1
    <3>5. rows' \in Seq(Row0) /\ Len(rows') = Len(rows) /\ DOMAIN rows' = DOMAIN rows
      BY <1>4, <3>1, <3>3, <3>4
    <3>6. rows'[q.row] = [rows[q.row] EXCEPT !.token = tokens']
      BY <1>4, <3>1, <3>4
    <3>7. /\ rows'[q.row].email = rows[q.row].email /\ rows'[q.row].token = tokens'
          /\ rows'[q.row].state = rows[q.row].state
      BY <3>2, <3>6 DEF Row0
    <3>8. \A k \in DOMAIN rows' : k # q.row => rows'[k] = rows[k]
      BY <3>4, <3>5
    <3>9. Len(rows') \in Nat
      BY <1>4, <3>5
    <3> q.row \in 1..Len(rows) + 1
      BY <1>4, <3>1, <3>5
    <3> WITNESS q.row \in 1..Len(rows) + 1
    <3> QED
      BY <1>4, <2>2, <3>1, <3>5, <3>7, <3>8, <3>9
  <2> QED
    BY <2>1, <2>2
<1>6. DOMAIN rows' = 1..Len(rows')
  BY <1>5
<1>7. ListType'
  <2>1. \A p \in asks' : p.row # 0 => rows'[p.row].email = p.email
    BY <1>1, <1>4, <1>5 DEF IInv, Types, ListType
  <2>2. links' \subseteq Address \X (1..tokens')
    BY <1>1, <1>3, <1>4 DEF IInv, Types, ListType
  <2>3. \A p \in asks' : p.email \in Address /\ p.row \in 0..Len(rows')
    BY <1>1, <1>4, <1>5 DEF IInv, Types, ListType
  <2> QED
    BY <1>1, <1>2, <1>3, <1>5, <2>1, <2>2, <2>3 DEF IInv, Types, ListType
<1>8. OneOpen'
  <2> SUFFICES ASSUME NEW j \in DOMAIN rows', NEW k \in DOMAIN rows',
                      rows'[j].state # "gone", rows'[k].state # "gone", rows'[j].email = rows'[k].email
               PROVE  j = k
    BY DEF OneOpen
  <2>1. OneOpen
    BY DEF IInv, Subscribers
  <2>2. CASE at \in DOMAIN rows
    BY <1>5, <2>1, <2>2 DEF OneOpen
  <2>3. CASE at \notin DOMAIN rows
    <3>1. \A i \in DOMAIN rows : rows[i].email = q.email => rows[i].state = "gone"
      BY <1>5, <2>3 DEF Insertable, OpenRows
    <3> QED
      BY <1>5, <2>1, <2>3, <3>1 DEF OneOpen
  <2> QED
    BY <2>2, <2>3
<1>9. TokensName'
  <2> SUFFICES ASSUME NEW k \in DOMAIN rows'
               PROVE  /\ rows'[k].token <= tokens'
                      /\ \A link \in links' : link[2] = rows'[k].token => link[1] = rows'[k].email
    BY DEF TokensName
  <2>1. \A link \in links : link[2] \in Nat /\ link[2] <= tokens
    BY <1>3 DEF IInv, Types, ListType
  <2>2. CASE k = at
    BY <1>1, <1>3, <1>5, <2>1, <2>2
  <2>3. CASE k # at
    <3>1. k \in DOMAIN rows /\ rows'[k] = rows[k] /\ rows[k].token \in Nat /\ rows[k].token <= tokens
      BY <1>4, <1>5, <2>3 DEF IInv, Subscribers, TokensName, Row0
    <3> QED
      BY <1>1, <1>3, <3>1 DEF IInv, Subscribers, TokensName
  <2> QED
    BY <2>2, <2>3
<1>10. Wanted'
  BY <1>1, <1>5 DEF IInv, Subscribers, Wanted
<1>11. NewsType' /\ TickType' /\ MailType' /\ Deliveries' /\ Tallies' /\ ConsentFirst'
  <2>1. \A k \in DOMAIN rows : rows'[k].email = rows[k].email
    BY <1>4, <1>5, <1>6
  <2> QED
    BY <1>1, <1>5, <1>6, <2>1, ListStep
<1> QED
  BY <1>7, <1>8, <1>9, <1>10, <1>11 DEF IInv, Types, Subscribers
\* A step that changes a row in place keeps its address and its token.
RowChanged(k, new) ==
  /\ Len(rows') = Len(rows) /\ DOMAIN rows' = DOMAIN rows /\ rows' \in Seq(Row0)
  /\ \A j \in DOMAIN rows : j # k => rows'[j] = rows[j]
  /\ rows'[k].email = rows[k].email /\ rows'[k].token = rows[k].token
  /\ rows'[k] = new

\* A click changes the state of its row.
LEMMA StateOfRow ==
  ASSUME ListType, NEW k \in DOMAIN rows, NEW s \in {"asked", "confirmed", "gone"},
         rows' = [rows EXCEPT ![k].state = s]
  PROVE  RowChanged(k, [rows[k] EXCEPT !.state = s]) /\ rows'[k].state = s
<1> DEFINE new == [rows[k] EXCEPT !.state = s]
<1>1. rows \in Seq(Row0) /\ rows[k] \in Row0 /\ k \in 1..Len(rows)
  BY RowsAre DEF ListType
<1>2. new \in Row0 /\ new.email = rows[k].email /\ new.token = rows[k].token /\ new.state = s
  BY <1>1 DEF Row0
<1>3. rows' = [rows EXCEPT ![k] = new]
  OBVIOUS
<1> HIDE DEF new
<1>4. rows' \in Seq(Row0) /\ Len(rows') = Len(rows) /\ DOMAIN rows' = DOMAIN rows /\ rows'[k] = new
      /\ \A j \in DOMAIN rows : j # k => rows'[j] = rows[j]
  BY <1>1, <1>2, <1>3
<1>5. RowChanged(k, new) /\ rows'[k].state = s
  BY <1>2, <1>4 DEF RowChanged
<1> QED
  BY <1>5 DEF new

\* The sender notes that a row's unsubscribe link got out.
LEMMA ReachedRow ==
  ASSUME ListType, NEW k \in DOMAIN rows, NEW b \in BOOLEAN,
         rows' = [rows EXCEPT ![k].reached = b]
  PROVE  RowChanged(k, [rows[k] EXCEPT !.reached = b]) /\ rows'[k].state = rows[k].state
<1> DEFINE new == [rows[k] EXCEPT !.reached = b]
<1>1. rows \in Seq(Row0) /\ rows[k] \in Row0 /\ k \in 1..Len(rows)
  BY RowsAre DEF ListType
<1>2. new \in Row0 /\ new.email = rows[k].email /\ new.token = rows[k].token /\ new.state = rows[k].state
  BY <1>1 DEF Row0
<1>3. rows' = [rows EXCEPT ![k] = new]
  OBVIOUS
<1> HIDE DEF new
<1>4. rows' \in Seq(Row0) /\ Len(rows') = Len(rows) /\ DOMAIN rows' = DOMAIN rows /\ rows'[k] = new
      /\ \A j \in DOMAIN rows : j # k => rows'[j] = rows[j]
  BY <1>1, <1>2, <1>3
<1>5. RowChanged(k, new) /\ rows'[k].state = rows[k].state
  BY <1>2, <1>4 DEF RowChanged
<1> QED
  BY <1>5 DEF new

\* It keeps the types of the list, and what tokens name.
LEMMA ChangedList ==
  ASSUME IInv, NEW k \in DOMAIN rows, NEW new, RowChanged(k, new),
         UNCHANGED <<asks, links, tokens>>, wants' \subseteq Address
  PROVE  /\ ListType' /\ TokensName' /\ Len(rows') \in Nat /\ DOMAIN rows' = 1..Len(rows')
         /\ \A j \in DOMAIN rows : rows'[j].email = rows[j].email
<1>1. DOMAIN rows = 1..Len(rows) /\ Len(rows) \in Nat
  BY RowsAre DEF IInv, Types
<1>2. \A j \in DOMAIN rows : rows'[j].email = rows[j].email /\ rows'[j].token = rows[j].token
  BY DEF RowChanged
<1>3. ListType'
  BY <1>1, <1>2 DEF IInv, Types, ListType, RowChanged
<1>4. TokensName'
  BY <1>2 DEF IInv, Subscribers, TokensName, RowChanged
<1> QED
  BY <1>1, <1>2, <1>3, <1>4 DEF RowChanged

\* A confirmation: the link was mailed to the address of the row it confirms.
LEMMA ConfirmKeeps ==
  ASSUME IInv, NEW link \in links, Confirm(link)
  PROVE  IInv'
<1>1. PICK k \in DOMAIN rows : /\ rows[k].token = link[2] /\ rows[k].state = "asked"
                               /\ rows' = [rows EXCEPT ![k].state = "confirmed"]
  BY DEF Confirm
<1>2. /\ wants' = wants \cup {link[1]} /\ link[1] \in Address
      /\ UNCHANGED <<asks, links, tokens, news, sending, edits, faults, stops>>
  BY DEF Confirm, IInv, Types, ListType
<1>3. wants' \subseteq Address /\ faults' \in 0..MaxFaults
  BY <1>2 DEF IInv, Types, ListType, TickType
<1>4. RowChanged(k, [rows[k] EXCEPT !.state = "confirmed"]) /\ rows'[k].state = "confirmed"
  BY <1>1, StateOfRow DEF IInv, Types
<1>5. /\ ListType' /\ TokensName' /\ Len(rows') \in Nat /\ DOMAIN rows' = 1..Len(rows')
      /\ \A j \in DOMAIN rows : rows'[j].email = rows[j].email
  BY <1>2, <1>3, <1>4, ChangedList
<1>6. link[1] = rows[k].email
  BY <1>1 DEF IInv, Subscribers, TokensName
<1>7. OneOpen'
  <2>1. \A j \in DOMAIN rows' : j \in DOMAIN rows /\ rows'[j].email = rows[j].email
                                /\ (rows'[j].state # "gone" => rows[j].state # "gone")
    BY <1>1, <1>4, <1>5 DEF RowChanged
  <2> QED
    BY <2>1 DEF IInv, Subscribers, OneOpen
<1>8. Wanted'
  <2> SUFFICES ASSUME NEW j \in DOMAIN rows', rows'[j].state = "confirmed"
               PROVE  rows'[j].email \in wants'
    BY DEF Wanted
  <2>1. CASE j = k
    <3>1. rows'[k].email = rows[k].email
      BY <1>5
    <3>2. link[1] \in wants'
      BY <1>2
    <3> QED
      BY <1>6, <2>1, <3>1, <3>2
  <2>2. CASE j # k
    BY <1>2, <1>4, <2>2 DEF RowChanged, IInv, Subscribers, Wanted
  <2> QED
    BY <2>1, <2>2
<1>9. NewsType' /\ TickType' /\ MailType' /\ Deliveries' /\ Tallies' /\ ConsentFirst'
  <2>1. Len(rows) <= Len(rows')
    BY <1>4, <1>5 DEF RowChanged
  <2> QED
    BY <1>2, <1>3, <1>5, <2>1, ListStep
<1> QED
  BY <1>5, <1>7, <1>8, <1>9 DEF IInv, Types, Subscribers

\* An unsubscription closes the only open row of its address.
LEMMA UnsubscribeKeeps ==
  ASSUME IInv, NEW k \in DOMAIN rows, Unsubscribe(k)
  PROVE  IInv'
<1>1. /\ rows' = [rows EXCEPT ![k].state = "gone"] /\ rows[k].state # "gone"
      /\ wants' = wants \ {rows[k].email}
      /\ UNCHANGED <<asks, links, tokens, news, sending, edits, faults, stops>>
  BY DEF Unsubscribe
<1>2. wants' \subseteq Address /\ faults' \in 0..MaxFaults
  BY <1>1 DEF IInv, Types, ListType, TickType
<1>3. RowChanged(k, [rows[k] EXCEPT !.state = "gone"]) /\ rows'[k].state = "gone"
  BY <1>1, StateOfRow DEF IInv, Types
<1>4. /\ ListType' /\ TokensName' /\ Len(rows') \in Nat /\ DOMAIN rows' = 1..Len(rows')
      /\ \A j \in DOMAIN rows : rows'[j].email = rows[j].email
  BY <1>1, <1>2, <1>3, ChangedList
<1>5. \A j \in DOMAIN rows' : j \in DOMAIN rows /\ rows'[j].email = rows[j].email
                              /\ (rows'[j].state # "gone" => j # k /\ rows'[j] = rows[j])
  BY <1>3, <1>4 DEF RowChanged
<1>6. OneOpen'
  BY <1>5 DEF IInv, Subscribers, OneOpen
<1>7. Wanted'
  <2> SUFFICES ASSUME NEW j \in DOMAIN rows', rows'[j].state = "confirmed"
               PROVE  rows'[j].email \in wants'
    BY DEF Wanted
  <2>1. j \in DOMAIN rows /\ j # k /\ rows'[j] = rows[j] /\ rows[j].state = "confirmed"
    BY <1>5
  <2>2. rows[j].email # rows[k].email
    BY <1>1, <2>1 DEF IInv, Subscribers, OneOpen
  <2> QED
    BY <1>1, <2>1, <2>2 DEF IInv, Subscribers, Wanted
<1>8. NewsType' /\ TickType' /\ MailType' /\ Deliveries' /\ Tallies' /\ ConsentFirst'
  <2>1. Len(rows) <= Len(rows')
    BY <1>3, <1>4 DEF RowChanged
  <2> QED
    BY <1>1, <1>2, <1>4, <2>1, ListStep
<1> QED
  BY <1>4, <1>6, <1>7, <1>8 DEF IInv, Types, Subscribers
---------------------------------------------------------------------------
(* The steps of the editor. *)

\* A newsletter may change its text, its time and its status as long as it is

\* not being sent.
LEMMA EditKeeps ==
  ASSUME IInv, NEW n \in Campaign, NEW new, news' = [news EXCEPT ![n] = new], Editor,
         news[n].status \in {"absent", "draft", "scheduled"},
         new \in [status : {"draft", "scheduled"}, text : Text, due : BOOLEAN, sent : Nat, failed : Nat],
         new.sent = news[n].sent, new.failed = news[n].failed,
         new.text <= edits', edits <= edits', edits' \in 0..MaxEdits, new.due => new.status = "scheduled"
  PROVE  IInv'
<1>1. UNCHANGED <<rows, asks, links, tokens, wants, tick, inbox, listed, faults, stops>>
  BY DEF Editor, list, sending
<1>2. ListType' /\ TickType' /\ MailType' /\ Subscribers'
  BY <1>1 DEF IInv, Types, ListType, TickType, MailType, Subscribers, OneOpen, TokensName, Wanted,
              ConsentFirst
<1>3. /\ news'[n] = new /\ \A m \in Campaign : m # n => news'[m] = news[m]
      /\ news'[n].status \in {"draft", "scheduled"}
  BY DEF IInv, Types, NewsType
<1>4. NewsType'
  <2>1. \A m \in Campaign : news[m].text \in Nat /\ news[m].text <= edits
    BY MaxAsksType DEF IInv, Types, NewsType, Text
  <2>2. edits \in Nat /\ edits' \in Nat
    BY MaxAsksType DEF IInv, Types, NewsType
  <2>3. \A m \in Campaign : news'[m].text <= edits' /\ (news'[m].due => news'[m].status \notin {"absent", "draft"})
    BY <1>3, <2>1, <2>2 DEF IInv, Types, NewsType
  <2>4. news' \in [Campaign -> [status : {"absent", "draft", "scheduled", "sending", "sent"},
                                text : Text, due : BOOLEAN, sent : Nat, failed : Nat]]
    <3>1. new \in [status : {"absent", "draft", "scheduled", "sending", "sent"},
                   text : Text, due : BOOLEAN, sent : Nat, failed : Nat]
      OBVIOUS
    <3> QED
      BY <3>1 DEF IInv, Types, NewsType
  <2> QED
    BY <2>3, <2>4 DEF NewsType
<1>5. \A t \in Tick : ~Owns(t, n)
  BY DEF IInv, Deliveries, Owners
<1>6. Untouched(n) /\ Untouched(n)'
  <2>1. Untouched(n)
    BY DEF IInv, Deliveries, Unread
  <2> QED
    BY <1>1, <2>1 DEF Untouched
<1>7. Owners'
  <2>1. \A t \in Tick, m \in Campaign : Owns(t, m)' = Owns(t, m)
    BY <1>1 DEF Owns
  <2> QED
    BY <1>3, <1>5, <2>1 DEF IInv, Deliveries, Owners
<1>8. Waiting'
  <2> SUFFICES ASSUME NEW t \in Tick, NEW c \in tick[t].queue
               PROVE  c[1] # tick[t].at /\ c[2] = news'[c[1]].text /\ Untouched(c[1])'
    BY <1>1 DEF Waiting
  <2>1. c[1] # tick[t].at /\ c[2] = news[c[1]].text /\ Untouched(c[1]) /\ c[1] \in Campaign
    BY DEF IInv, Deliveries, Waiting, Types, TickType
  <2>2. c[1] # n
    BY <1>5 DEF Owns
  <2>3. Untouched(c[1])'
    BY <1>1, <2>1 DEF Untouched
  <2> QED
    BY <1>3, <2>1, <2>2, <2>3
<1>9. Underway'
  <2> SUFFICES ASSUME NEW t \in Tick, tick[t].at \in Campaign
               PROVE  /\ tick[t].text = news'[tick[t].at].text
                      /\ \A k \in tick[t].todo : inbox[tick[t].at][rows[k].email] = <<>>
                      /\ \A j, k \in tick[t].todo : rows[j].email = rows[k].email => j = k
    BY <1>1 DEF Underway
  <2>1. tick[t].at # n
    BY <1>5 DEF Owns
  <2> QED
    BY <1>3, <2>1 DEF IInv, Deliveries, Underway
<1>10. Unread'
  <2> SUFFICES ASSUME NEW m \in Campaign, news'[m].status \in {"absent", "draft", "scheduled"}
               PROVE  Untouched(m)'
    BY DEF Unread
  <2>1. CASE m = n
    BY <1>6, <2>1
  <2>2. CASE m # n
    <3>1. Untouched(m)
      BY <1>3, <2>2 DEF IInv, Deliveries, Unread
    <3> QED
      BY <1>1, <3>1 DEF Untouched
  <2> QED
    BY <2>1, <2>2
<1>11. Copies'
  BY <1>1, <1>3, <1>6 DEF IInv, Deliveries, Copies, Untouched
<1>12. Tallies'
  <2>1. \A m \in Campaign : /\ news'[m].sent = news[m].sent /\ news'[m].failed = news[m].failed
                            /\ (news'[m].status = "sent" <=> news[m].status = "sent")
    BY <1>3
  <2>3. \A m \in Campaign : Listed(m)' = Listed(m) /\ Reached(m)' = Reached(m)
    BY <1>1 DEF Listed, Reached
  <2>4. ASSUME NEW m \in Campaign, news'[m].status = "sent"
        PROVE  Counts(m, news[m].sent, news[m].failed, 0)'
    <3>1. Counts(m, news[m].sent, news[m].failed, 0)
      BY <2>1, <2>4 DEF IInv, Tallies
    <3> QED
      BY <1>1, <2>1, <2>3, <3>1 DEF Counts
  <2>5. ASSUME NEW t \in Tick, tick[t].at \in Campaign
        PROVE  IsFiniteSet(tick[t].todo)
               /\ Counts(tick[t].at, tick[t].sent, tick[t].failed, Cardinality(tick[t].todo))'
    <3>1. IsFiniteSet(tick[t].todo)
          /\ Counts(tick[t].at, tick[t].sent, tick[t].failed, Cardinality(tick[t].todo))
      BY <2>5 DEF IInv, Tallies
    <3> QED
      BY <1>1, <2>3, <2>5, <3>1 DEF Counts
  <2>6. \A m \in Campaign : news'[m].status # "sent" => news'[m].sent = 0 /\ news'[m].failed = 0
    BY <2>1 DEF IInv, Tallies
  <2> QED
    BY <1>1, <2>4, <2>5, <2>6 DEF Tallies
<1> QED
  BY <1>2, <1>4, <1>7, <1>8, <1>9, <1>10, <1>11, <1>12 DEF IInv, Types, Deliveries

\* The steps of the editor, one by one.
LEMMA EditorKeeps ==
  ASSUME IInv, NEW n \in Campaign,
         Draft(n) \/ Edit(n) \/ TimeComes(n) \/ Cancel(n) \/ \E now \in BOOLEAN : Schedule(n, now)
  PROVE  IInv'
<1> DEFINE Letter(r) == r \in [status : {"draft", "scheduled"}, text : Text, due : BOOLEAN, sent : Nat, failed : Nat]
<1>1. /\ news[n] \in [status : {"absent", "draft", "scheduled", "sending", "sent"},
                      text : Text, due : BOOLEAN, sent : Nat, failed : Nat]
      /\ news[n].text \in Nat /\ news[n].text <= edits /\ edits \in 0..MaxEdits /\ MaxEdits \in Nat /\ edits \in Nat
      /\ news[n].due => news[n].status \notin {"absent", "draft"}
      /\ DOMAIN news = Campaign
  BY MaxAsksType DEF IInv, Types, NewsType, Text
<1>2. CASE Draft(n)
  <2> DEFINE new == [news[n] EXCEPT !.status = "draft"]
  <2>1. news' = [news EXCEPT ![n] = new] /\ edits' = edits /\ Editor /\ news[n].status = "absent"
    BY <1>2 DEF Draft
  <2>2. Letter(new) /\ new.sent = news[n].sent /\ new.failed = news[n].failed /\ new.text = news[n].text
        /\ ~new.due
    BY <1>1, <2>1
  <2>3. edits' \in 0..MaxEdits /\ edits <= edits' /\ new.text <= edits' /\ (new.due => new.status = "scheduled")
    BY <1>1, <2>1, <2>2
  <2> HIDE DEF new
  <2>4. news[n].status \in {"absent", "draft", "scheduled"}
    BY <2>1
  <2> QED
    BY <2>1, <2>2, <2>3, <2>4, EditKeeps
<1>3. CASE Edit(n)
  <2> DEFINE new == [news[n] EXCEPT !.text = @ + 1]
  <2>1. /\ news' = [news EXCEPT ![n] = new] /\ edits' = edits + 1 /\ edits < MaxEdits /\ Editor
        /\ news[n].status \in {"draft", "scheduled"}
    BY <1>3 DEF Edit, Edited, Editable
  <2>2. news[n].text + 1 \in Text /\ edits' \in 0..MaxEdits
    BY <1>1, <2>1 DEF Text
  <2>3. /\ Letter(new) /\ new.sent = news[n].sent /\ new.failed = news[n].failed /\ new.text = news[n].text + 1
        /\ new.due = news[n].due /\ new.status = news[n].status
    BY <1>1, <2>1, <2>2
  <2>4. new.text <= edits' /\ (new.due => new.status = "scheduled") /\ edits <= edits'
    BY <1>1, <2>1, <2>3
  <2> HIDE DEF new
  <2> QED
    BY <2>1, <2>2, <2>3, <2>4, EditKeeps
<1>4. CASE TimeComes(n)
  <2> DEFINE new == [news[n] EXCEPT !.due = TRUE]
  <2>1. news' = [news EXCEPT ![n] = new] /\ edits' = edits /\ Editor /\ news[n].status = "scheduled"
    BY <1>4 DEF TimeComes
  <2>2. Letter(new) /\ new.sent = news[n].sent /\ new.failed = news[n].failed /\ new.text = news[n].text
        /\ new.status = "scheduled"
    BY <1>1, <2>1
  <2>3. edits' \in 0..MaxEdits /\ edits <= edits' /\ new.text <= edits' /\ (new.due => new.status = "scheduled")
    BY <1>1, <2>1, <2>2
  <2> HIDE DEF new
  <2>4. news[n].status \in {"absent", "draft", "scheduled"}
    BY <2>1
  <2> QED
    BY <2>1, <2>2, <2>3, <2>4, EditKeeps
<1>5. CASE Cancel(n)
  <2> DEFINE new == [news[n] EXCEPT !.status = "draft", !.due = FALSE]
  <2>1. /\ news' = [news EXCEPT ![n] = new] /\ edits' = edits + 1 /\ edits < MaxEdits /\ Editor
        /\ news[n].status = "scheduled"
    BY <1>1, <1>5 DEF Cancel, Edited, Cancelable, Cancelled
  <2>2. Letter(new) /\ new.sent = news[n].sent /\ new.failed = news[n].failed /\ new.text = news[n].text
        /\ ~new.due
    BY <1>1, <2>1
  <2>3. edits' \in 0..MaxEdits /\ edits <= edits' /\ new.text <= edits'
    BY <1>1, <2>1, <2>2
  <2> HIDE DEF new
  <2> QED
    BY <2>1, <2>2, <2>3, EditKeeps
<1>6. ASSUME NEW now \in BOOLEAN, Schedule(n, now) PROVE IInv'
  <2> DEFINE new == [news[n] EXCEPT !.status = "scheduled", !.due = now]
  <2>1. /\ news' = [news EXCEPT ![n] = new] /\ edits' = edits /\ Editor
        /\ news[n].status \in {"draft", "scheduled"}
    BY <1>1, <1>6 DEF Schedule, Editable
  <2>2. Letter(new) /\ new.sent = news[n].sent /\ new.failed = news[n].failed /\ new.text = news[n].text
        /\ new.status = "scheduled"
    BY <1>1, <2>1
  <2>3. edits' \in 0..MaxEdits /\ edits <= edits' /\ new.text <= edits' /\ (new.due => new.status = "scheduled")
    BY <1>1, <2>1, <2>2
  <2> HIDE DEF new
  <2>4. news[n].status \in {"absent", "draft", "scheduled"}
    BY <2>1
  <2> QED
    BY <2>1, <2>2, <2>3, <2>4, EditKeeps
<1> QED
  BY <1>2, <1>3, <1>4, <1>5, <1>6

\* A test mail changes nothing of it.
LEMMA TestMailKeeps ==
  ASSUME IInv, NEW n \in Campaign, NEW outcome \in Outcomes, TestMail(n, outcome)
  PROVE  IInv'
<1>1. UNCHANGED <<list, news, sending, edits, stops>> /\ faults' \in 0..MaxFaults
  BY MaxAsksType DEF TestMail, Mailing, IInv, Types, TickType
<1>2. ListType' /\ OneOpen' /\ TokensName' /\ Wanted'
  BY <1>1 DEF IInv, Types, ListType, Subscribers, OneOpen, TokensName, Wanted, list
<1>3. Len(rows) \in Nat /\ DOMAIN rows = 1..Len(rows) /\ rows' = rows
  BY <1>1, RowsAre DEF IInv, Types, list
<1>4. NewsType' /\ TickType' /\ MailType' /\ Deliveries' /\ Tallies' /\ ConsentFirst'
  BY <1>1, <1>3, ListStep
<1> QED
  BY <1>2, <1>4 DEF IInv, Types, Subscribers
---------------------------------------------------------------------------
(* The steps of a run. *)

TickRow == [at : Places, queue : SUBSET (Campaign \X Text), text : Text, todo : SUBSET Nat, sent : Nat, failed : Nat]

\* A run that starts or goes on with its queue, and one that has begun a campaign.
Queued(at, queue) == [Idle EXCEPT !.at = at, !.queue = queue]
Begun(at, text, todo, queue) == [Idle EXCEPT !.at = at, !.text = text, !.todo = todo, !.queue = queue]

\* They are runs that have counted nothing.
LEMMA TickRows ==
  ASSUME NewsAssumption
  PROVE  /\ Idle \in TickRow /\ Idle.at = "idle" /\ Idle.queue = {} /\ Idle.todo = {}
         /\ \A at \in Places, q \in SUBSET (Campaign \X Text) :
              /\ Queued(at, q) \in TickRow /\ Queued(at, q).at = at /\ Queued(at, q).queue = q
              /\ Queued(at, q).todo = {}
         /\ \A at \in Places, x \in Text, d \in SUBSET Nat, q \in SUBSET (Campaign \X Text) :
              /\ Begun(at, x, d, q) \in TickRow /\ Begun(at, x, d, q).at = at /\ Begun(at, x, d, q).text = x
              /\ Begun(at, x, d, q).todo = d /\ Begun(at, x, d, q).queue = q
              /\ Begun(at, x, d, q).sent = 0 /\ Begun(at, x, d, q).failed = 0
<1> DEFINE f == Idle
<1>1. 0 \in Text /\ "idle" \in Places
  BY DEF NewsAssumption, Text, Places
<1>2. /\ f \in TickRow /\ f.at = "idle" /\ f.queue = {} /\ f.todo = {} /\ f.sent = 0 /\ f.failed = 0
  BY <1>1 DEF Idle, TickRow
<1>3. \A at, q : Queued(at, q) = [f EXCEPT !.at = at, !.queue = q]
  BY DEF Queued
<1>4. \A at, x, d, q : Begun(at, x, d, q) = [f EXCEPT !.at = at, !.text = x, !.todo = d, !.queue = q]
  BY DEF Begun
<1> HIDE DEF f
<1>5. ASSUME NEW at \in Places, NEW q \in SUBSET (Campaign \X Text)
      PROVE  /\ Queued(at, q) \in TickRow /\ Queued(at, q).at = at /\ Queued(at, q).queue = q
             /\ Queued(at, q).todo = {}
  BY ONLY <1>2, <1>3, <1>5 DEF TickRow
<1>6. ASSUME NEW at \in Places, NEW x \in Text, NEW d \in SUBSET Nat, NEW q \in SUBSET (Campaign \X Text)
      PROVE  /\ Begun(at, x, d, q) \in TickRow /\ Begun(at, x, d, q).at = at /\ Begun(at, x, d, q).text = x
             /\ Begun(at, x, d, q).todo = d /\ Begun(at, x, d, q).queue = q
             /\ Begun(at, x, d, q).sent = 0 /\ Begun(at, x, d, q).failed = 0
  BY ONLY <1>2, <1>4, <1>6 DEF TickRow
<1> QED
  BY <1>2, <1>5, <1>6 DEF f

\* No name of a place is that of a campaign.
LEMMA PlacesApart == ASSUME IInv PROVE "idle" \notin Campaign /\ "next" \notin Campaign /\ "idle" # "next"
BY DEF IInv, NewsAssumption

\* A claim takes what nobody owns and nobody has received.
LEMMA ClaimKeeps ==
  ASSUME IInv, NEW t \in Tick, Claim(t)
  PROVE  IInv'
<1> DEFINE run == Queued("next", Claimed(Due))
<1>1. /\ tick' = [tick EXCEPT ![t] = run]
      /\ news' = [n \in Campaign |-> IF n \in Due THEN [news[n] EXCEPT !.status = "sending"] ELSE news[n]]
      /\ UNCHANGED <<rows, asks, links, tokens, wants, inbox, listed, edits, faults, stops>>
  BY DEF Claim, list, Queued
<1>2. \A n \in Campaign :
        /\ news[n] \in [status : {"absent", "draft", "scheduled", "sending", "sent"},
                        text : Text, due : BOOLEAN, sent : Nat, failed : Nat]
        /\ news[n].text <= edits /\ (news[n].due => news[n].status \notin {"absent", "draft"})
  BY DEF IInv, Types, NewsType
<1>3. Claimed(Due) \in SUBSET (Campaign \X Text)
  BY <1>2 DEF Claimed, Due
<1>4. /\ run \in TickRow /\ run.at = "next" /\ run.queue = Claimed(Due) /\ run.todo = {}
  BY <1>3, TickRows DEF IInv, Places
<1> HIDE DEF run
<1>5. \A n \in Campaign :
        /\ news'[n].text = news[n].text /\ news'[n].due = news[n].due
        /\ news'[n].sent = news[n].sent /\ news'[n].failed = news[n].failed
        /\ news'[n] \in [status : {"absent", "draft", "scheduled", "sending", "sent"},
                         text : Text, due : BOOLEAN, sent : Nat, failed : Nat]
        /\ (n \in Due => news'[n].status = "sending" /\ news[n].status = "scheduled")
        /\ (n \notin Due => news'[n] = news[n])
  BY <1>1, <1>2 DEF Due
<1>6. NewsType'
  <2>1. news' \in [Campaign -> [status : {"absent", "draft", "scheduled", "sending", "sent"},
                                text : Text, due : BOOLEAN, sent : Nat, failed : Nat]]
    BY <1>1, <1>5
  <2>2. edits' \in 0..MaxEdits
    BY <1>1 DEF IInv, Types, NewsType
  <2>3. \A n \in Campaign : /\ news'[n].text <= edits'
                            /\ news'[n].due => news'[n].status \notin {"absent", "draft"}
    BY <1>1, <1>2, <1>5
  <2> QED
    BY <2>1, <2>2, <2>3 DEF NewsType
<1>7. /\ tick' \in [Tick -> TickRow] /\ tick'[t] = run /\ \A u \in Tick : u # t => tick'[u] = tick[u]
  BY <1>1, <1>4 DEF IInv, Types, TickType, TickRow
<1>8. ListType' /\ TickType' /\ MailType' /\ Subscribers'
  <2>1. ListType' /\ MailType' /\ Subscribers'
    BY <1>1 DEF IInv, Types, ListType, MailType, Subscribers, OneOpen, TokensName, Wanted, ConsentFirst
  <2>2. TickType'
    BY <1>1, <1>4, <1>7 DEF IInv, Types, TickType, TickRow
  <2> QED
    BY <2>1, <2>2
<1>9. /\ \A u \in Tick, n \in Campaign : u # t => (Owns(u, n)' <=> Owns(u, n))
      /\ \A n \in Campaign : Owns(t, n)' => n \in Due
      /\ \A u \in Tick : \A n \in Due : ~Owns(u, n)
  <2>1. \A n \in Campaign : Owns(t, n)' => n \in Due
    BY <1>4, <1>7, PlacesApart DEF Owns, Claimed
  <2>2. \A u \in Tick : \A n \in Due : ~Owns(u, n)
    BY DEF IInv, Deliveries, Owners, Due
  <2> QED
    BY <1>7, <2>1, <2>2 DEF Owns
<1>10. Owners'
  <2>1. \A n \in Campaign : news[n].status = "sending" => news'[n].status = "sending"
    BY <1>5
  <2>2. \A u \in Tick, n \in Campaign : Owns(u, n)' => news'[n].status = "sending"
    BY <1>5, <1>9, <2>1 DEF IInv, Deliveries, Owners
  <2>3. \A u, v \in Tick, n \in Campaign : Owns(u, n)' /\ Owns(v, n)' => u = v
    BY <1>9 DEF IInv, Deliveries, Owners, Due
  <2> QED
    BY <2>2, <2>3 DEF Owners
<1>11. \A n \in Campaign : Untouched(n)' = Untouched(n)
  BY <1>1 DEF Untouched
<1>12. Waiting'
  <2> SUFFICES ASSUME NEW u \in Tick, NEW c \in tick'[u].queue
               PROVE  c[1] # tick'[u].at /\ c[2] = news'[c[1]].text /\ Untouched(c[1])'
    BY DEF Waiting
  <2>1. CASE u = t
    <3>1. PICK n \in Due : c = <<n, news[n].text>>
      BY <1>4, <1>7, <2>1 DEF Claimed
    <3>2. n \in Campaign /\ news[n].status = "scheduled" /\ Untouched(n)
      BY DEF Due, IInv, Deliveries, Unread
    <3> QED
      BY <1>4, <1>5, <1>7, <1>11, <2>1, <3>1, <3>2, PlacesApart
  <2>2. CASE u # t
    <3>1. c \in tick[u].queue /\ c[1] \in Campaign
      BY <1>7, <2>2 DEF IInv, Types, TickType
    <3>2. c[1] # tick[u].at /\ c[2] = news[c[1]].text /\ Untouched(c[1])
      BY <3>1 DEF IInv, Deliveries, Waiting
    <3> QED
      BY <1>5, <1>7, <1>11, <2>2, <3>1, <3>2
  <2> QED
    BY <2>1, <2>2
<1>13. \A u \in Tick : tick'[u].at \in Campaign => u # t /\ tick'[u] = tick[u]
  BY <1>4, <1>7, PlacesApart
<1>14. Underway'
  BY <1>1, <1>5, <1>13 DEF IInv, Deliveries, Underway
<1>15. Unread' /\ Copies'
  BY <1>1, <1>5, <1>11 DEF IInv, Deliveries, Unread, Copies
<1>16. Tallies'
  <2>1. \A n \in Campaign : Listed(n)' = Listed(n) /\ Reached(n)' = Reached(n)
    BY <1>1 DEF Listed, Reached
  <2>2. \A n \in Campaign : news'[n].status = "sent" <=> news[n].status = "sent"
    BY <1>5
  <2>3. ASSUME NEW n \in Campaign, news'[n].status = "sent"
        PROVE  Counts(n, news[n].sent, news[n].failed, 0)'
    <3>1. Counts(n, news[n].sent, news[n].failed, 0)
      BY <2>2, <2>3 DEF IInv, Tallies
    <3> QED
      BY <1>1, <1>5, <2>1, <3>1 DEF Counts
  <2>4. ASSUME NEW u \in Tick, tick'[u].at \in Campaign
        PROVE  IsFiniteSet(tick'[u].todo)
               /\ Counts(tick[u].at, tick[u].sent, tick[u].failed, Cardinality(tick[u].todo))'
    <3>1. IsFiniteSet(tick[u].todo)
          /\ Counts(tick[u].at, tick[u].sent, tick[u].failed, Cardinality(tick[u].todo))
      BY <1>13, <2>4 DEF IInv, Tallies
    <3> QED
      BY <1>1, <1>13, <2>1, <2>4, <3>1 DEF Counts
  <2>5. \A n \in Campaign : news'[n].status # "sent" => news'[n].sent = 0 /\ news'[n].failed = 0
    BY <1>5, <2>2 DEF IInv, Tallies
  <2> QED
    BY <2>3, <2>4, <2>5 DEF Tallies
<1> QED
  BY <1>6, <1>8, <1>10, <1>12, <1>14, <1>15, <1>16 DEF IInv, Types, Deliveries

\* A run that is cut short owns nothing any more.
LEMMA StopKeeps ==
  ASSUME IInv, NEW t \in Tick, Stop(t)
  PROVE  IInv'
<1>1. /\ tick' = [tick EXCEPT ![t] = Idle] /\ stops' \in 0..MaxStops
      /\ UNCHANGED <<rows, asks, links, tokens, wants, news, inbox, listed, edits, faults>>
  BY MaxAsksType DEF Stop, list, IInv, Types, TickType
<1>2. Idle \in TickRow /\ Idle.at = "idle" /\ Idle.queue = {} /\ Idle.todo = {}
  BY TickRows DEF IInv
<1>3. /\ tick' \in [Tick -> TickRow] /\ tick'[t] = Idle /\ \A u \in Tick : u # t => tick'[u] = tick[u]
  BY <1>1, <1>2 DEF IInv, Types, TickType, TickRow
<1>4. Types' /\ Subscribers'
  <2>1. ListType' /\ NewsType' /\ MailType' /\ Subscribers'
    BY <1>1 DEF IInv, Types, ListType, NewsType, MailType, Subscribers, OneOpen, TokensName, Wanted, ConsentFirst
  <2>2. TickType'
    BY <1>1, <1>2, <1>3 DEF IInv, Types, TickType, TickRow
  <2> QED
    BY <2>1, <2>2 DEF Types
<1>5. \A u \in Tick, n \in Campaign : Owns(u, n)' => u # t /\ Owns(u, n)
  BY <1>2, <1>3, PlacesApart DEF Owns
<1>6. Owners' /\ Unread' /\ Copies'
  BY <1>1, <1>5 DEF IInv, Deliveries, Owners, Unread, Untouched, Copies
<1>7. Waiting'
  BY <1>1, <1>2, <1>3 DEF IInv, Deliveries, Waiting, Untouched
<1>8. \A u \in Tick : tick'[u].at \in Campaign => u # t /\ tick'[u] = tick[u]
  BY <1>2, <1>3, PlacesApart
<1>9. Underway'
  BY <1>1, <1>8 DEF IInv, Deliveries, Underway
<1>10. Tallies'
  <2>1. \A n \in Campaign : Listed(n)' = Listed(n) /\ Reached(n)' = Reached(n)
    BY <1>1 DEF Listed, Reached
  <2>2. ASSUME NEW n \in Campaign, news[n].status = "sent"
        PROVE  Counts(n, news[n].sent, news[n].failed, 0)'
    <3>1. Counts(n, news[n].sent, news[n].failed, 0)
      BY <2>2 DEF IInv, Tallies
    <3> QED
      BY <1>1, <2>1, <3>1 DEF Counts
  <2>3. ASSUME NEW u \in Tick, tick'[u].at \in Campaign
        PROVE  IsFiniteSet(tick'[u].todo)
               /\ Counts(tick[u].at, tick[u].sent, tick[u].failed, Cardinality(tick[u].todo))'
    <3>1. IsFiniteSet(tick[u].todo)
          /\ Counts(tick[u].at, tick[u].sent, tick[u].failed, Cardinality(tick[u].todo))
      BY <1>8, <2>3 DEF IInv, Tallies
    <3> QED
      BY <1>1, <1>8, <2>1, <2>3, <3>1 DEF Counts
  <2> QED
    BY <1>1, <2>2, <2>3 DEF IInv, Tallies
<1> QED
  BY <1>4, <1>6, <1>7, <1>9, <1>10 DEF IInv, Deliveries

\* The list of a campaign has as many entries as rows: no address twice.
LEMMA ListIsOfRows ==
  ASSUME IInv, NEW n
  PROVE  LET L == {<<n, rows[k].email, rows[k].email \in wants>> : k \in Recipients}
         IN  /\ IsFiniteSet(Recipients) /\ IsFiniteSet(L)
             /\ Cardinality(L) = Cardinality(Recipients) /\ Cardinality(Recipients) <= Len(rows)
<1> DEFINE entry(k) == <<n, rows[k].email, rows[k].email \in wants>>
           L == {entry(k) : k \in Recipients}
           f == [k \in Recipients |-> entry(k)]
<1>1. Recipients \in SUBSET (1..Len(rows)) /\ Len(rows) \in Nat
  BY RowsAre DEF IInv, Types, Recipients
<1>2. IsFiniteSet(1..Len(rows)) /\ Cardinality(1..Len(rows)) = Len(rows)
  BY <1>1, FS_Interval
<1>3. IsFiniteSet(Recipients) /\ Cardinality(Recipients) <= Len(rows)
  BY <1>1, <1>2, FS_Subset
<1>4. \A j, k \in Recipients : entry(j) = entry(k) => j = k
  BY DEF IInv, Subscribers, OneOpen, Recipients
<1>5. f \in Bijection(Recipients, L)
  <2>1. f \in [Recipients -> L] /\ \A l \in L : \E k \in Recipients : f[k] = l
    OBVIOUS
  <2>2. \A j, k \in Recipients : f[j] = f[k] => j = k
    BY <1>4
  <2> HIDE DEF f, L
  <2> QED
    BY <2>1, <2>2 DEF Bijection, Injection, Surjection, IsInjective
<1>6. ExistsBijection(Recipients, L)
  BY <1>5 DEF ExistsBijection
<1> HIDE DEF L
<1>7. IsFiniteSet(L) /\ Cardinality(L) = Cardinality(Recipients)
  BY <1>3, <1>6, FS_Bijection
<1> QED
  BY <1>3, <1>7 DEF L

\* The list is read when nobody has received the campaign, and every address on

\* it wants it.
LEMMA ReadListKeeps ==
  ASSUME IInv, NEW t \in Tick, ReadList(t)
  PROVE  IInv'
<1>1. PICK c \in tick[t].queue :
        /\ tick' = [tick EXCEPT ![t] = Begun(c[1], c[2], Recipients, tick[t].queue \ {c})]
        /\ listed' = listed \cup {<<c[1], rows[k].email, rows[k].email \in wants>> : k \in Recipients}
  BY DEF ReadList, Begun
<1>2. /\ UNCHANGED <<rows, asks, links, tokens, wants, news, inbox, edits, faults, stops>>
      /\ tick[t].at = "next"
  BY DEF ReadList, list
<1> DEFINE n == c[1]
           rest == tick[t].queue \ {c}
           run == Begun(n, c[2], Recipients, rest)
           L == {<<n, rows[k].email, rows[k].email \in wants>> : k \in Recipients}
<1>3. /\ c = <<n, c[2]>> /\ n \in Campaign /\ c[2] \in Text /\ c[2] = news[n].text
      /\ tick[t].queue \in SUBSET (Campaign \X Text) /\ rest \in SUBSET (Campaign \X Text)
      /\ Untouched(n) /\ news[n].status = "sending" /\ Owns(t, n)
  <2>1. tick[t].queue \in SUBSET (Campaign \X Text)
    BY DEF IInv, Types, TickType
  <2>2. c[2] = news[n].text /\ Untouched(n) /\ Owns(t, n)
    BY DEF IInv, Deliveries, Waiting, Owns
  <2> QED
    BY <2>1, <2>2 DEF IInv, Deliveries, Owners
<1>4. Recipients \in SUBSET Nat /\ Recipients \subseteq DOMAIN rows
  BY RowsAre DEF IInv, Types, Recipients
<1>5. /\ run \in TickRow /\ run.at = n /\ run.text = c[2] /\ run.todo = Recipients /\ run.queue = rest
      /\ run.sent = 0 /\ run.failed = 0
  BY <1>3, <1>4, TickRows DEF IInv, Places
<1>6. tick' = [tick EXCEPT ![t] = run] /\ listed' = listed \cup L
  BY <1>1
<1>7. \A d \in rest : d[1] \in Campaign /\ d[1] # n
  <2> SUFFICES ASSUME NEW d \in rest PROVE d[1] \in Campaign /\ d[1] # n
    OBVIOUS
  <2>1. d = <<d[1], d[2]>> /\ d[1] \in Campaign /\ d # c /\ d[2] = news[d[1]].text
    BY <1>3 DEF IInv, Deliveries, Waiting
  <2> QED
    BY <1>3, <2>1
<1> HIDE DEF run
<1>8. /\ tick' \in [Tick -> TickRow] /\ tick'[t] = run /\ \A u \in Tick : u # t => tick'[u] = tick[u]
  BY <1>5, <1>6 DEF IInv, Types, TickType, TickRow
<1>9. \A u \in Tick, m \in Campaign : Owns(u, m)' <=> Owns(u, m)
  <2> SUFFICES ASSUME NEW m \in Campaign PROVE Owns(t, m)' <=> Owns(t, m)
    BY <1>8 DEF Owns
  <2>1. Owns(t, m)' <=> m = n \/ \E d \in rest : d[1] = m
    BY <1>5, <1>8 DEF Owns
  <2>2. Owns(t, m) <=> \E d \in tick[t].queue : d[1] = m
    BY <1>2, PlacesApart DEF Owns
  <2> QED
    BY <2>1, <2>2
<1>10. \A m \in Campaign : m # n => Untouched(m)' = Untouched(m) /\ Listed(m)' = Listed(m)
  BY <1>2, <1>6 DEF Untouched, Listed
<1>10a. \A k \in Recipients : (rows[k].email \in wants) = TRUE
  BY DEF IInv, Subscribers, Wanted, Recipients
<1>10b. \A l \in L : \E k \in Recipients : l = <<n, rows[k].email, TRUE>>
  <2> SUFFICES ASSUME NEW k \in Recipients
               PROVE  <<n, rows[k].email, rows[k].email \in wants>> = <<n, rows[k].email, TRUE>>
    OBVIOUS
  <2> QED
    BY <1>10a
<1>11. Types'
  <2>1. ListType' /\ NewsType'
    BY <1>2 DEF IInv, Types, ListType, NewsType
  <2>2. TickType'
    BY <1>2, <1>4, <1>5, <1>8 DEF IInv, Types, TickType, TickRow
  <2>3. \A k \in Recipients : rows[k].email \in Address
    BY <1>4, RowsAre DEF IInv, Types, Row0
  <2> HIDE DEF L, n
  <2>5. L \subseteq Campaign \X Address \X BOOLEAN
    <3> SUFFICES ASSUME NEW l \in L PROVE l \in Campaign \X Address \X BOOLEAN
      OBVIOUS
    <3>1. PICK k \in Recipients : l = <<n, rows[k].email, TRUE>>
      BY <1>10b
    <3>2. n \in Campaign /\ rows[k].email \in Address
      BY <1>3, <2>3
    <3> QED
      BY <3>1, <3>2
  <2>4. MailType'
    BY <1>2, <1>6, <2>5 DEF IInv, Types, MailType
  <2> QED
    BY <2>1, <2>2, <2>4 DEF Types
<1>12. Subscribers'
  <2>1. OneOpen' /\ TokensName' /\ Wanted'
    BY <1>2 DEF IInv, Subscribers, OneOpen, TokensName, Wanted
  <2>2. \A l \in L : l[3]
    <3> SUFFICES ASSUME NEW l \in L PROVE l[3]
      OBVIOUS
    <3>1. PICK k \in Recipients : l = <<n, rows[k].email, TRUE>>
      BY <1>10b
    <3> QED
      BY ONLY <3>1
  <2> HIDE DEF L
  <2>3. ConsentFirst'
    BY <1>6, <2>2 DEF IInv, Subscribers, ConsentFirst
  <2> QED
    BY <2>1, <2>3 DEF Subscribers
<1>13. Owners'
  BY <1>2, <1>9 DEF IInv, Deliveries, Owners
<1>14. Waiting'
  <2> SUFFICES ASSUME NEW u \in Tick, NEW d \in tick'[u].queue
               PROVE  d[1] # tick'[u].at /\ d[2] = news[d[1]].text /\ Untouched(d[1])'
    BY <1>2 DEF Waiting
  <2>1. CASE u = t
    <3>1. d \in rest
      BY <1>5, <1>8, <2>1
    <3>2. d[2] = news[d[1]].text /\ Untouched(d[1])
      BY <3>1 DEF IInv, Deliveries, Waiting
    <3> QED
      BY <1>5, <1>7, <1>8, <1>10, <2>1, <3>1, <3>2
  <2>2. CASE u # t
    <3>1. d \in tick[u].queue /\ d[1] \in Campaign
      BY <1>8, <2>2 DEF IInv, Types, TickType
    <3>2. d[1] # tick[u].at /\ d[2] = news[d[1]].text /\ Untouched(d[1]) /\ Owns(u, d[1])
      BY <3>1 DEF IInv, Deliveries, Waiting, Owns
    <3>3. d[1] # n
      BY <1>3, <2>2, <3>2 DEF IInv, Deliveries, Owners
    <3> QED
      BY <1>8, <1>10, <2>2, <3>1, <3>2, <3>3
  <2> QED
    BY <2>1, <2>2
<1>15. Underway'
  <2> SUFFICES ASSUME NEW u \in Tick, tick'[u].at \in Campaign
               PROVE  /\ tick'[u].text = news[tick'[u].at].text
                      /\ \A k \in tick'[u].todo : inbox[tick'[u].at][rows[k].email] = <<>>
                      /\ \A j, k \in tick'[u].todo : rows[j].email = rows[k].email => j = k
    BY <1>2 DEF Underway
  <2>1. CASE u = t
    <3>1. \A k \in Recipients : rows[k].email \in Address /\ rows[k].state # "gone"
      BY <1>4, RowsAre DEF IInv, Types, Row0, Recipients
    <3>2. \A j, k \in Recipients : rows[j].email = rows[k].email => j = k
      BY <1>4, <3>1 DEF IInv, Subscribers, OneOpen
    <3>3. \A k \in Recipients : inbox[n][rows[k].email] = <<>>
      BY <1>3, <3>1 DEF Untouched
    <3> QED
      BY <1>3, <1>5, <1>8, <2>1, <3>2, <3>3
  <2>2. CASE u # t
    BY <1>8, <2>2 DEF IInv, Deliveries, Underway
  <2> QED
    BY <2>1, <2>2
<1>16. Unread' /\ Copies'
  BY <1>2, <1>3, <1>10 DEF IInv, Deliveries, Unread, Copies
<1>17. Tallies'
  <2>1. \A m \in Campaign : Reached(m)' = Reached(m)
    BY <1>2 DEF Reached
  <2>2. ASSUME NEW m \in Campaign, news[m].status = "sent"
        PROVE  Counts(m, news[m].sent, news[m].failed, 0)'
    <3>1. Counts(m, news[m].sent, news[m].failed, 0)
      BY <2>2 DEF IInv, Tallies
    <3>2. m # n
      BY <1>3, <2>2
    <3> QED
      BY <1>2, <1>10, <2>1, <3>1, <3>2 DEF Counts
  <2>3. ASSUME NEW u \in Tick, u # t, tick[u].at \in Campaign
        PROVE  IsFiniteSet(tick[u].todo)
               /\ Counts(tick[u].at, tick[u].sent, tick[u].failed, Cardinality(tick[u].todo))'
    <3>1. IsFiniteSet(tick[u].todo)
          /\ Counts(tick[u].at, tick[u].sent, tick[u].failed, Cardinality(tick[u].todo))
      BY <2>3 DEF IInv, Tallies
    <3>2. tick[u].at # n /\ tick'[u] = tick[u]
      BY <1>3, <1>8, <2>3 DEF IInv, Deliveries, Owners, Owns
    <3> QED
      BY <1>2, <1>10, <2>1, <2>3, <3>1, <3>2 DEF Counts
  <2>4. IsFiniteSet(run.todo) /\ Counts(n, 0, 0, Cardinality(Recipients))'
    <3>1. Listed(n)' = L
      BY <1>3, <1>6 DEF Listed, Untouched
    <3>2. Reached(n)' = {}
      BY <1>2, <1>3 DEF Reached, Untouched
    <3>3. /\ IsFiniteSet(Recipients) /\ IsFiniteSet(L)
          /\ Cardinality(L) = Cardinality(Recipients) /\ Cardinality(Recipients) <= Len(rows)
      BY ListIsOfRows
    <3>4. IsFiniteSet({}) /\ Cardinality({}) = 0 /\ Cardinality(Recipients) \in Nat
      BY <3>3, FS_EmptySet, FS_CardinalityType
    <3> HIDE DEF L, n
    <3>5. rows' = rows /\ Recipients' = Recipients
      BY <1>2 DEF Recipients
    <3> QED
      BY <1>5, <3>1, <3>2, <3>3, <3>4, <3>5 DEF Counts
  <2>5. \A u \in Tick : tick'[u].at \in Campaign =>
          IsFiniteSet(tick'[u].todo)
          /\ Counts(tick[u].at, tick[u].sent, tick[u].failed, Cardinality(tick[u].todo))'
    <3> SUFFICES ASSUME NEW u \in Tick, tick'[u].at \in Campaign
                 PROVE  IsFiniteSet(tick'[u].todo)
                        /\ Counts(tick[u].at, tick[u].sent, tick[u].failed, Cardinality(tick[u].todo))'
      OBVIOUS
    <3>1. CASE u # t
      <4>1. tick'[u] = tick[u] /\ tick[u].at \in Campaign
        BY <1>8, <3>1
      <4> QED
        BY <2>3, <3>1, <4>1
    <3>2. CASE u = t
      <4>1. tick'[u] = run
        BY <1>8, <3>2
      <4>2. Recipients' = Recipients
        BY <1>2 DEF Recipients
      <4> QED
        BY <1>5, <2>4, <4>1, <4>2 DEF Counts
    <3> QED
      BY <3>1, <3>2
  <2> QED
    BY <1>2, <2>2, <2>5 DEF IInv, Tallies
<1> QED
  BY <1>11, <1>12, <1>13, <1>14, <1>15, <1>16, <1>17 DEF IInv, Deliveries

\* The counts a run writes are those of the list it has gone through.
LEMMA MarkSentKeeps ==
  ASSUME IInv, NEW t \in Tick, MarkSent(t)
  PROVE  IInv'
<1> DEFINE n == tick[t].at
           new == [news[n] EXCEPT !.status = "sent", !.sent = tick[t].sent, !.failed = tick[t].failed]
           rest == tick[t].queue
           run == IF rest = {} THEN Idle ELSE Queued("next", rest)
<1>1. /\ n \in Campaign /\ tick[t].todo = {}
      /\ news' = [news EXCEPT ![n] = new] /\ tick' = [tick EXCEPT ![t] = run]
      /\ UNCHANGED <<rows, asks, links, tokens, wants, inbox, listed, edits, faults, stops>>
  BY DEF MarkSent, Complete, list, Queued
<1>2. /\ rest \in SUBSET (Campaign \X Text) /\ tick[t].sent \in Nat /\ tick[t].failed \in Nat
      /\ Owns(t, n) /\ news[n].status = "sending"
      /\ \A c \in rest : c[1] \in Campaign /\ c[1] # n
  <2>1. Owns(t, n)
    BY DEF Owns
  <2>2. rest \in SUBSET (Campaign \X Text) /\ tick[t].sent \in Nat /\ tick[t].failed \in Nat
    BY DEF IInv, Types, TickType
  <2> QED
    BY <1>1, <2>1, <2>2 DEF IInv, Deliveries, Owners, Waiting
<1>3. /\ run \in TickRow /\ run.at \in {"idle", "next"} /\ run.queue = rest /\ run.todo = {}
  <2> HIDE DEF rest
  <2>1. /\ Queued("next", rest) \in TickRow /\ Queued("next", rest).at = "next"
        /\ Queued("next", rest).queue = rest /\ Queued("next", rest).todo = {}
    <3>1. "next" \in Places /\ NewsAssumption /\ rest \in SUBSET (Campaign \X Text)
      BY <1>2 DEF IInv, Places
    <3> QED
      BY ONLY <3>1, TickRows
  <2>2. Idle \in TickRow /\ Idle.at = "idle" /\ Idle.queue = {} /\ Idle.todo = {}
    BY TickRows DEF IInv
  <2>3. CASE rest = {}
    BY <2>2, <2>3
  <2>4. CASE rest # {}
    BY <2>1, <2>4
  <2> QED
    BY <2>3, <2>4
<1>4. /\ news[n] \in [status : {"absent", "draft", "scheduled", "sending", "sent"},
                      text : Text, due : BOOLEAN, sent : Nat, failed : Nat]
      /\ news[n].text <= edits
  BY <1>1 DEF IInv, Types, NewsType
<1>5. /\ new \in [status : {"absent", "draft", "scheduled", "sending", "sent"},
                  text : Text, due : BOOLEAN, sent : Nat, failed : Nat]
      /\ new.status = "sent" /\ new.text = news[n].text
      /\ new.sent = tick[t].sent /\ new.failed = tick[t].failed
  BY <1>2, <1>4
<1> HIDE DEF new, run
<1>6. /\ news'[n] = new /\ \A m \in Campaign : m # n => news'[m] = news[m]
      /\ \A m \in Campaign : news'[m].text = news[m].text
  BY <1>1, <1>5 DEF IInv, Types, NewsType
<1>7. /\ tick' \in [Tick -> TickRow] /\ tick'[t] = run /\ \A u \in Tick : u # t => tick'[u] = tick[u]
  BY <1>1, <1>3 DEF IInv, Types, TickType, TickRow
<1>8. Types' /\ Subscribers'
  <2>1. ListType' /\ MailType' /\ Subscribers'
    BY <1>1 DEF IInv, Types, ListType, MailType, Subscribers, OneOpen, TokensName, Wanted, ConsentFirst
  <2>2. TickType'
    BY <1>1, <1>3, <1>7 DEF IInv, Types, TickType, TickRow
  <2>3. NewsType'
    <3>1. news' \in [Campaign -> [status : {"absent", "draft", "scheduled", "sending", "sent"},
                                  text : Text, due : BOOLEAN, sent : Nat, failed : Nat]]
      BY <1>1, <1>5 DEF IInv, Types, NewsType
    <3>2. \A m \in Campaign : /\ news'[m].text <= edits'
                              /\ news'[m].due => news'[m].status \notin {"absent", "draft"}
      BY <1>1, <1>4, <1>5, <1>6 DEF IInv, Types, NewsType
    <3> QED
      BY <1>1, <3>1, <3>2 DEF IInv, Types, NewsType
  <2> QED
    BY <2>1, <2>2, <2>3 DEF Types
<1>9. \A u \in Tick, m \in Campaign : Owns(u, m)' => Owns(u, m) /\ m # n
  <2>1. \A m \in Campaign : Owns(t, m)' => Owns(t, m) /\ m # n
    BY <1>2, <1>3, <1>7, PlacesApart DEF Owns
  <2>2. \A u \in Tick, m \in Campaign : u # t /\ Owns(u, m)' => Owns(u, m) /\ m # n
    <3> SUFFICES ASSUME NEW u \in Tick, NEW m \in Campaign, u # t, Owns(u, m)'
                 PROVE  Owns(u, m) /\ m # n
      OBVIOUS
    <3>1. Owns(u, m)
      BY <1>7 DEF Owns
    <3> QED
      BY <1>1, <1>2, <3>1 DEF IInv, Deliveries, Owners
  <2> QED
    BY <2>1, <2>2
<1>10. Owners'
  <2>1. \A u \in Tick, m \in Campaign : Owns(u, m)' => news'[m].status = "sending"
    BY <1>6, <1>9 DEF IInv, Deliveries, Owners
  <2>2. \A u, v \in Tick, m \in Campaign : Owns(u, m)' /\ Owns(v, m)' => u = v
    BY <1>9 DEF IInv, Deliveries, Owners
  <2> QED
    BY <2>1, <2>2 DEF Owners
<1>11. \A m \in Campaign : Untouched(m)' = Untouched(m)
  BY <1>1 DEF Untouched
<1>12. Waiting'
  <2> SUFFICES ASSUME NEW u \in Tick, NEW c \in tick'[u].queue
               PROVE  c[1] # tick'[u].at /\ c[2] = news'[c[1]].text /\ Untouched(c[1])'
    BY DEF Waiting
  <2>1. c \in tick[u].queue /\ (u # t => tick'[u] = tick[u]) /\ (u = t => tick'[u].at \in {"idle", "next"})
    BY <1>3, <1>7
  <2>2. c[1] # tick[u].at /\ c[2] = news[c[1]].text /\ Untouched(c[1])
    BY <2>1 DEF IInv, Deliveries, Waiting
  <2>3. c[1] \in Campaign
    BY <2>1 DEF IInv, Types, TickType
  <2> QED
    BY <1>6, <1>11, <2>1, <2>2, <2>3, PlacesApart
<1>13. \A u \in Tick : tick'[u].at \in Campaign => u # t /\ tick'[u] = tick[u] /\ tick[u].at # n
  <2>1. \A u \in Tick : tick'[u].at \in Campaign => u # t /\ tick'[u] = tick[u]
    BY <1>3, <1>7, PlacesApart
  <2>2. \A u \in Tick : u # t => tick[u].at # n
    BY <1>1, <1>2 DEF IInv, Deliveries, Owners, Owns
  <2> QED
    BY <2>1, <2>2
<1>14. Underway'
  BY <1>1, <1>6, <1>13 DEF IInv, Deliveries, Underway
<1>15. Unread' /\ Copies'
  <2>1. Unread'
    BY <1>5, <1>6, <1>11 DEF IInv, Deliveries, Unread
  <2>2. Copies'
    BY <1>1, <1>6 DEF IInv, Deliveries, Copies
  <2> QED
    BY <2>1, <2>2
<1>16. Tallies'
  <2>1. \A m \in Campaign : Listed(m)' = Listed(m) /\ Reached(m)' = Reached(m)
    BY <1>1 DEF Listed, Reached
  <2>2. ASSUME NEW m \in Campaign, news'[m].status = "sent"
        PROVE  Counts(m, news[m].sent, news[m].failed, 0)'
    <3>1. CASE m = n
      <4>1. Counts(n, tick[t].sent, tick[t].failed, Cardinality(tick[t].todo))
        BY <1>1 DEF IInv, Tallies
      <4>2. Cardinality(tick[t].todo) = 0
        BY <1>1, FS_EmptySet
      <4> HIDE DEF n
      <4> QED
        BY <1>1, <1>5, <1>6, <2>1, <3>1, <4>1, <4>2 DEF Counts
    <3>2. CASE m # n
      <4>1. news'[m] = news[m]
        BY <1>6, <3>2
      <4>2. Counts(m, news[m].sent, news[m].failed, 0)
        BY <2>2, <4>1 DEF IInv, Tallies
      <4> QED
        BY <1>1, <2>1, <4>1, <4>2 DEF Counts
    <3> QED
      BY <3>1, <3>2
  <2>3. ASSUME NEW u \in Tick, tick'[u].at \in Campaign
        PROVE  IsFiniteSet(tick'[u].todo)
               /\ Counts(tick[u].at, tick[u].sent, tick[u].failed, Cardinality(tick[u].todo))'
    <3>1. IsFiniteSet(tick[u].todo)
          /\ Counts(tick[u].at, tick[u].sent, tick[u].failed, Cardinality(tick[u].todo))
      BY <1>13, <2>3 DEF IInv, Tallies
    <3> QED
      BY <1>1, <1>13, <2>1, <2>3, <3>1 DEF Counts
  <2>4. \A m \in Campaign : news'[m].status # "sent" => news'[m].sent = 0 /\ news'[m].failed = 0
    BY <1>5, <1>6 DEF IInv, Tallies
  <2> QED
    BY <2>2, <2>3, <2>4 DEF Tallies
<1> QED
  BY <1>8, <1>10, <1>12, <1>14, <1>15, <1>16 DEF IInv, Deliveries

\* What one e-mail changes of the run.
LEMMA TriedIs ==
  ASSUME NEW run \in TickRow, NEW k, NEW outcome
  PROVE  LET new == Tried(run, k, outcome)
         IN  /\ new \in TickRow /\ new.at = run.at /\ new.queue = run.queue /\ new.text = run.text
             /\ new.todo = run.todo \ {k}
             /\ new.sent = (IF Returns(outcome) THEN run.sent + 1 ELSE run.sent)
             /\ new.failed = (IF Returns(outcome) THEN run.failed ELSE run.failed + 1)
<1> DEFINE s == IF Returns(outcome) THEN run.sent + 1 ELSE run.sent
           e == IF Returns(outcome) THEN run.failed ELSE run.failed + 1
           d == run.todo \ {k}
           new == [run EXCEPT !.todo = d, !.sent = s, !.failed = e]
<1>1. Tried(run, k, outcome) = new
  BY DEF Tried
<1>2. s \in Nat /\ e \in Nat /\ d \in SUBSET Nat
  BY DEF TickRow
<1> HIDE DEF s, e, d
<1>3. /\ new \in TickRow /\ new.at = run.at /\ new.queue = run.queue /\ new.text = run.text
      /\ new.todo = d /\ new.sent = s /\ new.failed = e
  BY <1>2 DEF TickRow
<1> HIDE DEF new
<1> QED
  BY <1>1, <1>3 DEF s, e, d

\* One e-mail of a run: the address has not received the campaign, and is off

\* what is left of the list whatever becomes of the message.
LEMMA SendKeeps ==
  ASSUME IInv, NEW t \in Tick, NEW outcome \in Outcomes, Send(t, outcome)
  PROVE  IInv'
<1>0. tick[t] \in TickRow /\ tick[t].todo \subseteq DOMAIN rows
  BY DEF IInv, Types, TickType, TickRow
<1>1. PICK n \in Campaign, k \in DOMAIN rows, a \in Address, reached \in BOOLEAN :
        /\ n = tick[t].at /\ k = Min(tick[t].todo) /\ k \in tick[t].todo /\ a = rows[k].email
        /\ reached = (rows[k].reached \/ Delivered(outcome))
  <2>1. tick[t].at \in Campaign /\ tick[t].todo # {}
    BY DEF Send
  <2>2. tick[t].todo \subseteq Nat /\ tick[t].todo \subseteq DOMAIN rows
    BY DEF IInv, Types, TickType
  <2>3. Min(tick[t].todo) \in tick[t].todo
    BY <2>1, <2>2, LeastOfSet
  <2>4. rows[Min(tick[t].todo)].email \in Address
    BY <2>2, <2>3, RowsAre DEF IInv, Types, Row0
  <2>5. (rows[Min(tick[t].todo)].reached \/ Delivered(outcome)) \in BOOLEAN
    OBVIOUS
  <2> QED
    BY <2>1, <2>2, <2>3, <2>4, <2>5
<1>2. /\ inbox' = IF Delivered(outcome) THEN [inbox EXCEPT ![n][a] = Append(@, tick[t].text)] ELSE inbox
      /\ tick' = [tick EXCEPT ![t] = Tried(tick[t], k, outcome)]
      /\ UNCHANGED <<asks, links, tokens, wants, news, listed, edits, stops>>
  BY <1>1 DEF Send
<1>3. rows' = [rows EXCEPT ![k].reached = reached]
  BY <1>1 DEF Send
<1>4. faults' \in 0..MaxFaults
  BY MaxAsksType DEF Send, Mailing, IInv, Types, TickType
<1>5. RowChanged(k, [rows[k] EXCEPT !.reached = reached]) /\ rows'[k].state = rows[k].state
  BY <1>1, <1>3, ReachedRow DEF IInv, Types
<1>6. /\ ListType' /\ TokensName' /\ Len(rows') \in Nat /\ DOMAIN rows' = 1..Len(rows')
      /\ \A j \in DOMAIN rows : rows'[j].email = rows[j].email
  <2>1. wants' \subseteq Address
    BY <1>1, <1>2, <1>4 DEF IInv, Types, ListType
  <2> QED
    BY <1>1, <1>2, <1>4, <1>5, <2>1, ChangedList
<1>7. \A j \in DOMAIN rows' : /\ j \in DOMAIN rows
                              /\ rows'[j].email = rows[j].email /\ rows'[j].state = rows[j].state
  BY <1>5, <1>6 DEF RowChanged
<1>8. PICK run \in TickRow :
        /\ tick' = [tick EXCEPT ![t] = run]
        /\ run.at = n /\ run.queue = tick[t].queue /\ run.text = tick[t].text
        /\ run.todo = tick[t].todo \ {k}
        /\ run.sent = (IF Returns(outcome) THEN tick[t].sent + 1 ELSE tick[t].sent)
        /\ run.failed = (IF Returns(outcome) THEN tick[t].failed ELSE tick[t].failed + 1)
  <2> DEFINE new == Tried(tick[t], k, outcome)
  <2>1. tick' = [tick EXCEPT ![t] = new]
    BY <1>2
  <2>2. /\ new \in TickRow /\ new.at = tick[t].at /\ new.queue = tick[t].queue /\ new.text = tick[t].text
        /\ new.todo = tick[t].todo \ {k}
        /\ new.sent = (IF Returns(outcome) THEN tick[t].sent + 1 ELSE tick[t].sent)
        /\ new.failed = (IF Returns(outcome) THEN tick[t].failed ELSE tick[t].failed + 1)
    BY <1>0, TriedIs
  <2> HIDE DEF new
  <2> QED
    BY <1>1, <2>1, <2>2
<1>9. /\ tick' \in [Tick -> TickRow] /\ tick'[t] = run /\ \A u \in Tick : u # t => tick'[u] = tick[u]
  BY <1>1, <1>2, <1>4, <1>8 DEF IInv, Types, TickType, TickRow
<1>10. /\ tick[t].text = news[n].text /\ tick[t].text \in Text /\ Owns(t, n) /\ news[n].status = "sending"
       /\ inbox[n][a] = <<>>
  <2>1. Owns(t, n)
    BY <1>1 DEF Owns
  <2>2. tick[t].text \in Text
    BY <1>0 DEF TickRow
  <2> QED
    BY <1>1, <1>2, <1>4, <2>1, <2>2 DEF IInv, Deliveries, Owners, Underway
<1>11. /\ inbox' \in [Campaign -> [Address -> Seq(Text)]]
       /\ \A m \in Campaign, b \in Address : m # n \/ b # a => inbox'[m][b] = inbox[m][b]
       /\ inbox'[n][a] = IF Delivered(outcome) THEN <<news[n].text>> ELSE <<>>
  <2>1. inbox \in [Campaign -> [Address -> Seq(Text)]]
    BY  DEF IInv, Types, MailType
  <2>2. Append(inbox[n][a], tick[t].text) = <<news[n].text>> /\ <<news[n].text>> \in Seq(Text)
    BY <1>10
  <2>3. CASE Delivered(outcome)
    <3>1. inbox' = [inbox EXCEPT ![n][a] = <<news[n].text>>]
      BY <1>1, <1>2, <1>4, <2>2, <2>3
    <3> QED
      BY <1>1, <1>2, <1>4, <2>1, <2>2, <2>3, <3>1
  <2>4. CASE ~Delivered(outcome)
    BY <1>1, <1>2, <1>4, <1>10, <2>1, <2>4
  <2> QED
    BY <2>3, <2>4
<1>12. \A m \in Campaign : m # n => Untouched(m)' = Untouched(m) /\ Reached(m)' = Reached(m)
  BY <1>1, <1>2, <1>4, <1>11 DEF Untouched, Reached
<1>13. Types'
  <2>1. NewsType' /\ MailType'
    BY <1>1, <1>2, <1>4, <1>11 DEF IInv, Types, NewsType, MailType
  <2>2. DOMAIN rows' = DOMAIN rows
    BY <1>5 DEF RowChanged
  <2>3. \A u \in Tick : tick'[u].todo \subseteq DOMAIN rows'
    BY <1>0, <1>8, <1>9, <2>2 DEF IInv, Types, TickType
  <2>4. TickType'
    BY <1>1, <1>2, <1>4, <1>9, <2>3 DEF IInv, Types, TickType, TickRow
  <2> QED
    BY <1>6, <2>1, <2>4 DEF Types
<1>14. Subscribers'
  <2>1. OneOpen'
    BY <1>7 DEF IInv, Subscribers, OneOpen
  <2>2. Wanted'
    BY <1>1, <1>2, <1>4, <1>7 DEF IInv, Subscribers, Wanted
  <2>3. ConsentFirst'
    BY <1>1, <1>2, <1>4 DEF IInv, Subscribers, ConsentFirst
  <2> QED
    BY <1>6, <2>1, <2>2, <2>3 DEF Subscribers
<1>15. \A u \in Tick, m \in Campaign : Owns(u, m)' <=> Owns(u, m)
  BY <1>1, <1>8, <1>9 DEF Owns
<1>16. Owners'
  BY <1>1, <1>2, <1>4, <1>15 DEF IInv, Deliveries, Owners
<1>17. Waiting'
  <2> SUFFICES ASSUME NEW u \in Tick, NEW c \in tick'[u].queue
               PROVE  c[1] # tick'[u].at /\ c[2] = news[c[1]].text /\ Untouched(c[1])'
    BY <1>1, <1>2, <1>4 DEF Waiting
  <2>1. c \in tick[u].queue /\ tick'[u].at = tick[u].at
    BY <1>1, <1>8, <1>9
  <2>2. c[1] # tick[u].at /\ c[2] = news[c[1]].text /\ Untouched(c[1])
    BY <2>1 DEF IInv, Deliveries, Waiting
  <2>3. c[1] \in Campaign
    BY <2>1 DEF IInv, Types, TickType
  <2>4. c[1] # n
    <3>1. Owns(u, c[1]) /\ tick[t].at = n
      BY <1>1, <2>1 DEF Owns
    <3>2. u = t => c[1] # n
      BY <2>2, <3>1
    <3> QED
      BY <1>10, <2>3, <3>1, <3>2 DEF IInv, Deliveries, Owners
  <2> QED
    BY <1>12, <2>1, <2>2, <2>3, <2>4
<1>18. Underway'
  <2> SUFFICES ASSUME NEW u \in Tick, tick'[u].at \in Campaign
               PROVE  /\ tick'[u].text = news[tick'[u].at].text
                      /\ \A j \in tick'[u].todo : inbox'[tick'[u].at][rows'[j].email] = <<>>
                      /\ \A i, j \in tick'[u].todo : rows'[i].email = rows'[j].email => i = j
    BY <1>1, <1>2, <1>4 DEF Underway
  <2>1. /\ tick'[u].at = tick[u].at /\ tick'[u].text = tick[u].text /\ tick'[u].todo \subseteq tick[u].todo
        /\ (u = t => k \notin tick'[u].todo)
    BY <1>1, <1>8, <1>9
  <2>2. /\ tick[u].text = news[tick[u].at].text
        /\ \A j \in tick[u].todo : inbox[tick[u].at][rows[j].email] = <<>>
        /\ \A i, j \in tick[u].todo : rows[i].email = rows[j].email => i = j
    BY <2>1 DEF IInv, Deliveries, Underway
  <2>3. \A j \in tick[u].todo : j \in DOMAIN rows /\ rows'[j].email = rows[j].email /\ rows[j].email \in Address
    BY <1>6, RowsAre DEF IInv, Types, TickType, Row0
  <2>4. ASSUME NEW j \in tick'[u].todo
        PROVE  inbox'[tick[u].at][rows'[j].email] = <<>>
    <3>1. tick[u].at # n \/ rows[j].email # a
      <4>1. CASE u = t
        BY <1>1, <2>1, <2>2, <2>4, <4>1
      <4>2. CASE u # t
        BY <1>1, <1>2, <1>4, <1>10, <2>1, <4>2 DEF IInv, Deliveries, Owners, Owns
      <4> QED
        BY <4>1, <4>2
    <3>2. j \in tick[u].todo /\ tick[u].at \in Campaign
      BY <2>1
    <3>3. rows'[j].email = rows[j].email /\ rows[j].email \in Address
          /\ inbox[tick[u].at][rows[j].email] = <<>>
      BY <2>2, <2>3, <3>2
    <3>4. inbox'[tick[u].at][rows[j].email] = inbox[tick[u].at][rows[j].email]
      BY <1>11, <3>1, <3>2, <3>3
    <3> QED
      BY <3>3, <3>4
  <2> QED
    BY <2>1, <2>2, <2>3, <2>4
<1>19. Unread' /\ Copies'
  <2>1. Unread'
    BY <1>1, <1>2, <1>4, <1>10, <1>12 DEF IInv, Deliveries, Unread
  <2>2. Copies'
    BY <1>1, <1>2, <1>4, <1>11 DEF IInv, Deliveries, Copies
  <2> QED
    BY <2>1, <2>2
<1>20. Tallies'
  <2>1. (\A m \in Campaign : Listed(m)' = Listed(m)) /\ Len(rows') = Len(rows)
    BY <1>1, <1>2, <1>4, <1>5 DEF Listed, RowChanged
  <2>2. ASSUME NEW m \in Campaign, news[m].status = "sent"
        PROVE  Counts(m, news[m].sent, news[m].failed, 0)'
    <3>1. Counts(m, news[m].sent, news[m].failed, 0)
      BY <2>2 DEF IInv, Tallies
    <3>2. m # n
      BY <1>10, <2>2
    <3> QED
      BY <1>1, <1>2, <1>4, <1>12, <2>1, <3>1, <3>2 DEF Counts
  <2>3. ASSUME NEW u \in Tick, u # t, tick[u].at \in Campaign
        PROVE  IsFiniteSet(tick'[u].todo)
               /\ Counts(tick[u].at, tick[u].sent, tick[u].failed, Cardinality(tick[u].todo))'
    <3>1. IsFiniteSet(tick[u].todo)
          /\ Counts(tick[u].at, tick[u].sent, tick[u].failed, Cardinality(tick[u].todo))
      BY <2>3 DEF IInv, Tallies
    <3>2. tick[u].at # n /\ tick'[u] = tick[u]
      BY <1>9, <1>10, <2>3 DEF IInv, Deliveries, Owners, Owns
    <3> QED
      BY <1>12, <2>1, <2>3, <3>1, <3>2 DEF Counts
  <2>4. IsFiniteSet(run.todo) /\ Counts(n, run.sent, run.failed, Cardinality(run.todo))'
    <3> DEFINE s == tick[t].sent
               f == tick[t].failed
               left == Cardinality(tick[t].todo)
    <3>1. IsFiniteSet(tick[t].todo) /\ Counts(n, s, f, left)
      BY <1>1, <1>2, <1>4 DEF IInv, Tallies
    <3>2. /\ IsFiniteSet(run.todo) /\ Cardinality(run.todo) = left - 1
          /\ left \in Nat /\ Cardinality(run.todo) \in Nat
      BY <1>1, <1>8, <3>1, FS_RemoveElement, FS_CardinalityType
    <3>3. Reached(n)' = IF Delivered(outcome) THEN Reached(n) \cup {a} ELSE Reached(n)
      <4>1. \A b \in Address : b # a => (inbox'[n][b] # <<>> <=> inbox[n][b] # <<>>)
        BY <1>1, <1>2, <1>4, <1>11
      <4>2. inbox'[n][a] # <<>> <=> Delivered(outcome)
        BY <1>11
      <4>3. inbox[n][a] = <<>> /\ a \in Address /\ n' = n
        BY <1>1, <1>8, <1>9, <1>10
      <4>4. Reached(n)' = {b \in Address : inbox'[n][b] # <<>>}
        BY <4>3 DEF Reached
      <4> QED
        BY <4>1, <4>2, <4>3, <4>4 DEF Reached
    <3>4. a \notin Reached(n)
      BY <1>10 DEF Reached
    <3>5. /\ IsFiniteSet(Reached(n)') /\ Cardinality(Reached(n)) \in Nat
          /\ Cardinality(Reached(n)') = Cardinality(Reached(n)) + (IF Delivered(outcome) THEN 1 ELSE 0)
      <4>1. IsFiniteSet(Reached(n))
        BY <3>1 DEF Counts
      <4>2. /\ IsFiniteSet(Reached(n) \cup {a}) /\ Cardinality(Reached(n)) \in Nat
            /\ Cardinality(Reached(n) \cup {a}) = Cardinality(Reached(n)) + 1
        BY <3>4, <4>1, FS_AddElement, FS_CardinalityType
      <4> QED
        BY <3>3, <4>1, <4>2
    <3>6. s \in Nat /\ f \in Nat /\ Cardinality(Listed(n)) \in Nat /\ Len(rows) \in Nat
      <4>1. IsFiniteSet(Listed(n))
        BY <3>1 DEF Counts
      <4> QED
        BY <1>0, <4>1, RowsAre, FS_CardinalityType DEF TickRow, IInv, Types
    <3>7. n' = n
      BY <1>1, <1>8, <1>9
    <3>8. /\ s + f + left = Cardinality(Listed(n)) /\ s <= Cardinality(Reached(n))
          /\ Cardinality(Reached(n)) <= s + f /\ Cardinality(Listed(n)) <= Len(rows)
          /\ IsFiniteSet(Listed(n))
      BY <3>1 DEF Counts
    <3>9. /\ run.sent \in Nat /\ run.failed \in Nat /\ run.sent + run.failed = s + f + 1
          /\ run.sent = s + (IF Returns(outcome) THEN 1 ELSE 0)
      <4>1. CASE Returns(outcome)
        <5>1. run.sent = s + 1 /\ run.failed = f
          BY <1>8, <4>1
        <5> HIDE DEF s, f
        <5>2. run.sent \in Nat /\ run.failed \in Nat /\ run.sent + run.failed = s + f + 1
          BY ONLY <3>6, <5>1
        <5> QED
          BY <4>1, <5>1, <5>2
      <4>2. CASE ~Returns(outcome)
        BY <1>8, <3>6, <4>2
      <4> QED
        BY <4>1, <4>2
    <3>10. Returns(outcome) => Delivered(outcome)
      BY DEF Returns, Delivered
    <3> HIDE DEF s, f, left
    <3>11. /\ run.sent + run.failed + Cardinality(run.todo) = Cardinality(Listed(n))
           /\ run.sent <= Cardinality(Reached(n)') /\ Cardinality(Reached(n)') <= run.sent + run.failed
      BY <3>2, <3>5, <3>6, <3>8, <3>9, <3>10
    <3> QED
      BY <2>1, <3>2, <3>5, <3>8, <3>11 DEF Counts
  <2>5. \A u \in Tick : tick'[u].at \in Campaign =>
          IsFiniteSet(tick'[u].todo)
          /\ Counts(tick[u].at, tick[u].sent, tick[u].failed, Cardinality(tick[u].todo))'
    <3> SUFFICES ASSUME NEW u \in Tick, tick'[u].at \in Campaign
                 PROVE  IsFiniteSet(tick'[u].todo)
                        /\ Counts(tick[u].at, tick[u].sent, tick[u].failed, Cardinality(tick[u].todo))'
      OBVIOUS
    <3>1. CASE u # t
      BY <1>9, <2>3, <3>1
    <3>2. CASE u = t
      <4>1. tick'[u] = run
        BY <1>9, <3>2
      <4> QED
        BY <1>8, <2>4, <4>1 DEF Counts
    <3> QED
      BY <3>1, <3>2
  <2> QED
    BY <1>1, <1>2, <1>4, <2>2, <2>5 DEF IInv, Tallies
<1> QED
  BY <1>13, <1>14, <1>16, <1>17, <1>18, <1>19, <1>20 DEF IInv, Deliveries
---------------------------------------------------------------------------
(* The invariant holds. *)

\* At the start each reader has one confirmed row, and nothing has been sent.
LEMMA NewsInit == NewsAssumption /\ Init => IInv
<1> SUFFICES ASSUME NewsAssumption, Init PROVE IInv
  OBVIOUS
<1>1. PICK s \in SetToSeqs(Readers) : rows = [k \in DOMAIN s |-> FirstRow(s[k])]
  BY DEF Init
<1> DEFINE N == Cardinality(Readers)
<1>2. N \in Nat /\ Readers \subseteq Address
  BY FS_CardinalityType DEF NewsAssumption
<1>3. s \in [1..N -> Readers] /\ \A i, j \in 1..N : s[i] = s[j] => i = j
  BY DEF SetToSeqs, IsInjective
<1>4. \A b \in Address : FirstRow(b) \in Row0 /\ FirstRow(b).email = b /\ FirstRow(b).token = 0
                         /\ FirstRow(b).state = "confirmed"
  BY DEF FirstRow, Row0, NewsAssumption
<1>5. DOMAIN rows = 1..N /\ \A k \in 1..N : rows[k] = FirstRow(s[k]) /\ s[k] \in Address
  BY <1>1, <1>2, <1>3
<1>6. rows \in Seq(Row0) /\ Len(rows) = N
  <2> HIDE DEF N
  <2>1. rows = [k \in 1..N |-> rows[k]] /\ \A k \in 1..N : rows[k] \in Row0
    BY <1>1, <1>3, <1>4, <1>5
  <2> QED
    BY <1>2, <2>1
<1> HIDE DEF N
<1>7. /\ asks = {} /\ links = {} /\ tokens = 0 /\ wants = Readers
      /\ news = [n \in Campaign |-> NoNews] /\ tick = [t \in Tick |-> Idle]
      /\ inbox = [n \in Campaign |-> [b \in Address |-> <<>>]]
      /\ listed = {} /\ edits = 0 /\ faults = 0 /\ stops = 0
      /\ IsFiniteSet({}) /\ Cardinality({}) = 0
  BY FS_EmptySet DEF Init
<1>8. {MaxAsks, MaxEdits, MaxFaults, MaxStops} \subseteq Nat
  BY DEF NewsAssumption
<1>9. /\ \A n \in Campaign : news[n] = NoNews
      /\ \A t \in Tick : tick[t] = Idle
      /\ \A n \in Campaign, b \in Address : inbox[n][b] = <<>>
  BY <1>7
<1>10. Idle \in TickRow /\ Idle.at = "idle" /\ Idle.queue = {} /\ Idle.todo = {}
       /\ "idle" \notin Campaign
  BY TickRows DEF NewsAssumption
<1>11. ListType
  BY <1>2, <1>6, <1>7, <1>8 DEF ListType
<1>12. NewsType
  <2>1. /\ NoNews \in [status : {"absent", "draft", "scheduled", "sending", "sent"},
                       text : Text, due : BOOLEAN, sent : Nat, failed : Nat]
        /\ NoNews.text = 0 /\ NoNews.due = FALSE
    BY <1>8 DEF NoNews, Text
  <2> QED
    BY <1>7, <1>8, <2>1 DEF NewsType
<1>13. TickType
  <2>1. tick \in [Tick -> TickRow]
    BY <1>7, <1>10
  <2> QED
    BY <1>7, <1>8, <1>9, <1>10, <2>1 DEF TickType, TickRow
<1>14. MailType
  BY <1>7 DEF MailType
<1>15. Subscribers
  <2>1. OneOpen
    BY <1>3, <1>4, <1>5 DEF OneOpen
  <2>2. TokensName
    BY <1>4, <1>5, <1>7 DEF TokensName
  <2>3. Wanted
    BY <1>3, <1>4, <1>5, <1>7 DEF Wanted
  <2>4. ConsentFirst
    BY <1>7 DEF ConsentFirst
  <2> QED
    BY <2>1, <2>2, <2>3, <2>4 DEF Subscribers
<1>16. NoNews.status = "absent" /\ NoNews.sent = 0 /\ NoNews.failed = 0
  BY DEF NoNews
<1>17. \A t \in Tick, n \in Campaign : ~Owns(t, n)
  BY <1>9, <1>10 DEF Owns
<1>18. Deliveries
  <2>1. Owners /\ Waiting /\ Underway
    BY <1>9, <1>10, <1>17 DEF Owners, Waiting, Underway
  <2>2. Unread /\ Copies
    BY <1>7, <1>9 DEF Unread, Untouched, Copies
  <2> QED
    BY <2>1, <2>2 DEF Deliveries
<1>19. Tallies
  BY <1>9, <1>10, <1>16 DEF Tallies
<1> QED
  BY <1>11, <1>12, <1>13, <1>14, <1>15, <1>18, <1>19 DEF IInv, Types

\* Every step keeps it.
LEMMA NewsNext == IInv /\ [Next]_vars => IInv'
<1> SUFFICES ASSUME IInv, [Next]_vars PROVE IInv'
  OBVIOUS
<1>1. ASSUME NEW a \in Address, Ask(a) PROVE IInv'
  BY <1>1, AskKeeps
<1>2. ASSUME NEW q \in asks, Refuse(q) PROVE IInv'
  BY <1>2, RefuseKeeps
<1>3. ASSUME NEW q \in asks, NEW o \in Outcomes, Answer(q, o) PROVE IInv'
  BY <1>3, AnswerKeeps
<1>4. ASSUME NEW link \in links, Confirm(link) PROVE IInv'
  BY <1>4, ConfirmKeeps
<1>5. ASSUME NEW k \in DOMAIN rows, Unsubscribe(k) PROVE IInv'
  BY <1>5, UnsubscribeKeeps
<1>6. ASSUME NEW n \in Campaign,
             Draft(n) \/ Edit(n) \/ TimeComes(n) \/ Cancel(n) \/ \E now \in BOOLEAN : Schedule(n, now)
      PROVE  IInv'
  BY <1>6, EditorKeeps
<1>7. ASSUME NEW n \in Campaign, NEW o \in Outcomes, TestMail(n, o) PROVE IInv'
  BY <1>7, TestMailKeeps
<1>8. ASSUME NEW t \in Tick, Claim(t) PROVE IInv'
  BY <1>8, ClaimKeeps
<1>9. ASSUME NEW t \in Tick, ReadList(t) PROVE IInv'
  BY <1>9, ReadListKeeps
<1>10. ASSUME NEW t \in Tick, NEW o \in Outcomes, Send(t, o) PROVE IInv'
  BY <1>10, SendKeeps
<1>11. ASSUME NEW t \in Tick, MarkSent(t) PROVE IInv'
  BY <1>11, MarkSentKeeps
<1>12. ASSUME NEW t \in Tick, Stop(t) PROVE IInv'
  BY <1>12, StopKeeps
<1>13. CASE UNCHANGED vars
  <2>1. UNCHANGED <<list, news, sending, edits, faults, stops>> /\ rows' = rows
    BY <1>13 DEF vars, list
  <2>2. ListType' /\ OneOpen' /\ TokensName' /\ Wanted'
    BY <2>1 DEF list, IInv, Types, ListType, Subscribers, OneOpen, TokensName, Wanted
  <2>3. faults' \in 0..MaxFaults
    BY <2>1 DEF IInv, Types, TickType
  <2>4. NewsType' /\ TickType' /\ MailType' /\ Deliveries' /\ Tallies' /\ ConsentFirst'
    BY <2>1, <2>3, ListStep, RowsAre DEF IInv, Types
  <2> QED
    BY <2>2, <2>4 DEF IInv, Types, Subscribers
<1> QED
  BY <1>1, <1>2, <1>3, <1>4, <1>5, <1>6, <1>7, <1>8, <1>9, <1>10, <1>11, <1>12, <1>13 DEF Next, Run

\* In every state that is reached.
THEOREM NewslettersInvariant == NewsAssumption /\ Spec => []IInv
<1>1. NewsAssumption /\ Init => IInv
  BY NewsInit
<1>2. IInv /\ [Next]_vars => IInv'
  BY NewsNext
<1> QED
  BY <1>1, <1>2, PTL DEF Spec
---------------------------------------------------------------------------
(* What a reader, an editor and the counts rely on. *)

\* The variables have their types; the counts of a campaign are within the
\* number of subscribers.
THEOREM TypeCorrect == NewsAssumption /\ Spec => []TypeOK
<1>1. IInv => TypeOK
  <2> SUFFICES ASSUME IInv PROVE TypeOK
    OBVIOUS
  <2>1. /\ \A k \in DOMAIN rows : rows[k] \in Row0 /\ rows[k].token \in 0..tokens
        /\ {MaxAsks, MaxEdits, MaxFaults, MaxStops} \subseteq Nat /\ Len(rows) \in Nat
    <3>1. \A k \in DOMAIN rows : rows[k].token \in Nat
      BY RowsAre, MaxAsksType DEF IInv, Types, Row0
    <3> QED
      BY <3>1, RowsAre, MaxAsksType DEF IInv, Types, ListType, Subscribers, TokensName
  <2>2. tokens \in 0..MaxAsks
    <3>1. Cardinality(asks) \in Nat
      BY FS_CardinalityType DEF IInv, Types, ListType
    <3> QED
      BY <2>1, <3>1 DEF IInv, Types, ListType
  <2>3. \A n \in Campaign : news[n].sent + news[n].failed <= Len(rows)
    <3> SUFFICES ASSUME NEW n \in Campaign PROVE news[n].sent + news[n].failed <= Len(rows)
      OBVIOUS
    <3>1. CASE news[n].status # "sent"
      BY <2>1, <3>1 DEF IInv, Tallies
    <3>2. CASE news[n].status = "sent"
      <4>1. Counts(n, news[n].sent, news[n].failed, 0)
        BY <3>2 DEF IInv, Tallies
      <4>2. news[n].sent \in Nat /\ news[n].failed \in Nat
        BY DEF IInv, Types, NewsType
      <4>3. Cardinality(Listed(n)) \in Nat
        BY <4>1, FS_CardinalityType DEF Counts
      <4> QED
        BY <2>1, <4>1, <4>2, <4>3 DEF Counts
    <3> QED
      BY <3>1, <3>2
  <2>4. \A n \in Campaign :
          /\ news[n].status \in {"absent", "draft", "scheduled", "sending", "sent"}
          /\ (news[n].due => news[n].status \notin {"absent", "draft"})
          /\ news[n].text \in 0..MaxEdits
    BY DEF IInv, Types, NewsType, Text
  <2>5. \A t \in Tick : /\ tick[t].at \in Campaign \cup {"idle", "next"}
                        /\ tick[t].todo \subseteq DOMAIN rows /\ tick[t].queue \subseteq Campaign \X (0..MaxEdits)
    BY DEF IInv, Types, TickType, Text, Places
  <2>6. /\ listed \subseteq Campaign \X Address \X BOOLEAN
        /\ edits \in 0..MaxEdits /\ faults \in 0..MaxFaults /\ stops \in 0..MaxStops
        /\ \A q \in asks : q.email \in Address /\ q.row \in 0..Len(rows)
        /\ links \subseteq Address \X (1..tokens) /\ wants \subseteq Address
    BY DEF IInv, Types, ListType, NewsType, TickType, MailType
  <2>7. \A k \in DOMAIN rows : rows[k].token \in 0..tokens /\ rows[k].reached \in BOOLEAN
       /\ rows[k].email \in Address /\ rows[k].state \in {"asked", "confirmed", "gone"}
    BY <2>1 DEF Row0
  <2> QED
    BY <2>2, <2>3, <2>4, <2>5, <2>6, <2>7 DEF TypeOK
<1> QED
  BY <1>1, NewslettersInvariant, PTL

\* However many runs overlap, and wherever they are cut short, no address
\* receives a newsletter twice.
THEOREM OneCopyEach == NewsAssumption /\ Spec => []AtMostOnce
<1>1. IInv => AtMostOnce
  <2> SUFFICES ASSUME IInv, NEW n \in Campaign, NEW a \in Address PROVE Len(inbox[n][a]) <= 1
    BY DEF AtMostOnce
  <2>1. CASE inbox[n][a] = <<>>
    BY <2>1
  <2>2. CASE inbox[n][a] = <<news[n].text>>
    BY <2>2
  <2> QED
    BY <2>1, <2>2 DEF IInv, Deliveries, Copies
<1> QED
  BY <1>1, NewslettersInvariant, PTL

\* Every copy that went out is the text the newsletter shows.
THEOREM CopiesAreTheText == NewsAssumption /\ Spec => []FrozenText
<1>1. IInv => FrozenText
  <2> SUFFICES ASSUME IInv, NEW n \in Campaign, NEW a \in Address, NEW i \in DOMAIN inbox[n][a]
               PROVE  inbox[n][a][i] = news[n].text
    BY DEF FrozenText
  <2>1. CASE inbox[n][a] = <<>>
    BY <2>1
  <2>2. CASE inbox[n][a] = <<news[n].text>>
    BY <2>2
  <2> QED
    BY <2>1, <2>2 DEF IInv, Deliveries, Copies
<1> QED
  BY <1>1, NewslettersInvariant, PTL

\* What can still be edited, rescheduled or cancelled has reached nobody.
THEOREM DraftsAreUnread == NewsAssumption /\ Spec => []DraftIsUnread
<1>1. IInv => DraftIsUnread
  BY DEF IInv, Deliveries, Unread, Untouched, DraftIsUnread
<1> QED
  BY <1>1, NewslettersInvariant, PTL

\* Only addresses whose last click was a confirmation are listed, and an address
\* has one open row.
THEOREM ConsentIsFirst == NewsAssumption /\ Spec => [](ConsentFirst /\ OneOpenRow)
<1>1. IInv => ConsentFirst
  BY DEF IInv, Subscribers
<1>2. IInv => OneOpenRow
  <2> SUFFICES ASSUME IInv, NEW a \in Address PROVE Cardinality(OpenRows(a)) <= 1
    BY DEF OneOpenRow
  <2>1. \A j, k \in OpenRows(a) : j = k
    BY DEF IInv, Subscribers, OneOpen, OpenRows
  <2>2. OpenRows(a) = {} \/ \E k : OpenRows(a) = {k}
    BY <2>1
  <2> QED
    BY <2>2, FS_EmptySet, FS_Singleton
<1> QED
  BY <1>1, <1>2, NewslettersInvariant, PTL

\* The counts of a newsletter marked sent add up to its list, and bracket what
\* arrived.
THEOREM CountsAreWhole == NewsAssumption /\ Spec => []SentIsWhole
<1>1. IInv => SentIsWhole
  <2> SUFFICES ASSUME IInv, NEW n \in Campaign, news[n].status = "sent"
               PROVE  /\ news[n].sent + news[n].failed = Cardinality(Listed(n))
                      /\ news[n].sent <= Cardinality(Reached(n))
                      /\ Cardinality(Reached(n)) <= news[n].sent + news[n].failed
    BY DEF SentIsWhole, Listed, Reached
  <2>1. Counts(n, news[n].sent, news[n].failed, 0)
    BY DEF IInv, Tallies
  <2>2. news[n].sent \in Nat /\ news[n].failed \in Nat
    BY DEF IInv, Types, NewsType
  <2> QED
    BY <2>1, <2>2 DEF Counts
<1> QED
  BY <1>1, NewslettersInvariant, PTL

\* All of it in every state that is reached: what the run checks on a few
\* addresses, for any number of addresses, newsletters, overlapping runs, edits,
\* failing sends and runs cut short.
THEOREM NewslettersAlwaysWhole == NewsAssumption /\ Spec => []NewslettersWhole
BY OneCopyEach, CopiesAreTheText, DraftsAreUnread, ConsentIsFirst, CountsAreWhole, PTL
   DEF NewslettersWhole
=============================================================================
