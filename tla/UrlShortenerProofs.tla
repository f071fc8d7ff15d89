------------------------- MODULE UrlShortenerProofs -------------------------
(***************************************************************************)
(* Proofs about url_shortener, for any number of codes and requests, any   *)
(* TTLs and any bound on the attempts and the clock.                       *)
(***************************************************************************)
EXTENDS UrlShortener, TLAPS

-----------------------------------------------------------------------------
(* Type correctness.                                                       *)

LEMMA TypeInit == Init => TypeOK
    BY CodeAssumption, TimeAssumption, AttemptAssumption
    DEF Init, TypeOK, Expiry, Response, shortenVars

LEMMA ShortenType ==
    ASSUME TypeOK, NEW r \in Shortens, ShortenStep(r)
    PROVE  TypeOK'
<1> USE DEF TypeOK, Requests, Response, Goto, Fail, Commit, Committed, shortenVars
<1>1. CASE BeginShorten(r)
    <2>1. (IF TimeToLive[r] = Never THEN Never ELSE now + TimeToLive[r]) \in Expiry
        BY TimeAssumption DEF Expiry
    <2> QED
        BY <1>1, <2>1 DEF BeginShorten, Arrive
<1>2. CASE Regenerate(r)
    BY <1>2, AttemptAssumption DEF Regenerate, AttemptsRemain
<1>3. CASE Exhausted(r) \/ InsertConflicts(r)
    BY <1>3 DEF Exhausted, InsertConflicts
<1>4. CASE CodeFree(r)
    BY <1>4 DEF CodeFree
<1>5. CASE Insert(r)
    BY <1>5 DEF Insert, Row
<1>6. CASE CommitShorten(r)
    BY <1>6 DEF CommitShorten
<1>7. CASE CommitFails(r)
    BY <1>7 DEF CommitFails
<1> QED
    BY <1>1, <1>2, <1>3, <1>4, <1>5, <1>6, <1>7 DEF ShortenStep

LEMMA FactsType ==
    ASSUME NEW c \in Codes
    PROVE  Facts(c) \subseteq {"issued", "gone", "expired"}
    BY DEF Facts

LEMMA ResolveType ==
    ASSUME TypeOK, NEW r \in Resolves, ResolveStep(r)
    PROVE  TypeOK'
<1> USE DEF TypeOK, Requests, Response, Goto, Fail, shortenVars
<1>1. CASE BeginResolve(r)
    BY <1>1, FactsType DEF BeginResolve, Arrive
<1>2. CASE Select(r)
    BY <1>2 DEF Select
<1>3. CASE Redirect(r)
    BY <1>3 DEF Redirect
<1>4. CASE NotResolvable(r)
    BY <1>4 DEF NotResolvable
<1> QED
    BY <1>1, <1>2, <1>3, <1>4 DEF ResolveStep

LEMMA DeactivateType ==
    ASSUME TypeOK, NEW r \in Deactivates, DeactivateStep(r)
    PROVE  TypeOK'
<1> USE DEF TypeOK, Requests, Response, Goto, Fail, Commit, Committed, shortenVars
<1>1. CASE BeginDeactivate(r)
    BY <1>1, FactsType DEF BeginDeactivate, Arrive
<1>2. CASE Update(r)
    <2>1. short_urls[code[r]] \in Row
        BY <1>2 DEF Update, UpdateMatches
    <2>2. [short_urls[code[r]] EXCEPT !.is_active = FALSE] \in Row
        BY <2>1 DEF Row
    <2> QED
        BY <1>2, <2>2 DEF Update
<1>3. CASE UpdateNothing(r)
    BY <1>3 DEF UpdateNothing
<1>4. CASE CommitDeactivate(r)
    BY <1>4 DEF CommitDeactivate
<1>5. CASE CommitFails(r)
    BY <1>5 DEF CommitFails
<1> QED
    BY <1>1, <1>2, <1>3, <1>4, <1>5 DEF DeactivateStep

LEMMA TypeNext == TypeOK /\ [Next]_vars => TypeOK'
<1> SUFFICES ASSUME TypeOK, [Next]_vars
             PROVE  TypeOK'
    OBVIOUS
<1>1. CASE Tick
    BY <1>1, TimeAssumption DEF Tick, TypeOK, shortenVars
<1>2. CASE UNCHANGED vars
    BY <1>2 DEF TypeOK, vars, shortenVars
<1> QED
    BY <1>1, <1>2, ShortenType, ResolveType, DeactivateType DEF Next, Done

\* Every variable keeps its type; no POST starts more attempts than
\* _MAX_GENERATION_ATTEMPTS.
THEOREM TypeCorrect == Spec => []TypeOK
    BY TypeInit, TypeNext, PTL DEF Spec

-----------------------------------------------------------------------------
(* The inductive invariant.                                                *)

Deactivated(row) == [row EXCEPT !.is_active = FALSE]

\* Where the requests are, and with which answers they end.
Places ==
    /\ \A r \in Requests : pc[r] # "answered" => response[r] = "none"
    /\ \A r \in Shortens :
           /\ pc[r] \in {"arriving", "checking", "creating", "flushed", "answered"}
           /\ response[r] \in {"none", "201", "500", "503"}
    /\ \A r \in Resolves :
           /\ pc[r] \in {"arriving", "selecting", "evaluating", "answered"}
           /\ response[r] \in {"none", "302", "404"}
    /\ \A r \in Deactivates :
           /\ pc[r] \in {"arriving", "updating", "updated", "answered"}
           /\ response[r] \in {"none", "204", "404", "500"}

\* An uncommitted write is still the right one: nobody else can have written.
Transactions ==
    /\ \A r \in Shortens : pc[r] = "flushed" =>
           /\ short_urls[code[r]] = NoRow
           /\ write[r] \in Row /\ write[r].original_url = r
    /\ \A q, r \in Shortens :
           pc[q] = "flushed" /\ pc[r] = "flushed" /\ code[q] = code[r] => q = r
    /\ \A r \in Deactivates : pc[r] = "updated" =>
           /\ short_urls[code[r]] \in Row /\ short_urls[code[r]].is_active
           /\ write[r] = Deactivated(short_urls[code[r]])
    /\ \A q, r \in Deactivates :
           pc[q] = "updated" /\ pc[r] = "updated" /\ code[q] = code[r] => q = r

\* What clients have been told stays true.
Answers ==
    /\ CodesNeverReused
    /\ \A r \in Deactivates : response[r] = "204" =>
           short_urls[code[r]] \in Row /\ ~short_urls[code[r]].is_active
    /\ DeactivatedOnce

\* What was known of the code of a request when it arrived stays true too.
Arrivals ==
    \A r \in Resolves \cup Deactivates :
        /\ pc[r] = "arriving" => arrival[r] = {}
        /\ "issued" \in arrival[r] => short_urls[code[r]] \in Row
        /\ "gone" \in arrival[r] =>
               short_urls[code[r]] \in Row /\ ~short_urls[code[r]].is_active
        /\ "expired" \in arrival[r] => short_urls[code[r]] \in Row /\ IsExpired(short_urls[code[r]])

\* A row that was read is a former version of the row in the table.
Readings ==
    \A r \in Resolves : pc[r] \in {"evaluating", "answered"} =>
        /\ record[r] # NoRow =>
               /\ record[r] \in Row /\ short_urls[code[r]] \in Row
               /\ short_urls[code[r]] \in {record[r], Deactivated(record[r])}
        /\ "issued" \in arrival[r] => record[r] # NoRow
        /\ "gone" \in arrival[r] => record[r] # NoRow /\ ~record[r].is_active

ServiceInvariant ==
    TypeOK /\ Places /\ Transactions /\ Answers /\ Arrivals /\ Readings
    /\ RedirectJustified /\ NotFoundJustified

-----------------------------------------------------------------------------
(* What the steps of a request have in common.                             *)

\* A step of r changes nothing of another request.
OthersKept(r) ==
    /\ now' = now
    /\ \A q \in Requests \ {r} :
           pc'[q] = pc[q] /\ code'[q] = code[q] /\ response'[q] = response[q]
    /\ \A q \in Resolves \ {r} : record'[q] = record[q]
    /\ \A q \in (Shortens \cup Deactivates) \ {r} : write'[q] = write[q]
    /\ \A q \in (Resolves \cup Deactivates) \ {r} : arrival'[q] = arrival[q]

\* It leaves the table alone, or commits the write of its transaction.
TableEffect(r) ==
    \/ short_urls' = short_urls
    \/ /\ pc[r] \in {"flushed", "updated"} /\ pc'[r] = "answered"
       /\ short_urls' = Committed(r)

\* Rows are only ever added and deactivated.
RowsKept ==
    \A c \in Codes : short_urls[c] \in Row =>
        short_urls'[c] \in {short_urls[c], Deactivated(short_urls[c])}

RequestStep(r) ==
    \/ r \in Shortens /\ ShortenStep(r)
    \/ r \in Resolves /\ ResolveStep(r)
    \/ r \in Deactivates /\ DeactivateStep(r)

LEMMA StepFrame ==
    ASSUME TypeOK, NEW r \in Requests, RequestStep(r)
    PROVE  OthersKept(r) /\ TableEffect(r)
<1> USE DEF TypeOK, Requests, OthersKept, TableEffect, Goto, Fail, Commit, shortenVars
<1>1. CASE r \in Shortens /\ ShortenStep(r)
    <2>1. CASE BeginShorten(r) \/ Regenerate(r) \/ CodeFree(r) \/ Insert(r)
        BY <1>1, <2>1, RequestAssumption DEF BeginShorten, Arrive, Regenerate, CodeFree, Insert
    <2>2. CASE Exhausted(r) \/ InsertConflicts(r) \/ CommitShorten(r) \/ CommitFails(r)
        BY <1>1, <2>2, RequestAssumption
        DEF Exhausted, InsertConflicts, CommitShorten, CommitFails
    <2> QED
        BY <1>1, <2>1, <2>2 DEF ShortenStep
<1>2. CASE r \in Resolves /\ ResolveStep(r)
    BY <1>2, RequestAssumption
    DEF ResolveStep, BeginResolve, Arrive, Select, Redirect, NotResolvable
<1>3. CASE r \in Deactivates /\ DeactivateStep(r)
    BY <1>3, RequestAssumption
    DEF DeactivateStep, BeginDeactivate, Arrive, Update, UpdateNothing, CommitDeactivate,
        CommitFails
<1> QED
    BY <1>1, <1>2, <1>3 DEF RequestStep

\* A commit changes the row of its own code only, and touches no row another
\* open transaction has written.
LEMMA CommitLocal ==
    ASSUME ServiceInvariant, NEW r \in Requests, RequestStep(r),
           NEW q \in Requests \ {r}, pc[q] \in {"flushed", "updated"}
    PROVE  short_urls'[code[q]] = short_urls[code[q]]
<1>1. CASE short_urls' = short_urls
    BY <1>1
<1>2. CASE pc[r] \in {"flushed", "updated"} /\ short_urls' = Committed(r)
    <2>1. code[q] # code[r]
        BY <1>2, NoRowAssumption DEF ServiceInvariant, Places, Transactions, Requests
    <2> QED
        BY <1>2, <2>1 DEF ServiceInvariant, TypeOK, Committed
<1> QED
    BY <1>1, <1>2, StepFrame DEF ServiceInvariant, TableEffect

LEMMA TableKept ==
    ASSUME ServiceInvariant, NEW r \in Requests, RequestStep(r)
    PROVE  RowsKept
<1>1. CASE short_urls' = short_urls
    BY <1>1 DEF RowsKept
<1>2. CASE pc[r] \in {"flushed", "updated"} /\ short_urls' = Committed(r)
    <2>1. CASE r \in Shortens
        <3>1. short_urls[code[r]] = NoRow
            BY <1>2, <2>1 DEF ServiceInvariant, Places, Transactions
        <3> QED
            BY <1>2, <3>1, NoRowAssumption DEF ServiceInvariant, TypeOK, Committed, RowsKept
    <2>2. CASE r \in Deactivates
        <3>1. write[r] = Deactivated(short_urls[code[r]])
            BY <1>2, <2>2 DEF ServiceInvariant, Places, Transactions
        <3> QED
            BY <1>2, <3>1 DEF ServiceInvariant, TypeOK, Committed, RowsKept
    <2>3. CASE r \in Resolves
        BY <1>2, <2>3 DEF ServiceInvariant, Places
    <2> QED
        BY <2>1, <2>2, <2>3 DEF Requests
<1> QED
    BY <1>1, <1>2, StepFrame DEF ServiceInvariant, TableEffect

LEMMA DeactivatedRow ==
    ASSUME NEW row \in Row
    PROVE  /\ Deactivated(row) \in Row
           /\ Deactivated(row).original_url = row.original_url
           /\ Deactivated(row).expires_at = row.expires_at
           /\ Deactivated(row).is_active = FALSE
           /\ Deactivated(Deactivated(row)) = Deactivated(row)
           /\ ~row.is_active => Deactivated(row) = row
    BY DEF Deactivated, Row

\* What becomes of a committed row.
LEMMA RowStays ==
    ASSUME RowsKept, NEW c \in Codes, short_urls[c] \in Row
    PROVE  /\ short_urls'[c] \in Row
           /\ short_urls'[c].original_url = short_urls[c].original_url
           /\ short_urls'[c].expires_at = short_urls[c].expires_at
           /\ ~short_urls[c].is_active => short_urls'[c] = short_urls[c]
<1>1. short_urls'[c] = short_urls[c] \/ short_urls'[c] = Deactivated(short_urls[c])
    BY DEF RowsKept
<1>2. /\ Deactivated(short_urls[c]) \in Row
      /\ Deactivated(short_urls[c]).original_url = short_urls[c].original_url
      /\ Deactivated(short_urls[c]).expires_at = short_urls[c].expires_at
      /\ ~short_urls[c].is_active => Deactivated(short_urls[c]) = short_urls[c]
    BY DeactivatedRow
<1>3. CASE short_urls'[c] = short_urls[c]
    BY <1>3
<1>4. CASE short_urls'[c] = Deactivated(short_urls[c])
    BY <1>2, <1>4
<1> QED
    BY <1>1, <1>3, <1>4

-----------------------------------------------------------------------------
(* The steps of the requests keep the invariant, part by part.             *)

LEMMA PlacesStep ==
    ASSUME ServiceInvariant, NEW r \in Requests, RequestStep(r)
    PROVE  Places'
<1> USE DEF ServiceInvariant, TypeOK, Places, Requests, Goto, Fail, Commit
<1>1. CASE r \in Shortens /\ ShortenStep(r)
    BY <1>1, RequestAssumption
    DEF ShortenStep, BeginShorten, Arrive, Regenerate, Exhausted, CodeFree, Insert,
        InsertConflicts, CommitShorten, CommitFails
<1>2. CASE r \in Resolves /\ ResolveStep(r)
    BY <1>2, RequestAssumption
    DEF ResolveStep, BeginResolve, Arrive, Select, Redirect, NotResolvable
<1>3. CASE r \in Deactivates /\ DeactivateStep(r)
    BY <1>3, RequestAssumption
    DEF DeactivateStep, BeginDeactivate, Arrive, Update, UpdateNothing, CommitDeactivate,
        CommitFails
<1> QED
    BY <1>1, <1>2, <1>3 DEF RequestStep

LEMMA TransactionsStep ==
    ASSUME ServiceInvariant, NEW r \in Requests, RequestStep(r)
    PROVE  Transactions'
<1>1. OthersKept(r)
    BY StepFrame DEF ServiceInvariant
<1>2. \A q \in Requests \ {r} : pc[q] \in {"flushed", "updated"}
          => short_urls'[code[q]] = short_urls[code[q]]
    BY CommitLocal
<1>3. r \in Shortens /\ pc'[r] = "flushed" =>
          /\ short_urls'[code'[r]] = NoRow
          /\ write'[r] \in Row /\ write'[r].original_url = r
          /\ \A q \in Shortens \ {r} : pc[q] = "flushed" => code[q] # code'[r]
    <2> SUFFICES ASSUME r \in Shortens, pc'[r] = "flushed"
                 PROVE  /\ short_urls'[code'[r]] = NoRow
                        /\ write'[r] \in Row /\ write'[r].original_url = r
                        /\ \A q \in Shortens \ {r} : pc[q] = "flushed" => code[q] # code'[r]
        OBVIOUS
    <2>1. Insert(r)
        BY RequestAssumption
        DEF RequestStep, ShortenStep, BeginShorten, Arrive, Regenerate, Exhausted, CodeFree,
            InsertConflicts, CommitShorten, CommitFails, Goto, Fail, Commit, ServiceInvariant,
            TypeOK, Requests
    <2> QED
        BY <2>1 DEF Insert, InsertHeld, UniqueViolated, ServiceInvariant, TypeOK, Row, shortenVars
<1>4. r \in Deactivates /\ pc'[r] = "updated" =>
          /\ short_urls'[code'[r]] \in Row /\ short_urls'[code'[r]].is_active
          /\ write'[r] = Deactivated(short_urls'[code'[r]])
          /\ \A q \in Deactivates \ {r} : pc[q] = "updated" => code[q] # code'[r]
    <2> SUFFICES ASSUME r \in Deactivates, pc'[r] = "updated"
                 PROVE  /\ short_urls'[code'[r]] \in Row /\ short_urls'[code'[r]].is_active
                        /\ write'[r] = Deactivated(short_urls'[code'[r]])
                        /\ \A q \in Deactivates \ {r} : pc[q] = "updated" => code[q] # code'[r]
        OBVIOUS
    <2>1. Update(r)
        BY RequestAssumption
        DEF RequestStep, DeactivateStep, BeginDeactivate, Arrive, UpdateNothing,
            CommitDeactivate, CommitFails, Goto, Fail, Commit, ServiceInvariant, TypeOK, Requests
    <2> QED
        BY <2>1
        DEF Update, RowHeld, UpdateMatches, Deactivated, ServiceInvariant, TypeOK, Requests,
            shortenVars
<1>5. \A q \in Shortens : pc'[q] = "flushed" =>
          /\ short_urls'[code'[q]] = NoRow
          /\ write'[q] \in Row /\ write'[q].original_url = q
    BY <1>1, <1>2, <1>3 DEF OthersKept, ServiceInvariant, Transactions, Requests
<1>6. \A p, q \in Shortens :
          pc'[p] = "flushed" /\ pc'[q] = "flushed" /\ code'[p] = code'[q] => p = q
    BY <1>1, <1>3 DEF OthersKept, ServiceInvariant, Transactions, Requests
<1>7. \A q \in Deactivates : pc'[q] = "updated" =>
          /\ short_urls'[code'[q]] \in Row /\ short_urls'[code'[q]].is_active
          /\ write'[q] = Deactivated(short_urls'[code'[q]])
    BY <1>1, <1>2, <1>4 DEF OthersKept, ServiceInvariant, Transactions, Requests
<1>8. \A p, q \in Deactivates :
          pc'[p] = "updated" /\ pc'[q] = "updated" /\ code'[p] = code'[q] => p = q
    BY <1>1, <1>4 DEF OthersKept, ServiceInvariant, Transactions, Requests
<1> QED
    BY <1>5, <1>6, <1>7, <1>8 DEF Transactions

\* What an answer says about the step that gives it.
LEMMA AnswerGiven ==
    ASSUME ServiceInvariant, NEW r \in Requests, RequestStep(r)
    PROVE  /\ response'[r] # "none" => code'[r] = code[r]
           /\ response'[r] = "201" => r \in Shortens /\ pc[r] = "flushed" /\ short_urls' = Committed(r)
           /\ response'[r] = "204" => r \in Deactivates /\ pc[r] = "updated" /\ short_urls' = Committed(r)
           /\ response'[r] = "302" => r \in Resolves /\ Redirect(r)
           /\ response'[r] = "404" => \/ r \in Resolves /\ NotResolvable(r)
                                      \/ r \in Deactivates /\ UpdateNothing(r)
<1> USE DEF ServiceInvariant, TypeOK, Places, Requests, Goto, Fail, Commit, shortenVars
<1>1. CASE r \in Shortens /\ ShortenStep(r)
    BY <1>1, RequestAssumption
    DEF ShortenStep, BeginShorten, Arrive, Regenerate, Exhausted, CodeFree, Insert,
        InsertConflicts, CommitShorten, CommitFails
<1>2. CASE r \in Resolves /\ ResolveStep(r)
    <2>1. CASE BeginResolve(r) \/ Select(r)
        BY <1>2, <2>1, RequestAssumption DEF BeginResolve, Arrive, Select
    <2>2. CASE Redirect(r)
        BY <1>2, <2>2, RequestAssumption DEF Redirect
    <2>3. CASE NotResolvable(r)
        BY <1>2, <2>3, RequestAssumption DEF NotResolvable
    <2> QED
        BY <1>2, <2>1, <2>2, <2>3 DEF ResolveStep
<1>3. CASE r \in Deactivates /\ DeactivateStep(r)
    <2>1. CASE BeginDeactivate(r) \/ Update(r)
        BY <1>3, <2>1, RequestAssumption DEF BeginDeactivate, Arrive, Update
    <2>2. CASE UpdateNothing(r)
        BY <1>3, <2>2, RequestAssumption DEF UpdateNothing
    <2>3. CASE CommitDeactivate(r) \/ CommitFails(r)
        BY <1>3, <2>3, RequestAssumption DEF CommitDeactivate, CommitFails
    <2> QED
        BY <1>3, <2>1, <2>2, <2>3 DEF DeactivateStep
<1> QED
    BY <1>1, <1>2, <1>3 DEF RequestStep

LEMMA AnswersStep ==
    ASSUME ServiceInvariant, NEW r \in Requests, RequestStep(r)
    PROVE  Answers'
<1> USE DEF ServiceInvariant
<1>1. OthersKept(r) /\ RowsKept
    BY StepFrame, TableKept
<1>2. ASSUME NEW q \in Shortens, response'[q] = "201"
      PROVE  short_urls'[code'[q]] # NoRow /\ short_urls'[code'[q]].original_url = q
    <2>1. CASE q = r
        <3>1. pc[r] = "flushed" /\ short_urls' = Committed(r) /\ code'[r] = code[r]
            BY <1>2, <2>1, AnswerGiven
        <3>2. short_urls'[code'[q]] = write[q]
            BY <2>1, <3>1 DEF Committed, TypeOK, Requests
        <3> QED
            BY <2>1, <3>1, <3>2, NoRowAssumption DEF Transactions
    <2>2. CASE q # r
        <3>1. code'[q] = code[q] /\ response[q] = "201"
            BY <1>1, <1>2, <2>2 DEF OthersKept, Requests
        <3>2. code[q] \in Codes /\ short_urls[code[q]] \in Row
              /\ short_urls[code[q]].original_url = q
            BY <3>1 DEF Answers, CodesNeverReused, TypeOK, Requests
        <3> QED
            BY <1>1, <3>1, <3>2, RowStays, NoRowAssumption
    <2> QED
        BY <2>1, <2>2
<1>3. ASSUME NEW q \in Deactivates, response'[q] = "204"
      PROVE  short_urls'[code'[q]] \in Row /\ ~short_urls'[code'[q]].is_active
    <2>1. CASE q = r
        <3>1. pc[r] = "updated" /\ short_urls' = Committed(r) /\ code'[r] = code[r]
            BY <1>3, <2>1, AnswerGiven
        <3>2. short_urls'[code'[q]] = write[q]
            BY <2>1, <3>1 DEF Committed, TypeOK, Requests
        <3>3. short_urls[code[q]] \in Row /\ write[q] = Deactivated(short_urls[code[q]])
            BY <2>1, <3>1 DEF Transactions
        <3>4. /\ Deactivated(short_urls[code[q]]) \in Row
              /\ Deactivated(short_urls[code[q]]).is_active = FALSE
            BY <3>3, DeactivatedRow
        <3> QED
            BY <3>2, <3>3, <3>4
    <2>2. CASE q # r
        <3>1. code'[q] = code[q] /\ response[q] = "204"
            BY <1>1, <1>3, <2>2 DEF OthersKept, Requests
        <3>2. code[q] \in Codes /\ short_urls[code[q]] \in Row
              /\ ~short_urls[code[q]].is_active
            BY <3>1 DEF Answers, TypeOK, Requests
        <3> QED
            BY <1>1, <3>1, <3>2, RowStays
    <2> QED
        BY <2>1, <2>2
<1>4. ASSUME NEW p \in Deactivates, NEW q \in Deactivates,
             response'[p] = "204", response'[q] = "204", code'[p] = code'[q]
      PROVE  p = q
    <2>1. ASSUME NEW d \in Deactivates, d # r, response[d] = "204",
                 r \in Deactivates, response'[r] = "204", code[d] = code'[r]
          PROVE  FALSE
        <3>1. pc[r] = "updated" /\ code'[r] = code[r]
            BY <2>1, AnswerGiven
        <3> QED
            BY <2>1, <3>1 DEF Answers, Transactions
    <2> QED
        BY <1>1, <1>4, <2>1 DEF OthersKept, Answers, DeactivatedOnce, Requests
<1> QED
    BY <1>2, <1>3, <1>4 DEF Answers, CodesNeverReused, DeactivatedOnce

\* What was known of a code when a request about it arrived.
KnownOf(c, facts) ==
    /\ "issued" \in facts => short_urls[c] \in Row
    /\ "gone" \in facts => short_urls[c] \in Row /\ ~short_urls[c].is_active
    /\ "expired" \in facts => short_urls[c] \in Row /\ IsExpired(short_urls[c])

LEMMA FactsKnown ==
    ASSUME ServiceInvariant, NEW c \in Codes
    PROVE  KnownOf(c, Facts(c))
<1> USE DEF ServiceInvariant
<1>1. ASSUME Answered(c, "201")
      PROVE  short_urls[c] \in Row
    <2>1. PICK q \in Requests : code[q] = c /\ response[q] = "201"
        BY <1>1 DEF Answered
    <2>2. q \in Shortens
        BY <2>1 DEF Places, Requests
    <2> QED
        BY <2>1, <2>2 DEF Answers, CodesNeverReused, TypeOK
<1>2. ASSUME Answered(c, "204")
      PROVE  short_urls[c] \in Row /\ ~short_urls[c].is_active
    <2>1. PICK q \in Requests : code[q] = c /\ response[q] = "204"
        BY <1>2 DEF Answered
    <2>2. q \in Deactivates
        BY <2>1 DEF Places, Requests
    <2> QED
        BY <2>1, <2>2 DEF Answers
<1>3. ASSUME "expired" \in Facts(c)
      PROVE  short_urls[c] \in Row /\ IsExpired(short_urls[c])
    <2>1. short_urls[c] # NoRow
        BY <1>3 DEF Facts
    <2>2. short_urls[c].expires_at # Never /\ short_urls[c].expires_at < now
        BY <1>3 DEF Facts
    <2>3. short_urls[c] \in Row
        BY <2>1 DEF TypeOK
    <2>4. now \in Nat /\ short_urls[c].expires_at \in Nat
        BY <2>2, <2>3, TimeAssumption DEF TypeOK, Row, Expiry
    <2> QED
        BY <2>2, <2>3, <2>4 DEF IsExpired
<1> QED
    BY <1>1, <1>2, <1>3 DEF KnownOf, Facts

LEMMA KnownStays ==
    ASSUME RowsKept, now' = now, NEW c \in Codes, NEW facts, KnownOf(c, facts)
    PROVE  /\ "issued" \in facts => short_urls'[c] \in Row
           /\ "gone" \in facts => short_urls'[c] \in Row /\ ~short_urls'[c].is_active
           /\ "expired" \in facts =>
                  /\ short_urls'[c] \in Row /\ short_urls'[c].expires_at # Never
                  /\ now' > short_urls'[c].expires_at
<1>1. CASE short_urls[c] \in Row
    <2>1. /\ short_urls'[c] \in Row
          /\ short_urls'[c].expires_at = short_urls[c].expires_at
          /\ ~short_urls[c].is_active => short_urls'[c] = short_urls[c]
        BY <1>1, RowStays
    <2> QED
        BY <2>1 DEF KnownOf, IsExpired
<1>2. CASE short_urls[c] \notin Row
    BY <1>2 DEF KnownOf
<1> QED
    BY <1>1, <1>2

LEMMA ArrivalsStep ==
    ASSUME ServiceInvariant, NEW r \in Requests, RequestStep(r)
    PROVE  Arrivals'
<1>1. OthersKept(r) /\ RowsKept
    BY StepFrame, TableKept DEF ServiceInvariant
<1>2. ASSUME NEW q \in Resolves \cup Deactivates
      PROVE  /\ pc'[q] = "arriving" => arrival'[q] = {}
             /\ code'[q] \in Codes /\ KnownOf(code'[q], arrival'[q])
    <2>1. CASE q # r \/ (arrival' = arrival /\ code' = code /\ pc'[r] # "arriving")
        BY <1>1, <2>1 DEF OthersKept, ServiceInvariant, Arrivals, KnownOf, TypeOK, Requests
    <2>2. CASE /\ q = r /\ pc'[r] # "arriving"
               /\ \E c \in Codes : code'[r] = c /\ arrival'[r] = Facts(c)
        BY <2>2, FactsKnown
    <2>3. CASE q = r
        <3>1. CASE BeginResolve(r) \/ BeginDeactivate(r)
            BY <1>2, <2>2, <2>3, <3>1
            DEF BeginResolve, BeginDeactivate, Arrive, Goto, ServiceInvariant, TypeOK, Requests
        <3>2. CASE ~(BeginResolve(r) \/ BeginDeactivate(r))
            <4>1. arrival' = arrival /\ code' = code /\ pc'[r] # "arriving"
                BY <1>2, <2>3, <3>2, RequestAssumption
                DEF RequestStep, ResolveStep, Select, Redirect, NotResolvable, DeactivateStep,
                    Update, UpdateNothing, CommitDeactivate, CommitFails, Goto, Fail, Commit,
                    ServiceInvariant, TypeOK, Requests
            <4> QED
                BY <2>1, <4>1
        <3> QED
            BY <3>1, <3>2
    <2> QED
        BY <2>1, <2>3
<1> QED
    BY <1>1, <1>2, KnownStays DEF Arrivals, OthersKept, IsExpired

\* The steps of the GET requests, seen from the row that was read.
LEMMA ReadingsStep ==
    ASSUME ServiceInvariant, NEW r \in Requests, RequestStep(r)
    PROVE  Readings'
<1> USE DEF ServiceInvariant
<1>1. OthersKept(r) /\ RowsKept
    BY StepFrame, TableKept
<1>2. ASSUME NEW q \in Resolves, pc'[q] \in {"evaluating", "answered"},
             record'[q] # NoRow, NEW row, row = record'[q]
      PROVE  /\ row \in Row /\ short_urls'[code'[q]] \in Row
             /\ short_urls'[code'[q]] \in {row, Deactivated(row)}
    <2>1. CASE Select(q)
        BY <1>2, <2>1 DEF Select, TypeOK, Requests, shortenVars
    <2>2. CASE ~Select(q)
        <3>1. /\ pc[q] \in {"evaluating", "answered"}
              /\ record'[q] = record[q] /\ code'[q] = code[q]
            <4>1. CASE q = r
                BY <1>2, <2>2, <4>1, RequestAssumption
                DEF RequestStep, ResolveStep, BeginResolve, Arrive, Redirect, NotResolvable,
                    Goto, Fail, TypeOK, Requests
            <4>2. CASE q # r
                BY <1>1, <1>2, <4>2 DEF OthersKept, Requests
            <4> QED
                BY <4>1, <4>2
        <3>2. /\ row \in Row /\ short_urls[code[q]] \in Row /\ code[q] \in Codes
              /\ short_urls[code[q]] \in {row, Deactivated(row)}
            BY <1>2, <3>1 DEF Readings, TypeOK, Requests
        <3>3. /\ short_urls'[code[q]] \in Row
              /\ short_urls'[code[q]] \in {short_urls[code[q]], Deactivated(short_urls[code[q]])}
            BY <1>1, <3>2, RowStays DEF RowsKept
        <3>4. Deactivated(Deactivated(row)) = Deactivated(row)
            BY <3>2, DeactivatedRow
        <3> QED
            BY <3>1, <3>2, <3>3, <3>4
    <2> QED
        BY <2>1, <2>2
<1>3. ASSUME NEW q \in Resolves, pc'[q] \in {"evaluating", "answered"}
      PROVE  /\ "issued" \in arrival'[q] => record'[q] # NoRow
             /\ "gone" \in arrival'[q] => record'[q] # NoRow /\ ~record'[q].is_active
    <2>1. CASE Select(q)
        BY <1>3, <2>1, NoRowAssumption DEF Select, Arrivals, TypeOK, Requests, shortenVars
    <2>2. CASE ~Select(q) /\ q = r
        BY <1>3, <2>2, RequestAssumption
        DEF RequestStep, ResolveStep, BeginResolve, Arrive, Redirect, NotResolvable,
            Goto, Fail, Readings, TypeOK, Requests
    <2>3. CASE q # r
        BY <1>1, <1>3, <2>3 DEF OthersKept, Readings, Requests
    <2> QED
        BY <2>1, <2>2, <2>3
<1> QED
    BY <1>2, <1>3 DEF Readings

LEMMA RedirectStep ==
    ASSUME ServiceInvariant, NEW r \in Requests, RequestStep(r)
    PROVE  RedirectJustified'
<1> USE DEF ServiceInvariant
<1>1. OthersKept(r) /\ RowsKept
    BY StepFrame, TableKept
<1>2. ASSUME NEW q \in Resolves, response'[q] = "302"
      PROVE  /\ short_urls'[code'[q]] # NoRow
             /\ short_urls'[code'[q]].original_url = record'[q].original_url
             /\ arrival'[q] \cap {"gone", "expired"} = {}
    <2>1. CASE q = r
        <3>1. Redirect(r)
            BY <1>2, <2>1, AnswerGiven
        <3>2. /\ record[q] # NoRow /\ record[q] \in Row /\ record[q].is_active
              /\ short_urls[code[q]] \in Row /\ ~IsExpired(record[q])
              /\ short_urls[code[q]] \in {record[q], Deactivated(record[q])}
            BY <2>1, <3>1 DEF Redirect, IsResolvable, Readings
        <3>3. /\ Deactivated(record[q]).original_url = record[q].original_url
              /\ Deactivated(record[q]).expires_at = record[q].expires_at
            BY <3>2, DeactivatedRow
        <3>4. "gone" \notin arrival[q]
            BY <2>1, <3>1, <3>2 DEF Redirect, Readings
        <3>5. "expired" \notin arrival[q]
            BY <3>2, <3>3 DEF Arrivals, IsExpired
        <3> QED
            BY <2>1, <3>1, <3>2, <3>3, <3>4, <3>5, NoRowAssumption DEF Redirect, shortenVars
    <2>2. CASE q # r
        <3>1. /\ code'[q] = code[q] /\ response[q] = "302" /\ record'[q] = record[q]
              /\ arrival'[q] = arrival[q]
            BY <1>1, <1>2, <2>2 DEF OthersKept, Requests
        <3>2. /\ code[q] \in Codes /\ short_urls[code[q]] \in Row
              /\ short_urls[code[q]].original_url = record[q].original_url
              /\ arrival[q] \cap {"gone", "expired"} = {}
            BY <3>1 DEF RedirectJustified, TypeOK, Requests
        <3> QED
            BY <1>1, <3>1, <3>2, RowStays, NoRowAssumption
    <2> QED
        BY <2>1, <2>2
<1> QED
    BY <1>2 DEF RedirectJustified

LEMMA NotFoundStep ==
    ASSUME ServiceInvariant, NEW r \in Requests, RequestStep(r)
    PROVE  NotFoundJustified'
<1> USE DEF ServiceInvariant
<1>1. OthersKept(r) /\ RowsKept /\ now' = now
    BY StepFrame, TableKept DEF OthersKept
<1> DEFINE Lost(q, row) ==
        ~row.is_active \/ (q \in Resolves /\ row.expires_at # Never /\ now > row.expires_at)
<1>2. ASSUME NEW q \in Resolves \cup Deactivates, response'[q] = "404", "issued" \in arrival'[q]
      PROVE  short_urls'[code'[q]] # NoRow /\ Lost(q, short_urls'[code'[q]])
    <2>1. code'[q] = code[q] /\ arrival'[q] = arrival[q] /\ code[q] \in Codes
        <3>1. CASE q = r
            BY <1>2, <3>1, AnswerGiven
            DEF NotResolvable, UpdateNothing, Fail, shortenVars, TypeOK, Requests
        <3>2. CASE q # r
            BY <1>1, <1>2, <3>2 DEF OthersKept, TypeOK, Requests
        <3> QED
            BY <3>1, <3>2
    <2>2. short_urls[code[q]] \in Row
        BY <1>2, <2>1 DEF Arrivals
    <2>3. Lost(q, short_urls[code[q]])
        <3>1. CASE q = r /\ q \in Resolves
            <4>1. NotResolvable(q)
                BY <1>2, <3>1, AnswerGiven, RequestAssumption
            <4>2. record[q] \in Row /\ ~IsResolvable(record[q])
                  /\ short_urls[code[q]] \in {record[q], Deactivated(record[q])}
                BY <1>2, <2>1, <3>1, <4>1 DEF NotResolvable, Readings
            <4>3. /\ Deactivated(record[q]).expires_at = record[q].expires_at
                  /\ Deactivated(record[q]).is_active = FALSE
                BY <4>2, DeactivatedRow
            <4> QED
                BY <3>1, <4>2, <4>3 DEF IsResolvable, IsExpired
        <3>2. CASE q = r /\ q \in Deactivates
            BY <1>2, <2>2, <3>2, AnswerGiven, RequestAssumption, NoRowAssumption
            DEF UpdateNothing, UpdateMatches
        <3>3. CASE q # r
            <4>1. response[q] = "404" /\ "issued" \in arrival[q]
                BY <1>1, <1>2, <3>3 DEF OthersKept, Requests
            <4> QED
                BY <4>1 DEF NotFoundJustified, IsExpired
        <3> QED
            BY <1>2, <3>1, <3>2, <3>3
    <2>4. /\ short_urls'[code[q]] \in Row
          /\ short_urls'[code[q]].expires_at = short_urls[code[q]].expires_at
          /\ ~short_urls[code[q]].is_active => short_urls'[code[q]] = short_urls[code[q]]
        BY <1>1, <2>1, <2>2, RowStays
    <2> QED
        BY <2>1, <2>3, <2>4, NoRowAssumption
<1> QED
    BY <1>1, <1>2 DEF NotFoundJustified, IsExpired

-----------------------------------------------------------------------------
(* The theorems.                                                           *)

LEMMA InvariantInit == Init => ServiceInvariant
<1> SUFFICES ASSUME Init
             PROVE  ServiceInvariant
    OBVIOUS
<1>1. TypeOK
    BY TypeInit
<1>2. \A r \in Requests : pc[r] = "arriving" /\ response[r] = "none"
    BY DEF Init
<1>3. \A r \in Resolves \cup Deactivates : arrival[r] = {}
    BY DEF Init
<1> QED
    BY <1>1, <1>2, <1>3
    DEF ServiceInvariant, Places, Transactions, Answers, CodesNeverReused, DeactivatedOnce,
        Arrivals, Readings, RedirectJustified, NotFoundJustified, Requests

\* The clock only moves on: what has expired stays expired.
LEMMA TickStep ==
    ASSUME ServiceInvariant, Tick
    PROVE  ServiceInvariant'
<1> USE DEF ServiceInvariant
<1>1. TypeOK'
    BY TypeNext DEF Next
<1>2. /\ now' = now + 1 /\ now \in Nat
      /\ UNCHANGED <<short_urls, pc, code, record, write, response, arrival>>
    BY TimeAssumption DEF Tick, TypeOK
<1>3. (Places /\ Transactions /\ Answers /\ Readings /\ RedirectJustified)'
    BY <1>2
    DEF Places, Transactions, Answers, CodesNeverReused, DeactivatedOnce, Readings,
        RedirectJustified
<1>4. ASSUME NEW row \in Row, row.expires_at # Never, now > row.expires_at
      PROVE  now' > row.expires_at
    BY <1>2, <1>4 DEF Row, Expiry
<1>5. Arrivals'
    BY <1>2, <1>4 DEF Arrivals, IsExpired
<1>6. NotFoundJustified'
    <2>1. \A r \in Requests : short_urls[code[r]] # NoRow => short_urls[code[r]] \in Row
        BY DEF TypeOK
    <2> QED
        BY <1>2, <1>4, <2>1 DEF NotFoundJustified, IsExpired, Requests
<1> QED
    BY <1>1, <1>3, <1>5, <1>6

LEMMA InvariantNext == ServiceInvariant /\ [Next]_vars => ServiceInvariant'
<1> SUFFICES ASSUME ServiceInvariant, [Next]_vars
             PROVE  ServiceInvariant'
    OBVIOUS
<1>1. ASSUME NEW r \in Requests, RequestStep(r)
      PROVE  ServiceInvariant'
    <2>1. TypeOK'
        BY <1>1, ShortenType, ResolveType, DeactivateType DEF RequestStep, ServiceInvariant
    <2> QED
        BY <1>1, <2>1, PlacesStep, TransactionsStep, AnswersStep, ArrivalsStep, ReadingsStep,
           RedirectStep, NotFoundStep
        DEF ServiceInvariant
<1>2. CASE UNCHANGED vars
    <2>1. TypeOK'
        BY <1>2, TypeNext DEF ServiceInvariant
    <2> QED
        BY <1>2, <2>1
        DEF vars, ServiceInvariant, Places, Transactions, Answers, CodesNeverReused,
            DeactivatedOnce, Arrivals, Readings, RedirectJustified, NotFoundJustified, IsExpired
<1> QED
    BY <1>1, <1>2, TickStep DEF Next, Done, RequestStep, Requests

\* The inductive invariant holds in every reachable state.
THEOREM ServiceInvariantCorrect == Spec => []ServiceInvariant
    BY InvariantInit, InvariantNext, PTL DEF Spec

\* However many POST requests race between code_exists() and the commit, the
\* code a client was given keeps leading to the URL it brought.
THEOREM CodesNeverReusedAlways == Spec => []CodesNeverReused
<1>1. ServiceInvariant => CodesNeverReused
    BY DEF ServiceInvariant, Answers
<1> QED
    BY <1>1, ServiceInvariantCorrect, PTL

\* Of the DELETE requests for a code, however many, one is told it succeeded.
THEOREM DeactivatedOnceAlways == Spec => []DeactivatedOnce
<1>1. ServiceInvariant => DeactivatedOnce
    BY DEF ServiceInvariant, Answers
<1> QED
    BY <1>1, ServiceInvariantCorrect, PTL

\* A GET arriving after a code was deleted or expired is never redirected, and
\* no redirection leads to the URL of another row.
THEOREM RedirectJustifiedAlways == Spec => []RedirectJustified
<1>1. ServiceInvariant => RedirectJustified
    BY DEF ServiceInvariant
<1> QED
    BY <1>1, ServiceInvariantCorrect, PTL

\* A code issued before a GET or DELETE arrived is missed only if deactivated
\* or, by a GET, if expired.
THEOREM NotFoundJustifiedAlways == Spec => []NotFoundJustified
<1>1. ServiceInvariant => NotFoundJustified
    BY DEF ServiceInvariant
<1> QED
    BY <1>1, ServiceInvariantCorrect, PTL

\* No step removes a committed row, overwrites it or activates it again.
THEOREM RowsPersistAlways == Spec => RowsPersist
<1>1. ASSUME ServiceInvariant, [Next]_vars
      PROVE  [\A c \in Codes : short_urls[c] # NoRow =>
                 short_urls'[c] \in {short_urls[c],
                                     [short_urls[c] EXCEPT !.is_active = FALSE]}]_vars
    <2>1. ASSUME NEW r \in Requests, RequestStep(r), NEW c \in Codes, short_urls[c] # NoRow
          PROVE  short_urls'[c] \in {short_urls[c],
                                     [short_urls[c] EXCEPT !.is_active = FALSE]}
        <3>1. RowsKept
            BY <1>1, <2>1, TableKept
        <3>2. short_urls[c] \in Row
            BY <1>1, <2>1 DEF ServiceInvariant, TypeOK
        <3> QED
            BY <3>1, <3>2 DEF RowsKept, Deactivated
    <2> QED
        BY <1>1, <2>1 DEF Next, Tick, Done, vars, RequestStep, Requests
<1> QED
    BY <1>1, ServiceInvariantCorrect, PTL DEF Spec, RowsPersist

-----------------------------------------------------------------------------
(* The refinement of UrlStore.                                             *)

\* The row of an open INSERT is the link that its POST is to create.
Inserted ==
    \A r \in Shortens : pc[r] = "flushed" =>
        write[r] = [original_url |-> r, is_active |-> TRUE, expires_at |-> expires_at[r]]

LEMMA InsertedNext == ServiceInvariant /\ Inserted /\ [Next]_vars => Inserted'
<1> SUFFICES ASSUME ServiceInvariant, Inserted, [Next]_vars
             PROVE  Inserted'
    OBVIOUS
<1> USE DEF ServiceInvariant, TypeOK, Inserted, Requests, Goto, Fail, Commit, shortenVars
<1>1. ASSUME NEW r \in Shortens, BeginShorten(r)
      PROVE  Inserted'
    BY <1>1 DEF BeginShorten, Arrive
<1>2. ASSUME NEW r \in Shortens, Regenerate(r) \/ Exhausted(r) \/ CodeFree(r)
      PROVE  Inserted'
    BY <1>2 DEF Regenerate, Exhausted, CodeFree
<1>7. ASSUME NEW r \in Shortens, Insert(r)
      PROVE  Inserted'
    BY <1>7 DEF Insert
<1>3. ASSUME NEW r \in Shortens, InsertConflicts(r) \/ CommitShorten(r) \/ CommitFails(r)
      PROVE  Inserted'
    BY <1>3 DEF InsertConflicts, CommitShorten, CommitFails
<1>4. ASSUME NEW r \in Resolves, ResolveStep(r)
      PROVE  Inserted'
    BY <1>4, RequestAssumption
    DEF ResolveStep, BeginResolve, Arrive, Select, Redirect, NotResolvable
<1>5. ASSUME NEW r \in Deactivates, DeactivateStep(r)
      PROVE  Inserted'
    BY <1>5, RequestAssumption
    DEF DeactivateStep, BeginDeactivate, Arrive, Update, UpdateNothing, CommitDeactivate,
        CommitFails
<1>6. CASE Tick \/ Done \/ UNCHANGED vars
    BY <1>6 DEF Tick, Done, vars
<1> QED
    BY <1>1, <1>2, <1>3, <1>4, <1>5, <1>6, <1>7 DEF Next, ShortenStep

\* What a step of r leaves alone of the store that clients see.
LEMMA StoreFrame ==
    ASSUME ServiceInvariant, NEW r \in Requests, RequestStep(r)
    PROVE  /\ Open' = IF pc'[r] \in {"arriving", "answered"} THEN Open \ {r} ELSE Open \cup {r}
           /\ About' = [About EXCEPT ![r] = About'[r]]
           /\ \A q \in Resolves \ {r} : Outcomes'[q] = Outcomes[q]
           /\ r \notin Resolves => Outcomes' = Outcomes
<1>1. OthersKept(r)
    BY StepFrame DEF ServiceInvariant
<1>2. \A q \in Requests \ {r} : About'[q] = About[q]
    BY <1>1 DEF OthersKept, About, Known
<1>3. About' = [About EXCEPT ![r] = About'[r]]
    BY <1>2 DEF About
<1>4. ASSUME NEW q \in Resolves \ {r}
      PROVE  Outcome(q)' = Outcome(q)
    <2>1. /\ now' = now /\ record'[q] = record[q]
          /\ pc'[q] = pc[q] /\ response'[q] = response[q]
        BY <1>1 DEF OthersKept, Requests
    <2> QED
        BY <2>1 DEF Outcome, Answering, IsResolvable, IsExpired
<1>5. \A q \in Resolves \ {r} : Outcomes'[q] = Outcomes[q]
    BY <1>4 DEF Outcomes
<1>6. r \notin Resolves => Outcomes' = Outcomes
    BY <1>4 DEF Outcomes
<1>7. Open' = IF pc'[r] \in {"arriving", "answered"} THEN Open \ {r} ELSE Open \cup {r}
    BY <1>1 DEF OthersKept, Open
<1> QED
    BY <1>3, <1>5, <1>6, <1>7

LEMMA StoreInit == Init => Store!Init
<1> SUFFICES ASSUME Init
             PROVE  Store!Init
    OBVIOUS
<1>1. Open = {}
    BY DEF Init, Open
<1>2. About = [r \in Requests |-> "unknown"]
    BY DEF Init, About, Known, Requests
<1>3. Outcomes = [r \in Resolves |-> [status |-> "none", location |-> NoRow]]
    BY DEF Init, Outcomes, Outcome, Requests
<1> QED
    BY <1>1, <1>2, <1>3
    DEF Init, shortenVars, Store!Init, Store!Requests, Store!Unknown, Store!NotLooked, Requests

\* A POST is seen when it arrives and when it is answered.
LEMMA ShortenImplements ==
    ASSUME ServiceInvariant, Inserted, NEW r \in Shortens, ShortenStep(r)
    PROVE  Store!Next \/ UNCHANGED Store!vars
<1> USE DEF ServiceInvariant, TypeOK, Requests, shortenVars
<1>1. r \in Requests /\ RequestStep(r) /\ r \notin Resolves /\ r \notin Deactivates
    BY RequestAssumption DEF RequestStep
<1>2. /\ Open' = IF pc'[r] \in {"arriving", "answered"} THEN Open \ {r} ELSE Open \cup {r}
      /\ About' = [About EXCEPT ![r] = About'[r]]
      /\ Outcomes' = Outcomes
    BY <1>1, StoreFrame
<1>3. CASE BeginShorten(r)
    <2>1. r \notin Open /\ response[r] = "none" /\ Open' = Open \cup {r}
        BY <1>2, <1>3 DEF BeginShorten, Arrive, Goto, Places, Open
    <2>2. About' = About
        BY <1>2, <1>3 DEF BeginShorten, Arrive, Places, About, Known
    <2>3. Store!Arrive(r)
        BY <1>2, <1>3, <2>1, <2>2 DEF BeginShorten, Arrive, Store!Arrive
    <2> QED
        BY <1>1, <2>3 DEF Store!Next, Store!Requests
<1>4. CASE Regenerate(r) \/ CodeFree(r) \/ Insert(r)
    <2>1. Open' = Open
        BY <1>2, <1>4 DEF Regenerate, CodeFree, Insert, Goto, Open
    <2>2. About' = About
        BY <1>2, <1>4 DEF Regenerate, CodeFree, Insert, Places, About, Known
    <2> QED
        BY <1>2, <1>4, <2>1, <2>2 DEF Regenerate, CodeFree, Insert, Store!vars
<1>5. ASSUME pc[r] \in {"checking", "creating", "flushed"}, pc'[r] = "answered"
      PROVE  r \in Open /\ Open' = Open \ {r}
    BY <1>2, <1>5 DEF Open
<1>6. CASE Exhausted(r)
    <2>1. r \in Open /\ Open' = Open \ {r}
        BY <1>5, <1>6 DEF Exhausted, Fail, Goto
    <2>2. About' = About
        BY <1>2, <1>6 DEF Exhausted, Fail, Places, About, Known
    <2>3. Store!Shorten(r)
        BY <1>2, <1>6, <2>1, <2>2 DEF Exhausted, Fail, Store!Shorten, Store!Answer
    <2> QED
        BY <2>3 DEF Store!Next
<1>7. CASE InsertConflicts(r)
    <2>1. r \in Open /\ Open' = Open \ {r}
        BY <1>5, <1>7 DEF InsertConflicts, Fail, Goto
    <2>2. About' = About
        BY <1>2, <1>7 DEF InsertConflicts, Fail, Places, About, Known
    <2>3. Store!InternalError(r)
        BY <1>2, <1>7, <2>1, <2>2 DEF InsertConflicts, Fail, Store!InternalError, Store!Answer
    <2> QED
        BY <2>3 DEF Store!Next
<1>8. pc[r] = "flushed" /\ short_urls' = Committed(r) => Store!Create(r, code[r])
    BY DEF Transactions, Committed, Inserted, Store!Create
<1>9. CASE CommitShorten(r)
    <2>1. r \in Open /\ Open' = Open \ {r}
        BY <1>5, <1>9 DEF CommitShorten, Commit, Goto
    <2>2. About' = [About EXCEPT ![r] = code[r]]
        BY <1>2, <1>9 DEF CommitShorten, Commit, About, Known
    <2>3. Store!Create(r, code[r]) /\ Store!Answer(r, "201")
        BY <1>2, <1>8, <1>9, <2>1 DEF CommitShorten, Commit, Store!Answer
    <2>4. Store!Shorten(r)
        BY <2>2, <2>3 DEF Store!Shorten
    <2> QED
        BY <2>4 DEF Store!Next
<1>10. CASE CommitFails(r)
    <2>1. r \in Open /\ Open' = Open \ {r}
        BY <1>5, <1>10 DEF CommitFails, Goto, Places
    <2>2. About' = About
        BY <1>2, <1>10 DEF CommitFails, Places, About, Known
    <2>3. short_urls' = short_urls \/ Store!Create(r, code[r])
        BY <1>8, <1>10 DEF CommitFails, Places
    <2>4. Store!Answer(r, "500")
        BY <1>2, <1>10, <2>1 DEF CommitFails, Store!Answer
    <2>5. Store!InternalError(r)
        BY <2>2, <2>3, <2>4 DEF Store!InternalError
    <2> QED
        BY <2>5 DEF Store!Next
<1> QED
    BY <1>3, <1>4, <1>6, <1>7, <1>9, <1>10 DEF ShortenStep

\* A DELETE is seen when it arrives and when it is answered.
LEMMA DeactivateImplements ==
    ASSUME ServiceInvariant, NEW r \in Deactivates, DeactivateStep(r)
    PROVE  Store!Next \/ UNCHANGED Store!vars
<1> USE DEF ServiceInvariant, TypeOK, Requests, shortenVars
<1>1. r \in Requests /\ RequestStep(r) /\ r \notin Resolves /\ r \notin Shortens
    BY RequestAssumption DEF RequestStep
<1>2. /\ Open' = IF pc'[r] \in {"arriving", "answered"} THEN Open \ {r} ELSE Open \cup {r}
      /\ About' = [About EXCEPT ![r] = About'[r]]
      /\ Outcomes' = Outcomes
    BY <1>1, StoreFrame
<1>3. CASE BeginDeactivate(r)
    <2>1. r \notin Open /\ response[r] = "none" /\ Open' = Open \cup {r}
        BY <1>2, <1>3 DEF BeginDeactivate, Arrive, Goto, Places, Open
    <2>2. \E c \in Codes : About' = [About EXCEPT ![r] = c]
        BY <1>1, <1>2, <1>3 DEF BeginDeactivate, Arrive, Goto, About, Known
    <2>3. Store!Arrive(r)
        BY <1>1, <1>2, <1>3, <2>1, <2>2 DEF BeginDeactivate, Arrive, Store!Arrive
    <2> QED
        BY <1>1, <2>3 DEF Store!Next, Store!Requests
<1>4. ASSUME pc[r] # "arriving", pc'[r] # "arriving", code' = code
      PROVE  About' = About /\ About[r] = code[r]
    <2>1. About[r] = code[r] /\ About'[r] = code'[r]
        BY <1>1, <1>4 DEF About, Known
    <2>2. About' = [About EXCEPT ![r] = About[r]]
        BY <1>2, <1>4, <2>1
    <2> QED
        BY <2>1, <2>2 DEF About
<1>5. ASSUME pc[r] \in {"updating", "updated"}, pc'[r] = "answered"
      PROVE  r \in Open /\ Open' = Open \ {r}
    BY <1>2, <1>5 DEF Open
<1>6. CASE Update(r)
    <2>1. Open' = Open /\ About' = About
        BY <1>2, <1>4, <1>6 DEF Update, Goto, Open
    <2> QED
        BY <1>2, <1>6, <2>1 DEF Update, Store!vars
<1>7. CASE UpdateNothing(r)
    <2>1. r \in Open /\ Open' = Open \ {r} /\ About' = About /\ About[r] = code[r]
        BY <1>4, <1>5, <1>7 DEF UpdateNothing, Fail, Goto
    <2>2. Store!Deactivate(r)
        BY <1>2, <1>7, <2>1
        DEF UpdateNothing, UpdateMatches, Fail, Store!Deactivate, Store!Answer, Store!Removable
    <2> QED
        BY <2>2 DEF Store!Next
<1>8. pc[r] = "updated" /\ short_urls' = Committed(r) => Store!Remove(code[r])
    BY NoRowAssumption
    DEF Transactions, Committed, Deactivated, Store!Remove, Store!Removable
<1>9. CASE CommitDeactivate(r)
    <2>1. r \in Open /\ Open' = Open \ {r} /\ About' = About /\ About[r] = code[r]
        BY <1>4, <1>5, <1>9 DEF CommitDeactivate, Commit, Goto
    <2>2. Store!Remove(About[r]) /\ Store!Answer(r, "204")
        BY <1>2, <1>8, <1>9, <2>1 DEF CommitDeactivate, Commit, Store!Answer
    <2>3. Store!Deactivate(r)
        BY <2>1, <2>2 DEF Store!Deactivate
    <2> QED
        BY <2>3 DEF Store!Next
<1>10. CASE CommitFails(r)
    <2>0. pc[r] = "updated"
        BY <1>10 DEF CommitFails, Places
    <2>1. r \in Open /\ Open' = Open \ {r} /\ About' = About /\ About[r] = code[r]
        BY <1>4, <1>5, <1>10, <2>0 DEF CommitFails, Goto
    <2>2. short_urls' = short_urls \/ Store!Remove(About[r])
        BY <1>8, <1>10, <2>0, <2>1 DEF CommitFails
    <2>3. Store!Answer(r, "500")
        BY <1>2, <1>10, <2>1 DEF CommitFails, Store!Answer
    <2>4. Store!InternalError(r)
        BY <2>1, <2>2, <2>3 DEF Store!InternalError
    <2> QED
        BY <2>4 DEF Store!Next
<1> QED
    BY <1>3, <1>6, <1>7, <1>9, <1>10 DEF DeactivateStep

\* A GET looks when it reads its row, and answers what it saw.
LEMMA ResolveImplements ==
    ASSUME ServiceInvariant, NEW r \in Resolves, ResolveStep(r)
    PROVE  Store!Next \/ UNCHANGED Store!vars
<1> USE DEF ServiceInvariant, TypeOK, Requests, shortenVars
<1>1. r \in Requests /\ RequestStep(r) /\ r \notin Deactivates /\ r \notin Shortens
    BY RequestAssumption DEF RequestStep
<1>2. /\ Open' = IF pc'[r] \in {"arriving", "answered"} THEN Open \ {r} ELSE Open \cup {r}
      /\ About' = [About EXCEPT ![r] = About'[r]]
      /\ \A q \in Resolves \ {r} : Outcomes'[q] = Outcomes[q]
    BY <1>1, StoreFrame
<1>3. Outcomes' = [Outcomes EXCEPT ![r] = Outcome(r)']
    BY <1>2 DEF Outcomes
<1>4. CASE BeginResolve(r)
    <2>1. r \notin Open /\ response[r] = "none" /\ Open' = Open \cup {r}
        BY <1>1, <1>2, <1>4 DEF BeginResolve, Arrive, Goto, Places, Open
    <2>2. \E c \in Codes : About' = [About EXCEPT ![r] = c]
        BY <1>1, <1>2, <1>4 DEF BeginResolve, Arrive, Goto, About, Known
    <2>3. Outcome(r)' = Outcome(r)
        BY <1>1, <1>4, <2>1 DEF BeginResolve, Arrive, Goto, Outcome
    <2>4. Outcomes' = Outcomes
        BY <1>3, <2>3 DEF Outcomes
    <2>5. Store!Arrive(r)
        BY <1>1, <1>4, <2>1, <2>2, <2>4 DEF BeginResolve, Arrive, Store!Arrive
    <2> QED
        BY <1>1, <2>5 DEF Store!Next, Store!Requests
<1>5. ASSUME pc[r] # "arriving", pc'[r] # "arriving", code' = code
      PROVE  About' = About /\ About[r] = code[r]
    <2>1. About[r] = code[r] /\ About'[r] = code'[r]
        BY <1>1, <1>5 DEF About, Known
    <2>2. About' = [About EXCEPT ![r] = About[r]]
        BY <1>2, <1>5, <2>1
    <2> QED
        BY <2>1, <2>2 DEF About
<1>6. CASE Select(r)
    <2>1. r \in Open /\ Open' = Open
        BY <1>1, <1>2, <1>6 DEF Select, Goto, Open
    <2>2. About' = About /\ About[r] = code[r]
        BY <1>1, <1>5, <1>6 DEF Select, Goto
    <2>3. record'[r] = short_urls[code[r]] /\ pc'[r] = "evaluating" /\ now' = now
        BY <1>1, <1>6 DEF Select, Goto
    <2>4. Outcome(r)' = Store!Lookup(code[r])
        BY <2>3, TimeAssumption
        DEF Outcome, Answering, IsResolvable, IsExpired, Store!Lookup, Store!Removable, Row, Expiry
    <2>5. Store!Look(r)
        BY <1>3, <1>6, <2>1, <2>2, <2>4 DEF Select, Store!Look
    <2> QED
        BY <2>5 DEF Store!Next
<1>7. ASSUME pc[r] = "evaluating", pc'[r] = "answered", record' = record, code' = code,
             UNCHANGED <<now, short_urls, expires_at>>,
             response' = [response EXCEPT ![r] = Answering(r)]
      PROVE  Store!Next
    <2>1. r \in Open /\ Open' = Open \ {r}
        BY <1>1, <1>2, <1>7 DEF Open
    <2>2. About' = About
        BY <1>5, <1>7
    <2>3. Outcome(r).status = Answering(r) /\ Outcome(r)' = Outcome(r)
        BY <1>1, <1>7 DEF Outcome
    <2>4. Outcomes' = Outcomes /\ Outcomes[r].status = Answering(r) /\ Answering(r) # "none"
        BY <1>3, <2>3 DEF Outcomes, Answering
    <2>5. Store!Resolve(r)
        BY <1>7, <2>1, <2>2, <2>4 DEF Store!Resolve, Store!Answer, Store!NotLooked
    <2> QED
        BY <2>5 DEF Store!Next
<1>8. CASE Redirect(r)
    <2>1. Answering(r) = "302"
        BY <1>8 DEF Redirect, Answering
    <2> QED
        BY <1>1, <1>7, <1>8, <2>1 DEF Redirect, Goto
<1>9. CASE NotResolvable(r)
    <2>1. Answering(r) = "404"
        BY <1>9 DEF NotResolvable, Answering
    <2> QED
        BY <1>1, <1>7, <1>9, <2>1 DEF NotResolvable, Fail, Goto
<1> QED
    BY <1>4, <1>6, <1>8, <1>9 DEF ResolveStep

\* When a row that was read expires, so does the one in the table.
LEMMA TickImplements ==
    ASSUME ServiceInvariant, Tick
    PROVE  Store!Next
<1> USE DEF ServiceInvariant, TypeOK, Requests, shortenVars
<1>1. Open' = Open /\ About' = About
    BY DEF Tick, Open, About, Known
<1> DEFINE looking == {r \in Resolves : Outcome(r)' # Outcome(r)}
<1>2. ASSUME NEW r \in looking
      PROVE  r \in Open /\ Outcome(r)' = Store!Lookup(About[r])'
    <2>0. pc' = pc /\ record' = record /\ response' = response /\ now' = now + 1
        BY DEF Tick
    <2>8. pc[r] = "evaluating"
        BY <1>2, <2>0 DEF Outcome
    <2>9. Answering(r)' # Answering(r)
        BY <1>2, <2>0, <2>8 DEF Outcome
    <2>10. ASSUME record[r] # NoRow, IsExpired(record[r])
           PROVE  IsExpired(record[r])'
        <3>1. record[r].expires_at \in Nat /\ now \in Nat
            BY <2>10, NoRowAssumption, TimeAssumption DEF IsExpired, Row, Expiry
        <3> QED
            BY <2>0, <2>10, <3>1 DEF IsExpired
    <2>1. /\ pc[r] = "evaluating" /\ record[r] # NoRow /\ IsResolvable(record[r])
          /\ ~IsResolvable(record[r])'
        BY <2>0, <2>8, <2>9, <2>10 DEF Answering, IsResolvable
    <2>2. Outcome(r)' = [status |-> "404", location |-> NoRow]
        BY <2>1 DEF Tick, Outcome, Answering
    <2>3. About[r] = code[r] /\ About'[r] = code[r] /\ r \in Open
        BY <1>1, <2>1, RequestAssumption DEF About, Known, Open
    <2>4. record[r].expires_at # Never /\ now' > record[r].expires_at
        BY <2>1 DEF Tick, IsResolvable, IsExpired
    <2>5. short_urls[code[r]].expires_at = record[r].expires_at /\ short_urls' = short_urls
        BY <2>1 DEF Tick, Readings, Deactivated, Row
    <2>6. record[r].expires_at \in Nat /\ now' \in Nat
        BY <2>1, <2>4, NoRowAssumption, TimeAssumption DEF Tick, Row, Expiry
    <2>7. Store!Lookup(About[r])' = [status |-> "404", location |-> NoRow]
        BY <2>3, <2>4, <2>5, <2>6 DEF Store!Lookup
    <2> QED
        BY <2>2, <2>3, <2>7
<1>3. Outcomes' = [r \in Resolves |->
                      IF r \in looking THEN Store!Lookup(About[r])' ELSE Outcomes[r]]
    BY <1>2 DEF Outcomes
<1>4. looking \in SUBSET (Resolves \cap Open)
    BY <1>2
<1> HIDE DEF looking
<1> QED
    BY <1>1, <1>3, <1>4 DEF Tick, Store!Next, Store!Tick

LEMMA StoreNext ==
    ServiceInvariant /\ Inserted /\ [Next]_vars => [Store!Next]_(Store!vars)
<1>1. ASSUME UNCHANGED vars
      PROVE  UNCHANGED Store!vars
    <2>1. Open' = Open /\ About' = About
        BY <1>1 DEF vars, Open, About, Known
    <2>2. Outcomes' = Outcomes
        BY <1>1 DEF vars, Outcomes, Outcome, Answering, IsResolvable, IsExpired
    <2> QED
        BY <1>1, <2>1, <2>2 DEF vars, shortenVars, Store!vars
<1> QED
    BY <1>1, ShortenImplements, ResolveImplements, DeactivateImplements, TickImplements
    DEF Next, Done

\* However the statements of the requests interleave: clients see a store on
\* which each of them takes effect at one moment between arrival and answer.
THEOREM ImplementsStoreAlways == Spec => ImplementsStore
<1>1. Init => Inserted
    BY DEF Init, Inserted, Requests
<1> QED
    BY <1>1, StoreInit, StoreNext, InsertedNext, ServiceInvariantCorrect, PTL
    DEF Spec, ImplementsStore, Store!Spec

=============================================================================
